-------------------------- MODULE StatusRulesProofs --------------------------
(***************************************************************************)
(* Lemmas about the operators of StatusRules, for every number of          *)
(* variables, order and value mode, and for every assignment, lookup order *)
(* and cursor given as arguments: the proofs about one status and those    *)
(* about all statuses of a controller cite the same lemmas.                *)
(***************************************************************************)
EXTENDS StatusRules, TLAPS, SequenceTheorems, WellFoundedInduction

USE NumVarsAssumption

-----------------------------------------------------------------------------
\* Numbers, sequences and literals.

\* Sets of natural numbers have a least element, which is what Min denotes.
LEMMA MinProperties ==
    ASSUME NEW T, T \subseteq Nat, T # {}
    PROVE  /\ Min(T) \in T
           /\ \A y \in T : Min(T) <= y
<1>1. PICK x \in T : \A y \in T : <<y, x>> \notin OpToRel(<, Nat)
  BY WFMin, NatLessThanWellFounded, Zenon
<1>2. \A y \in T : ~(y < x)
  BY <1>1, T \subseteq Nat, Zenon DEF OpToRel
<1>3. \A y \in T : x <= y
  BY <1>2
<1> QED
  BY <1>3 DEF Min

\* The last element of a nonempty sequence, and what remains without it.
LEMMA FrontLastProperties ==
    ASSUME NEW S, NEW s \in Seq(S), s # << >>
    PROVE  /\ Len(s) \in Nat \ {0}
           /\ Last(s) = s[Len(s)] /\ Last(s) \in S
           /\ Front(s) \in Seq(S)
           /\ Len(Front(s)) = Len(s) - 1
           /\ \A i \in 1 .. Len(s) - 1 : Front(s)[i] = s[i]
<1>1. Len(s) \in Nat \ {0}
  BY EmptySeq
<1>2. \A i \in 1 .. Len(s) : s[i] \in S
  BY ElementOfSeq
<1> DEFINE n == Len(s) - 1
<1>3. /\ SubSeq(s, 1, n) \in Seq(S)
      /\ Len(SubSeq(s, 1, n)) = IF 1 <= n THEN n - 1 + 1 ELSE 0
      /\ \A i \in 1 .. n - 1 + 1 : SubSeq(s, 1, n)[i] = s[1 + i - 1]
  <2> n \in Int /\ \A i \in 1 .. n : s[i] \in S
    BY <1>1, <1>2
  <2> HIDE DEF n
  <2> QED
    BY SubSeqProperties
<1>4. Front(s) = SubSeq(s, 1, n) /\ Last(s) = s[Len(s)]
  BY DEF Front, Last
<1>5. Last(s) \in S
  BY <1>1, <1>2, <1>4
<1>6. n \in Nat /\ n - 1 + 1 = n /\ (n < 1 => n = 0)
  <2>1. \A m \in Nat \ {0} : m - 1 \in Nat /\ m - 1 - 1 + 1 = m - 1
                             /\ (m - 1 < 1 => m - 1 = 0)
    OBVIOUS
  <2> QED
    BY <1>1, <2>1
<1>7. \A i \in 1 .. n : Front(s)[i] = s[i]
  BY <1>3, <1>4, <1>6
<1> QED
  BY <1>1, <1>3, <1>4, <1>5, <1>6, <1>7

\* A sequence of the type, as the provers need it.
LEMMA SeqFacts ==
    ASSUME NEW S, NEW s \in Seq(S)
    PROVE  /\ Len(s) \in Nat
           /\ DOMAIN s = 1 .. Len(s)
           /\ \A i \in 1 .. Len(s) : s[i] \in S
  BY LenProperties, ElementOfSeq

LEMMA LiteralFacts ==
    \A l \in Literal : /\ Variable(l) \in Variables
                       /\ Negated(l) \in Literal
                       /\ Variable(Negated(l)) = Variable(l)
                       /\ Negated(Negated(l)) = l
                       /\ Negated(l) # l
                       /\ \A m \in Literal :
                            Variable(l) = Variable(m) => m \in {l, Negated(l)}
  BY DEF Literal, Variable, Variables, Negated

LEMMA VariablesAreLiterals ==
    /\ Variables \subseteq Literal
    /\ \A v \in Variables : Variable(v) = v
    /\ \A l \in Literal : l = Variable(l) \/ l = Negated(Variable(l))
  BY DEF Variables, Literal, Variable, Negated

\* Every literal has one position in the order, that of its variable.
LEMMA OrderIndexFacts ==
    /\ Len(Order) \in Nat
    /\ DOMAIN Order = 1 .. Len(Order)
    /\ \A l \in Literal :
        /\ OrderIndex(l) \in DOMAIN Order
        /\ Order[OrderIndex(l)] = Variable(l)
        /\ \A i \in DOMAIN Order : Order[i] = Variable(l) => i = OrderIndex(l)
  BY LiteralFacts, OrderAssumption, LenProperties DEF OrderIndex

LEMMA InverseFacts ==
    ASSUME NEW inverse, IsLiteralMap(inverse)
    PROVE  \A l \in Literal : /\ inverse[l] \in Literal
                              /\ inverse[Negated(l)] = Negated(inverse[l])
  BY DEF IsLiteralMap

\* The lookup order as the provers need it.
LEMMA LookupFacts ==
    ASSUME NEW lookup, NEW inverse, IsLookup(lookup, inverse)
    PROVE  /\ lookup \in Seq(Variables)
           /\ Len(lookup) \in Nat
           /\ DOMAIN lookup = 1 .. Len(lookup)
           /\ \A k \in 1 .. Len(lookup) : lookup[k] \in Variables
           /\ \A k \in 1 .. Len(lookup) : lookup[k] \in Literal
  BY SeqFacts, VariablesAreLiterals DEF IsLookup

-----------------------------------------------------------------------------
\* The pairs of a lookup order under an assignment.

\* The loop of updateNotify stops at the end or at a pair that is not equal,
\* and every pair it has passed is equal.
LEMMA AdvanceProperties ==
    ASSUME NEW A, NEW lookup \in Seq(Variables), NEW inverse,
           NEW i \in 1 .. Len(lookup) + 1
    PROVE  LET a == Advance(A, lookup, inverse, i)
           IN  /\ a \in i .. Len(lookup) + 1
               /\ \A k \in i .. a - 1 : SameAt(A, lookup, inverse, k)
               /\ a <= Len(lookup) => ~SameAt(A, lookup, inverse, a)
<1> DEFINE Stops == {k \in i .. Len(lookup) + 1 :
                        IsLookupEnd(lookup, k) \/ ~SameAt(A, lookup, inverse, k)}
<1>0. Len(lookup) \in Nat
  BY LenProperties
<1>1. Stops \subseteq Nat /\ Len(lookup) + 1 \in Stops
  BY <1>0 DEF IsLookupEnd
<1>2. Min(Stops) \in Stops /\ \A y \in Stops : Min(Stops) <= y
  BY <1>1, MinProperties
<1>3. ASSUME NEW k \in i .. Min(Stops) - 1
      PROVE  SameAt(A, lookup, inverse, k)
  BY <1>0, <1>2
<1> QED
  BY <1>0, <1>2, <1>3 DEF Advance, IsLookupEnd

\* A literal that is assigned keeps its value when more are assigned
\* consistently.
LEMMA ValueMonotone ==
    ASSUME NEW A, NEW B, A \subseteq B, B \subseteq Literal, Consistent(B),
           NEW l \in Literal, LiteralIsAssigned(A, l)
    PROVE  /\ LiteralIsAssigned(B, l)
           /\ LiteralIsTrue(A, l) <=> LiteralIsTrue(B, l)
           /\ LiteralIsFalse(A, l) <=> LiteralIsFalse(B, l)
  BY LiteralFacts DEF LiteralIsAssigned, LiteralIsTrue, LiteralIsFalse, Consistent

\* Assigning more literals consistently changes the value of no pair.
LEMMA SameAtMonotone ==
    ASSUME NEW A, NEW B, A \subseteq B, B \subseteq Literal, Consistent(B),
           NEW lookup, NEW inverse, IsLiteralMap(inverse),
           IsLookup(lookup, inverse), NEW k \in 1 .. Len(lookup)
    PROVE  /\ SameAt(A, lookup, inverse, k) => SameAt(B, lookup, inverse, k)
           /\ /\ BothLiteralsAreAssigned(A, lookup[k], inverse[lookup[k]])
              /\ SameAt(B, lookup, inverse, k)
              => SameAt(A, lookup, inverse, k)
<1>1. lookup[k] \in Literal
  BY LookupFacts
<1>2. inverse[lookup[k]] \in Literal
  BY <1>1, InverseFacts
<1> QED
  BY <1>1, <1>2, ValueMonotone
     DEF SameAt, HasSameAssignmentValue, BothLiteralsAreAssigned

\* Position c is where a status that is told of the assignment stops: the
\* pairs before it are equal, and its own pair, if it is not the end, is not.
StopsAt(A, lookup, inverse, c) ==
    /\ c \in 1 .. Len(lookup) + 1
    /\ PrefixEqual(A, lookup, inverse, c)
    /\ c <= Len(lookup) => ~SameAt(A, lookup, inverse, c)

\* The loop of updateNotify gets to the stop of the assignment from any cursor
\* whose prefix is equal.
LEMMA AdvanceStops ==
    ASSUME NEW A, NEW lookup \in Seq(Variables), NEW inverse,
           NEW i \in 1 .. Len(lookup) + 1, PrefixEqual(A, lookup, inverse, i)
    PROVE  StopsAt(A, lookup, inverse, Advance(A, lookup, inverse, i))
<1> DEFINE a == Advance(A, lookup, inverse, i)
<1>1. /\ a \in i .. Len(lookup) + 1
      /\ \A k \in i .. a - 1 : SameAt(A, lookup, inverse, k)
      /\ a <= Len(lookup) => ~SameAt(A, lookup, inverse, a)
  BY AdvanceProperties
<1>2. Len(lookup) \in Nat
  BY LenProperties
<1> HIDE DEF a
<1>3. \A k \in 1 .. a - 1 : k \in 1 .. i - 1 \/ k \in i .. a - 1
  BY <1>1, <1>2
<1> QED
  BY <1>1, <1>2, <1>3 DEF PrefixEqual, StopsAt, a

\* An assignment has one stop.
LEMMA StopIsUnique ==
    ASSUME NEW A, NEW lookup \in Seq(Variables), NEW inverse, NEW c, NEW d,
           StopsAt(A, lookup, inverse, c), StopsAt(A, lookup, inverse, d)
    PROVE  c = d
<1>1. Len(lookup) \in Nat
  BY LenProperties
<1> QED
  BY <1>1 DEF StopsAt, PrefixEqual

-----------------------------------------------------------------------------
\* The assignment and its history.

\* A history as the provers need it.
LEMMA HistoryFacts ==
    ASSUME NEW asg, NEW notified, IsHistory(asg, notified)
    PROVE  /\ notified \in Seq(Literal)
           /\ Len(notified) \in Nat
           /\ DOMAIN notified = 1 .. Len(notified)
           /\ \A i \in 1 .. Len(notified) : notified[i] \in Literal
           /\ \A i \in 1 .. Len(notified) : notified[i] \in asg
           /\ asg \subseteq Literal
           /\ Consistent(asg)
  BY SeqFacts DEF IsHistory

\* A variable that is not assigned was not notified.
LEMMA NotYetNotified ==
    ASSUME NEW asg, NEW notified, IsHistory(asg, notified), NEW l \in Literal,
           ~LiteralIsAssigned(asg, l)
    PROVE  \A i \in 1 .. Len(notified) : Variable(notified[i]) # Variable(l)
<1>1. l \notin asg /\ Negated(l) \notin asg
  BY DEF LiteralIsAssigned, LiteralIsTrue, LiteralIsFalse
<1> QED
  BY <1>1, HistoryFacts, LiteralFacts

\* A history with a literal more at its end.
LEMMA AppendFacts ==
    ASSUME NEW notified \in Seq(Literal), NEW l \in Literal,
           NEW notified2, notified2 = Append(notified, l)
    PROVE  /\ notified2 \in Seq(Literal)
           /\ Len(notified2) = Len(notified) + 1
           /\ DOMAIN notified2 = 1 .. Len(notified) + 1
           /\ \A i \in 1 .. Len(notified) : notified2[i] = notified[i]
           /\ notified2[Len(notified) + 1] = l
<1>1. /\ notified2 \in Seq(Literal)
      /\ Len(notified2) = Len(notified) + 1
      /\ \A i \in 1 .. Len(notified) : notified2[i] = notified[i]
      /\ notified2[Len(notified) + 1] = l
  BY AppendProperties
<1> QED
  BY <1>1, SeqFacts

LEMMA AssignKeepsHistory ==
    ASSUME NEW asg, NEW notified, IsHistory(asg, notified), NEW l \in Literal,
           ~LiteralIsAssigned(asg, l),
           NEW asg2, asg2 = AssignFromTrueLiteral(asg, l),
           NEW notified2, notified2 = Append(notified, l)
    PROVE  IsHistory(asg2, notified2)
<1>1. /\ Len(notified) \in Nat
      /\ DOMAIN notified = 1 .. Len(notified)
      /\ notified \in Seq(Literal)
      /\ \A i \in 1 .. Len(notified) : notified[i] \in Literal
  BY HistoryFacts
<1>2. /\ notified2 \in Seq(Literal)
      /\ DOMAIN notified2 = 1 .. Len(notified) + 1
      /\ \A i \in 1 .. Len(notified) : notified2[i] = notified[i]
      /\ notified2[Len(notified) + 1] = l
  BY <1>1, AppendFacts
<1>3. l \notin asg /\ Negated(l) \notin asg /\ asg2 = asg \cup {l}
  BY DEF AssignFromTrueLiteral, LiteralIsAssigned, LiteralIsTrue, LiteralIsFalse
<1>4. asg2 \in SUBSET Literal /\ Consistent(asg2)
  BY <1>3, LiteralFacts DEF Consistent, IsHistory
<1>5. \A m \in Literal : m \in asg2 <=> \E i \in DOMAIN notified2 : notified2[i] = m
  BY <1>1, <1>2, <1>3 DEF IsHistory
<1>6. \A i \in 1 .. Len(notified) : Variable(notified[i]) # Variable(l)
  BY NotYetNotified
<1>7. \A i, j \in DOMAIN notified2 :
          Variable(notified2[i]) = Variable(notified2[j]) => i = j
  BY <1>1, <1>2, <1>6 DEF IsHistory
<1> QED
  BY <1>2, <1>4, <1>5, <1>7 DEF IsHistory

\* A history without its last literal.
LEMMA FrontFacts ==
    ASSUME NEW notified \in Seq(Literal), notified # << >>,
           NEW notified2, notified2 = Front(notified)
    PROVE  /\ notified2 \in Seq(Literal)
           /\ Len(notified) \in Nat \ {0}
           /\ Last(notified) = notified[Len(notified)]
           /\ Last(notified) \in Literal
           /\ Len(notified2) = Len(notified) - 1
           /\ DOMAIN notified2 = 1 .. Len(notified) - 1
           /\ \A i \in 1 .. Len(notified) - 1 : notified2[i] = notified[i]
<1>1. /\ notified2 \in Seq(Literal)
      /\ Len(notified) \in Nat \ {0}
      /\ Last(notified) = notified[Len(notified)]
      /\ Last(notified) \in Literal
      /\ Len(notified2) = Len(notified) - 1
      /\ \A i \in 1 .. Len(notified) - 1 : notified2[i] = notified[i]
  BY FrontLastProperties
<1> QED
  BY <1>1, SeqFacts

\* Unassigning the literal notified last removes it and nothing else.
LEMMA UnassignKeepsHistory ==
    ASSUME NEW asg, NEW notified, IsHistory(asg, notified), notified # << >>,
           NEW asg2, asg2 = UnassignLiteral(asg, Last(notified)),
           NEW notified2, notified2 = Front(notified)
    PROVE  IsHistory(asg2, notified2)
<1> DEFINE n == Len(notified)
<1>1. /\ notified \in Seq(Literal)
      /\ DOMAIN notified = 1 .. n
      /\ \A i \in 1 .. n : notified[i] \in Literal
  BY HistoryFacts
<1>2. /\ n \in Nat \ {0}
      /\ Last(notified) = notified[n] /\ Last(notified) \in Literal
      /\ notified2 \in Seq(Literal)
      /\ DOMAIN notified2 = 1 .. n - 1
      /\ \A i \in 1 .. n - 1 : notified2[i] = notified[i]
  BY <1>1, FrontFacts
<1>3. asg2 = asg \ {notified[n], Negated(notified[n])}
  BY <1>2 DEF UnassignLiteral
<1>4. asg2 \in SUBSET Literal /\ Consistent(asg2)
  BY <1>3 DEF Consistent, IsHistory
<1>5. \A i \in 1 .. n - 1 : notified[i] \notin {notified[n], Negated(notified[n])}
  BY <1>1, <1>2, LiteralFacts DEF IsHistory
<1>6. ASSUME NEW m \in Literal
      PROVE  m \in asg2 <=> \E i \in DOMAIN notified2 : notified2[i] = m
  BY <1>1, <1>2, <1>3, <1>5 DEF IsHistory
<1>7. \A i, j \in DOMAIN notified2 :
          Variable(notified2[i]) = Variable(notified2[j]) => i = j
  BY <1>1, <1>2 DEF IsHistory
<1> QED
  BY <1>2, <1>4, <1>6, <1>7 DEF IsHistory

\* What was assigned by a notification is assigned as long as it is there, and
\* the last one makes it everything.
LEMMA AssignedByFacts ==
    ASSUME NEW asg, NEW notified, IsHistory(asg, notified)
    PROVE  /\ \A i \in DOMAIN notified : /\ AssignedBy(notified, i) \subseteq asg
                                         /\ notified[i] \in AssignedBy(notified, i)
           /\ AssignedBy(notified, Len(notified)) = asg
           /\ \A i, j \in DOMAIN notified : i <= j =>
                 AssignedBy(notified, i) \subseteq AssignedBy(notified, j)
<1>1. /\ Len(notified) \in Nat
      /\ DOMAIN notified = 1 .. Len(notified)
  BY SeqFacts DEF IsHistory
<1>2. \A m \in asg : m \in Literal
  BY DEF IsHistory
<1>3. \A i \in 1 .. Len(notified) : notified[i] \in asg
  BY <1>1, SeqFacts DEF IsHistory
<1> QED
  BY <1>1, <1>2, <1>3 DEF IsHistory, AssignedBy

\* A common part of two histories assigns the same.
LEMMA AssignedByPrefix ==
    ASSUME NEW notified, NEW notified2, NEW i \in Nat,
           \A j \in 1 .. i : notified2[j] = notified[j]
    PROVE  AssignedBy(notified2, i) = AssignedBy(notified, i)
  BY DEF AssignedBy

-----------------------------------------------------------------------------
\* The cursor and its undo stack.

LEMMA CursorFacts ==
    ASSUME NEW lookup, NEW index, NEW infos, IsCursor(lookup, index, infos)
    PROVE  /\ index \in 1 .. Len(lookup) + 1
           /\ Len(infos) \in Nat
           /\ DOMAIN infos = 1 .. Len(infos)
           /\ \A k \in 1 .. Len(infos) :
                 /\ infos[k].variable \in Range(lookup)
                 /\ infos[k].backIndex \in 1 .. Len(lookup) + 1
<1>1. /\ Len(infos) \in Nat
      /\ DOMAIN infos = 1 .. Len(infos)
      /\ \A k \in 1 .. Len(infos) : infos[k] \in LookupInfo(lookup)
  BY SeqFacts DEF IsCursor
<1>2. \A e \in LookupInfo(lookup) : /\ e.variable \in Range(lookup)
                                    /\ e.backIndex \in 1 .. Len(lookup) + 1
  BY DEF LookupInfo
<1> QED
  BY <1>1, <1>2 DEF IsCursor

\* A status that was just made.
LEMMA NewStatus ==
    ASSUME NEW lookup \in Seq(Variables), NEW inverse, NEW notified
    PROVE  /\ IsCursor(lookup, 1, << >>)
           /\ UndoMatches(notified, lookup, inverse, 1, << >>)
<1>1. Len(lookup) \in Nat
  BY LenProperties
<1>2. << >> \in Seq(LookupInfo(lookup)) /\ Len(<< >>) = 0 /\ DOMAIN << >> = {}
  BY EmptySeq
<1> QED
  BY <1>1, <1>2 DEF IsCursor, UndoMatches, IndexAfter

\* The pairs the cursor has passed are equal on what the last entry's literal
\* completed, hence on everything.
LEMMA UndoImpliesPrefix ==
    ASSUME NEW asg, NEW notified, IsHistory(asg, notified),
           NEW lookup, NEW inverse, IsLiteralMap(inverse), IsLookup(lookup, inverse),
           NEW index, NEW infos, IsCursor(lookup, index, infos),
           UndoMatches(notified, lookup, inverse, index, infos)
    PROVE  PrefixEqual(asg, lookup, inverse, index)
<1> USE CursorFacts, LookupFacts
<1>2. CASE Len(infos) = 0
  BY <1>2 DEF UndoMatches, IndexAfter, PrefixEqual
<1>3. CASE Len(infos) # 0
  <2>1. Len(infos) \in DOMAIN infos
    BY <1>3
  <2>2. PICK i \in DOMAIN notified :
            PrefixEqual(AssignedBy(notified, i), lookup, inverse, index)
    BY <2>1 DEF UndoMatches, IndexAfter
  <2>3. AssignedBy(notified, i) \subseteq asg /\ asg \subseteq Literal /\ Consistent(asg)
    BY AssignedByFacts DEF IsHistory
  <2>4. \A k \in 1 .. index - 1 : k \in 1 .. Len(lookup)
    OBVIOUS
  <2> QED
    BY <2>2, <2>3, <2>4, SameAtMonotone DEF PrefixEqual
<1> QED
  BY <1>2, <1>3

\* A status that is not told of a literal keeps its stack.
LEMMA MissKeepsUndo ==
    ASSUME NEW asg, NEW notified, IsHistory(asg, notified), NEW l \in Literal,
           ~LiteralIsAssigned(asg, l),
           NEW notified2, notified2 = Append(notified, l),
           NEW lookup, NEW inverse, NEW index, NEW infos,
           UndoMatches(notified, lookup, inverse, index, infos)
    PROVE  UndoMatches(notified2, lookup, inverse, index, infos)
<1> DEFINE p == Len(notified) + 1
<1>1. /\ Len(notified) \in Nat
      /\ DOMAIN notified = 1 .. Len(notified)
      /\ notified \in Seq(Literal)
      /\ \A i \in 1 .. Len(notified) : Variable(notified[i]) # Variable(l)
  BY HistoryFacts, NotYetNotified
<1>2. /\ DOMAIN notified2 = 1 .. p
      /\ \A i \in 1 .. Len(notified) : notified2[i] = notified[i]
      /\ notified2[p] = l
  BY <1>1, AppendFacts
<1>3. \A k \in DOMAIN infos, i \in 1 .. Len(notified) :
          PushedAt(notified2, infos, k, i) <=> PushedAt(notified, infos, k, i)
  BY <1>2 DEF PushedAt
<1>4. \A k \in DOMAIN infos : ~PushedAt(notified2, infos, k, p)
  <2>1. \A k \in DOMAIN infos : \E i \in DOMAIN notified : PushedAt(notified, infos, k, i)
    BY DEF UndoMatches
  <2> QED
    BY <1>1, <1>2, <2>1 DEF PushedAt
<1>5. ASSUME NEW i \in 1 .. Len(notified)
      PROVE  AssignedBy(notified2, i) = AssignedBy(notified, i)
  <2>1. i \in Nat /\ \A j \in 1 .. i : notified2[j] = notified[j]
    BY <1>1, <1>2
  <2> QED
    BY <2>1, AssignedByPrefix
<1>6. ASSUME NEW k \in DOMAIN infos
      PROVE  /\ infos[k].backIndex < IndexAfter(index, infos, k)
             /\ \E i \in DOMAIN notified2 :
                   /\ PushedAt(notified2, infos, k, i)
                   /\ PrefixEqual(AssignedBy(notified2, i), lookup, inverse,
                                  IndexAfter(index, infos, k))
  <2>1. infos[k].backIndex < IndexAfter(index, infos, k)
    BY DEF UndoMatches
  <2>2. PICK i \in DOMAIN notified :
           /\ PushedAt(notified, infos, k, i)
           /\ PrefixEqual(AssignedBy(notified, i), lookup, inverse,
                          IndexAfter(index, infos, k))
    BY DEF UndoMatches
  <2>3. i \in DOMAIN notified2 /\ PushedAt(notified2, infos, k, i)
    BY <1>2, <1>3, <2>2
  <2>4. AssignedBy(notified2, i) = AssignedBy(notified, i)
    BY <1>2, <1>5, <2>2
  <2> QED
    BY <2>1, <2>2, <2>3, <2>4
<1>7. \A k, m \in DOMAIN infos, i, j \in DOMAIN notified2 :
          /\ k < m
          /\ PushedAt(notified2, infos, k, i) /\ PushedAt(notified2, infos, m, j)
          => i < j
  <2>1. \A i \in DOMAIN notified2 : i \in DOMAIN notified \/ i = p
    BY <1>2
  <2> QED
    BY <1>2, <1>3, <1>4, <2>1 DEF UndoMatches
<1>8. IndexAfter(index, infos, 0) = 1
  BY DEF UndoMatches
<1> HIDE DEF p
<1> QED
  BY <1>6, <1>7, <1>8 DEF UndoMatches

\* A literal is assigned and the status is told: its cursor moves on to index2
\* and its stack infos2 remembers where it was.
IsTold(asg, notified, lookup, inverse, index, infos, l, asg2, notified2, index2, infos2) ==
    /\ ~LiteralIsAssigned(asg, l)
    /\ inverse[Variable(l)] # Variable(l)
    /\ asg2 = AssignFromTrueLiteral(asg, l)
    /\ notified2 = Append(notified, l)
    /\ index2 = Advance(asg2, lookup, inverse, index)
    /\ index2 # index => infos2 = Append(infos, [variable  |-> Variable(l),
                                                 backIndex |-> index])
    /\ index2 = index => infos2 = infos

\* A status that is told of a literal keeps its stack in step with the trail.
LEMMA TellKeepsUndo ==
    ASSUME NEW asg, NEW notified, IsHistory(asg, notified), NEW l \in Literal,
           NEW lookup, NEW inverse, IsLiteralMap(inverse), IsLookup(lookup, inverse),
           NEW index, NEW infos, IsCursor(lookup, index, infos),
           UndoMatches(notified, lookup, inverse, index, infos),
           NEW asg2, NEW notified2, NEW index2, NEW infos2,
           IsTold(asg, notified, lookup, inverse, index, infos, l,
                  asg2, notified2, index2, infos2)
    PROVE  /\ IsCursor(lookup, index2, infos2)
           /\ UndoMatches(notified2, lookup, inverse, index2, infos2)
<1> USE DEF IsTold
<1> DEFINE p == Len(notified) + 1
           n == Len(infos)
           entry == [variable |-> Variable(l), backIndex |-> index]
<1>0. IsHistory(asg2, notified2)
  BY AssignKeepsHistory
<1>1. /\ Len(notified) \in Nat
      /\ DOMAIN notified = 1 .. Len(notified)
      /\ notified \in Seq(Literal)
      /\ \A i \in 1 .. Len(notified) : Variable(notified[i]) # Variable(l)
  BY HistoryFacts, NotYetNotified
<1>2. /\ Len(notified2) = p
      /\ DOMAIN notified2 = 1 .. p
      /\ p \in DOMAIN notified2
      /\ \A i \in 1 .. Len(notified) : notified2[i] = notified[i]
      /\ notified2[p] = l
  BY <1>1, AppendFacts
<1>3. /\ index \in 1 .. Len(lookup) + 1
      /\ n \in Nat
      /\ DOMAIN infos = 1 .. n
      /\ infos \in Seq(LookupInfo(lookup))
      /\ lookup \in Seq(Variables)
      /\ Len(lookup) \in Nat
  BY CursorFacts, LookupFacts DEF IsCursor
<1>4. PrefixEqual(asg, lookup, inverse, index)
  BY UndoImpliesPrefix
<1>5. asg \subseteq asg2 /\ asg2 \subseteq Literal /\ Consistent(asg2)
  BY <1>0 DEF AssignFromTrueLiteral, IsHistory
<1>6. PrefixEqual(asg2, lookup, inverse, index)
  <2>1. \A k \in 1 .. index - 1 : k \in 1 .. Len(lookup)
    BY <1>3
  <2> QED
    BY <1>4, <1>5, <2>1, SameAtMonotone DEF PrefixEqual
<1>7. /\ index2 \in index .. Len(lookup) + 1
      /\ PrefixEqual(asg2, lookup, inverse, index2)
  BY <1>3, <1>6, AdvanceProperties, AdvanceStops DEF StopsAt
<1>8. CASE index2 = index
  <2>1. infos2 = infos
    BY <1>8
  <2>2. UndoMatches(notified2, lookup, inverse, index, infos)
    BY MissKeepsUndo
  <2> QED
    BY <1>8, <2>1, <2>2
<1>9. CASE index2 # index
  <2>1. entry \in LookupInfo(lookup)
    <3>1. Variable(l) \in Range(lookup)
      BY LiteralFacts DEF IsLookup, Range
    <3> QED
      BY <1>3, <3>1 DEF LookupInfo
  <2>2. infos2 = Append(infos, entry)
    BY <1>9
  <2> HIDE DEF entry, p, n
  <2>3. /\ infos2 \in Seq(LookupInfo(lookup))
        /\ Len(infos2) = n + 1
        /\ \A k \in 1 .. n : infos2[k] = infos[k]
        /\ infos2[n + 1] = entry
        /\ DOMAIN infos2 = 1 .. n + 1
    <3>1. /\ infos2 \in Seq(LookupInfo(lookup))
          /\ Len(infos2) = Len(infos) + 1
          /\ \A k \in 1 .. Len(infos) : infos2[k] = infos[k]
          /\ infos2[Len(infos) + 1] = entry
      BY <1>3, <2>1, <2>2, AppendProperties
    <3>2. DOMAIN infos2 = 1 .. Len(infos2)
      BY <3>1, SeqFacts
    <3> QED
      BY <3>1, <3>2 DEF n
  <2>4. entry.variable = Variable(l) /\ entry.backIndex = index
    BY DEF entry
  <2>5. IsCursor(lookup, index2, infos2)
    BY <1>3, <1>7, <2>3 DEF IsCursor
  <2>6. /\ \A k \in 0 .. n : IndexAfter(index2, infos2, k) = IndexAfter(index, infos, k)
        /\ IndexAfter(index2, infos2, n + 1) = index2
    <3>1. n = Len(infos) /\ n \in Nat
      BY <1>3 DEF n
    <3> QED
      BY <2>3, <2>4, <3>1 DEF IndexAfter
  <2>7. \A k \in 1 .. n, i \in DOMAIN notified :
            PushedAt(notified2, infos2, k, i) <=> PushedAt(notified, infos, k, i)
    BY <1>1, <1>2, <2>3 DEF PushedAt
  <2>8. \A k \in 1 .. n : ~PushedAt(notified2, infos2, k, p)
    <3>1. DOMAIN infos = 1 .. n
      BY <1>3 DEF n
    <3>2. SUFFICES ASSUME NEW k \in 1 .. n, PushedAt(notified2, infos2, k, p)
                   PROVE  FALSE
      OBVIOUS
    <3>3. PICK i \in DOMAIN notified : Variable(notified[i]) = infos[k].variable
      BY <3>1 DEF UndoMatches, PushedAt
    <3>4. Variable(l) = infos2[k].variable /\ infos2[k] = infos[k]
      BY <1>2, <2>3, <3>2 DEF PushedAt
    <3> QED
      BY <1>1, <3>3, <3>4
  <2>9. /\ PushedAt(notified2, infos2, n + 1, p)
        /\ \A i \in DOMAIN notified : ~PushedAt(notified2, infos2, n + 1, i)
    BY <1>1, <1>2, <2>3, <2>4 DEF PushedAt
  <2>10. ASSUME NEW i \in DOMAIN notified
         PROVE  AssignedBy(notified2, i) = AssignedBy(notified, i)
    <3>1. i \in Nat /\ \A j \in 1 .. i : notified2[j] = notified[j]
      BY <1>1, <1>2
    <3> QED
      BY <3>1, AssignedByPrefix
  <2>11. AssignedBy(notified2, p) = asg2
    BY <1>0, <1>2, AssignedByFacts
  <2>12. \A i \in DOMAIN notified2 : i \in DOMAIN notified \/ i = p
    BY <1>2 DEF p
  <2>13. IndexAfter(index2, infos2, 0) = 1
    BY <1>3, <2>6 DEF UndoMatches
  <2>14. ASSUME NEW k \in DOMAIN infos2
         PROVE  /\ infos2[k].backIndex < IndexAfter(index2, infos2, k)
                /\ \E i \in DOMAIN notified2 :
                      /\ PushedAt(notified2, infos2, k, i)
                      /\ PrefixEqual(AssignedBy(notified2, i), lookup, inverse,
                                     IndexAfter(index2, infos2, k))
    <3>1. CASE k \in 1 .. n
      <4>1. infos[k].backIndex < IndexAfter(index, infos, k)
        BY <1>3, <3>1 DEF UndoMatches
      <4>2. PICK i \in DOMAIN notified :
               /\ PushedAt(notified, infos, k, i)
               /\ PrefixEqual(AssignedBy(notified, i), lookup, inverse,
                              IndexAfter(index, infos, k))
        BY <1>3, <3>1 DEF UndoMatches
      <4>3. IndexAfter(index2, infos2, k) = IndexAfter(index, infos, k)
        BY <1>3, <2>6, <3>1
      <4>4. i \in DOMAIN notified2
        BY <1>2, <4>2 DEF p
      <4> QED
        BY <2>3, <2>7, <2>10, <3>1, <4>1, <4>2, <4>3, <4>4
    <3>2. CASE k = n + 1
      <4>1. index < index2
        BY <1>3, <1>7, <1>9
      <4> QED
        BY <1>2, <1>7, <2>3, <2>4, <2>6, <2>9, <2>11, <3>2, <4>1
    <3>3. k \in 1 .. n \/ k = n + 1
      BY <1>3, <2>3
    <3> QED
      BY <3>1, <3>2, <3>3
  <2>15. ASSUME NEW k \in DOMAIN infos2, NEW m \in DOMAIN infos2,
                NEW i \in DOMAIN notified2, NEW j \in DOMAIN notified2, k < m,
                PushedAt(notified2, infos2, k, i), PushedAt(notified2, infos2, m, j)
         PROVE  i < j
    <3>1. k \in 1 .. n /\ (m \in 1 .. n \/ m = n + 1)
      BY <1>3, <2>3, <2>15
    <3>2. i \in DOMAIN notified /\ PushedAt(notified, infos, k, i)
      BY <2>7, <2>8, <2>12, <2>15, <3>1
    <3>3. CASE m \in 1 .. n
      <4>1. j \in DOMAIN notified /\ PushedAt(notified, infos, m, j)
        BY <2>7, <2>8, <2>12, <2>15, <3>3
      <4> QED
        BY <1>3, <2>15, <3>1, <3>2, <3>3, <4>1 DEF UndoMatches
    <3>4. CASE m = n + 1
      <4>1. j = p
        BY <2>9, <2>12, <2>15, <3>4
      <4> QED
        BY <1>2, <3>2, <4>1 DEF p
    <3> QED
      BY <3>1, <3>3, <3>4
  <2> QED
    BY <2>5, <2>13, <2>14, <2>15 DEF UndoMatches
<1> QED
  BY <1>8, <1>9

\* A cancellation of the last literal that pops the last entry when that belongs
\* to the literal: the entries that survive belong to the literals that do.  The
\* entry of the last literal can only be the last one, because entries are in
\* the order of their literals.
LEMMA PopKeepsUndo ==
    ASSUME NEW asg, NEW notified, IsHistory(asg, notified), notified # << >>,
           NEW notified2, notified2 = Front(notified),
           NEW lookup, NEW inverse, NEW index, NEW infos,
           IsCursor(lookup, index, infos),
           UndoMatches(notified, lookup, inverse, index, infos),
           NEW index2, NEW infos2,
           \/ /\ infos # << >> /\ Last(infos).variable = Variable(Last(notified))
              /\ index2 = Last(infos).backIndex /\ infos2 = Front(infos)
           \/ /\ infos = << >> \/ Last(infos).variable # Variable(Last(notified))
              /\ index2 = index /\ infos2 = infos
    PROVE  /\ IsCursor(lookup, index2, infos2)
           /\ UndoMatches(notified2, lookup, inverse, index2, infos2)
<1>0. PICK p \in Nat \ {0}, n \in Nat : p = Len(notified) /\ n = Len(infos)
  BY HistoryFacts, FrontFacts, CursorFacts
<1>1. /\ DOMAIN notified = 1 .. p
      /\ DOMAIN notified2 = 1 .. p - 1
      /\ \A i \in 1 .. p - 1 : notified2[i] = notified[i]
      /\ Last(notified) = notified[p]
  <2>1. notified \in Seq(Literal) /\ DOMAIN notified = 1 .. p
    BY <1>0, HistoryFacts
  <2>2. /\ DOMAIN notified2 = 1 .. p - 1
        /\ \A i \in 1 .. p - 1 : notified2[i] = notified[i]
        /\ Last(notified) = notified[p]
    BY <1>0, <2>1, FrontFacts
  <2> QED
    BY <2>1, <2>2
<1>2. /\ DOMAIN infos = 1 .. n
      /\ infos \in Seq(LookupInfo(lookup))
      /\ index \in 1 .. Len(lookup) + 1
      /\ \A k \in 1 .. n : infos[k].backIndex \in 1 .. Len(lookup) + 1
  BY <1>0, CursorFacts DEF IsCursor
<1>3. \A k \in 1 .. n : \E i \in 1 .. p : PushedAt(notified, infos, k, i)
  BY <1>1, <1>2 DEF UndoMatches
<1>4. \A k, m \in 1 .. n, i, j \in 1 .. p :
          k < m /\ PushedAt(notified, infos, k, i) /\ PushedAt(notified, infos, m, j)
          => i < j
  BY <1>1, <1>2 DEF UndoMatches
<1>5. PICK n2 \in Nat :
         /\ n2 <= n
         /\ Len(infos2) = n2
         /\ infos2 \in Seq(LookupInfo(lookup))
         /\ \A k \in 1 .. n2 : infos2[k] = infos[k]
         /\ \A k \in 0 .. n2 : IndexAfter(index2, infos2, k) = IndexAfter(index, infos, k)
         /\ index2 \in 1 .. Len(lookup) + 1
         /\ \A k \in 1 .. n2 : ~PushedAt(notified, infos, k, p)
  <2>1. CASE /\ infos # << >> /\ Last(infos).variable = Variable(Last(notified))
             /\ index2 = Last(infos).backIndex /\ infos2 = Front(infos)
    <3>1. /\ n \in Nat \ {0}
          /\ Last(infos) = infos[n]
          /\ infos2 \in Seq(LookupInfo(lookup))
          /\ Len(infos2) = n - 1
          /\ \A k \in 1 .. n - 1 : infos2[k] = infos[k]
      BY <1>0, <1>2, <2>1, FrontLastProperties
    <3>2. index2 = infos[n].backIndex /\ index2 \in 1 .. Len(lookup) + 1
      BY <1>2, <2>1, <3>1
    <3>3. \A k \in 0 .. n - 1 : IndexAfter(index2, infos2, k) = IndexAfter(index, infos, k)
      BY <1>0, <3>1, <3>2 DEF IndexAfter
    <3>4. ASSUME NEW k \in 1 .. n - 1, PushedAt(notified, infos, k, p) PROVE FALSE
      <4>1. PushedAt(notified, infos, n, p)
        BY <1>1, <2>1, <3>1 DEF PushedAt
      <4>2. k \in 1 .. n /\ n \in 1 .. n /\ p \in 1 .. p /\ k < n
        BY <3>1
      <4>3. p < p
        BY <1>4, <3>4, <4>1, <4>2
      <4> QED
        BY <4>3
    <3>5. /\ n - 1 \in Nat /\ n - 1 <= n
          /\ \A k \in 1 .. n - 1 : ~PushedAt(notified, infos, k, p)
      BY <3>1, <3>4
    <3> QED
      BY <3>1, <3>2, <3>3, <3>5, Zenon
  <2>2. CASE /\ infos = << >> \/ Last(infos).variable # Variable(Last(notified))
             /\ index2 = index /\ infos2 = infos
    <3>1. ASSUME NEW k \in 1 .. n, PushedAt(notified, infos, k, p) PROVE FALSE
      <4>1. n \in 1 .. n /\ p \in 1 .. p
        OBVIOUS
      <4>2. infos # << >> /\ Last(infos) = infos[n]
        <5>1. infos # << >>
          BY <1>0, <4>1, EmptySeq
        <5> QED
          BY <1>0, <1>2, <5>1, FrontLastProperties
      <4>3. ~PushedAt(notified, infos, n, p)
        BY <1>1, <2>2, <4>2 DEF PushedAt
      <4>4. PICK i \in 1 .. p : PushedAt(notified, infos, n, i)
        BY <1>3, <4>1
      <4>5. i < p
        BY <4>3, <4>4
      <4>6. k < n
        BY <3>1, <4>3
      <4>7. p < i
        BY <1>4, <3>1, <4>1, <4>4, <4>6
      <4> QED
        BY <4>5, <4>7
    <3>2. /\ n <= n /\ Len(infos2) = n
          /\ infos2 \in Seq(LookupInfo(lookup))
          /\ \A k \in 1 .. n : infos2[k] = infos[k]
          /\ \A k \in 0 .. n : IndexAfter(index2, infos2, k) = IndexAfter(index, infos, k)
          /\ index2 \in 1 .. Len(lookup) + 1
          /\ \A k \in 1 .. n : ~PushedAt(notified, infos, k, p)
      BY <1>0, <1>2, <2>2, <3>1
    <3> QED
      BY <3>2, Zenon
  <2> QED
    BY <2>1, <2>2
<1>6. DOMAIN infos2 = 1 .. n2
  BY <1>5, SeqFacts
<1>7. \A k \in 1 .. n2 : k \in 1 .. n
  BY <1>5
<1>8. \A k \in 1 .. n2, i \in 1 .. p - 1 :
          PushedAt(notified2, infos2, k, i) <=> PushedAt(notified, infos, k, i)
  BY <1>1, <1>5 DEF PushedAt
<1>9. ASSUME NEW i \in 1 .. p - 1
      PROVE  AssignedBy(notified2, i) = AssignedBy(notified, i)
  <2>1. i \in Nat /\ \A j \in 1 .. i : notified2[j] = notified[j]
    BY <1>1
  <2> QED
    BY <2>1, AssignedByPrefix
<1>10. ASSUME NEW k \in 1 .. n2
       PROVE  /\ infos2[k].backIndex < IndexAfter(index2, infos2, k)
              /\ \E i \in DOMAIN notified2 :
                    /\ PushedAt(notified2, infos2, k, i)
                    /\ PrefixEqual(AssignedBy(notified2, i), lookup, inverse,
                                   IndexAfter(index2, infos2, k))
  <2>1. k \in DOMAIN infos
    BY <1>2, <1>7
  <2>2. PICK i \in 1 .. p :
           /\ PushedAt(notified, infos, k, i)
           /\ PrefixEqual(AssignedBy(notified, i), lookup, inverse,
                          IndexAfter(index, infos, k))
    BY <1>1, <2>1 DEF UndoMatches
  <2>3. infos[k].backIndex < IndexAfter(index, infos, k)
    BY <2>1 DEF UndoMatches
  <2>4. i \in 1 .. p - 1
    <3>1. i # p
      BY <1>5, <2>2
    <3> QED
      BY <3>1
  <2>5. IndexAfter(index2, infos2, k) = IndexAfter(index, infos, k)
    <3>1. k \in 0 .. n2
      OBVIOUS
    <3> QED
      BY <1>5, <3>1
  <2> QED
    BY <1>1, <1>5, <1>8, <1>9, <2>2, <2>3, <2>4, <2>5
<1>11. \A k, m \in 1 .. n2, i, j \in 1 .. p - 1 :
           /\ k < m
           /\ PushedAt(notified2, infos2, k, i) /\ PushedAt(notified2, infos2, m, j)
           => i < j
  <2>1. \A i \in 1 .. p - 1 : i \in 1 .. p
    OBVIOUS
  <2> QED
    BY <1>4, <1>7, <1>8, <2>1
<1>12. IndexAfter(index2, infos2, 0) = 1
  <2>1. 0 \in 0 .. n2
    OBVIOUS
  <2> QED
    BY <1>5, <2>1 DEF UndoMatches
<1>13. IsCursor(lookup, index2, infos2)
  BY <1>5 DEF IsCursor
<1> QED
  BY <1>1, <1>6, <1>10, <1>11, <1>12, <1>13 DEF UndoMatches

-----------------------------------------------------------------------------
(***************************************************************************)
(* What a status concludes at its stop is right about every total          *)
(* extension of the assignment, when its permutation is an involution.     *)
(*                                                                         *)
(* updateState compares the pair (element, image) by the positions of its  *)
(* two variables.  The argument below shows where involutions come in: the *)
(* image can only come first in the order when the pair was passed already *)
(* from its other side, and then it is equal.                              *)
(***************************************************************************)

\* A total assignment makes exactly one of a literal and its negation true.
LEMMA TotalFacts ==
    ASSUME NEW total \in TotalAssignments
    PROVE  /\ total \subseteq Literal
           /\ Consistent(total)
           /\ \A l \in Literal : l \in total <=> Negated(l) \notin total
<1>1. PICK pos \in SUBSET Variables :
          total = {LiteralOf(v, v \in pos) : v \in Variables}
  BY DEF TotalAssignments
<1>2. \A v \in Variables : /\ v \in Literal /\ -v \in Literal
                           /\ v > 0 /\ ~(-v > 0)
  BY DEF Variables, Literal
<1>3. \A l \in total : \E v \in Variables : l = IF v \in pos THEN v ELSE -v
  BY <1>1 DEF LiteralOf
<1>4. total \subseteq Literal
  BY <1>2, <1>3
<1>5. \A v \in Variables : /\ v \in total <=> v \in pos
                           /\ -v \in total <=> v \notin pos
  <2> SUFFICES ASSUME NEW v \in Variables
               PROVE  /\ v \in total <=> v \in pos
                      /\ -v \in total <=> v \notin pos
    OBVIOUS
  <2>1. (IF v \in pos THEN v ELSE -v) \in total
    BY <1>1 DEF LiteralOf
  <2>2. ASSUME NEW w \in Variables, v = IF w \in pos THEN w ELSE -w
        PROVE  v \in pos
    BY <1>2, <2>2 DEF Variables
  <2>3. ASSUME NEW w \in Variables, -v = IF w \in pos THEN w ELSE -w
        PROVE  v \notin pos
    BY <1>2, <2>3 DEF Variables
  <2> QED
    BY <1>3, <2>1, <2>2, <2>3
<1>6. \A l \in Literal : \E v \in Variables : l = v \/ l = -v
  BY DEF Literal, Variables
<1>7. ASSUME NEW l \in Literal PROVE l \in total <=> Negated(l) \notin total
  <2>1. PICK v \in Variables : l = v \/ l = -v
    BY <1>6
  <2>2. -(-v) = v
    BY DEF Variables
  <2> QED
    BY <1>5, <2>1, <2>2 DEF Negated
<1> QED
  BY <1>4, <1>7 DEF Consistent

\* Reading a literal in the image of a total assignment.
LEMMA ImageFacts ==
    ASSUME NEW inverse, IsLiteralMap(inverse),
           NEW total \in TotalAssignments, NEW l \in Literal
    PROVE  IsMinimalValue(Image(inverse, total), l)
             <=> IsMinimalValue(total, inverse[l])
<1>1. l \in Image(inverse, total) <=> inverse[l] \in total
  BY DEF Image
<1>2. Negated(l) \in Image(inverse, total) <=> Negated(inverse[l]) \in total
  BY LiteralFacts, InverseFacts DEF Image
<1>3. Negated(inverse[l]) \in total <=> inverse[l] \notin total
  BY TotalFacts, InverseFacts
<1> QED
  BY <1>1, <1>2, <1>3 DEF IsMinimalValue, LiteralIsTrue, LiteralIsFalse

\* The values of a pair in a total assignment are equal when one of them is
\* minimal exactly if the other is.
LEMMA SameAtTotal ==
    ASSUME NEW lookup, NEW inverse, IsLiteralMap(inverse), IsLookup(lookup, inverse),
           NEW total \in TotalAssignments, NEW k \in 1 .. Len(lookup)
    PROVE  SameAt(total, lookup, inverse, k)
             <=> (IsMinimalValue(total, lookup[k])
                    <=> IsMinimalValue(total, inverse[lookup[k]]))
<1>1. lookup[k] \in Literal
  BY LookupFacts
<1>2. inverse[lookup[k]] \in Literal
  BY <1>1, InverseFacts
<1> QED
  BY <1>1, <1>2, TotalFacts
     DEF SameAt, HasSameAssignmentValue, BothLiteralsAreAssigned,
         LiteralIsAssigned, LiteralIsTrue, LiteralIsFalse, IsMinimalValue

\* The literals that the permutation moves, and they alone, are in the lookup
\* order, and a variable that comes before position c of it is at an earlier
\* position.
LEMMA EarlierInLookup ==
    ASSUME NEW lookup, NEW inverse, IsLookup(lookup, inverse),
           NEW c \in 1 .. Len(lookup), NEW v \in Variables,
           inverse[v] # v, OrderIndex(v) < OrderIndex(lookup[c])
    PROVE  \E k \in 1 .. c - 1 : lookup[k] = v
<1>1. PICK k \in DOMAIN lookup : lookup[k] = v
  BY DEF IsLookup
<1>2. Len(lookup) \in Nat /\ DOMAIN lookup = 1 .. Len(lookup) /\ lookup[c] \in Literal
  BY LookupFacts
<1>3. OrderIndex(v) \in Int /\ OrderIndex(lookup[c]) \in Int
  BY <1>2, OrderIndexFacts, VariablesAreLiterals
<1>4. ~(c < k) /\ c # k
  BY <1>1, <1>2, <1>3 DEF IsLookup
<1> QED
  BY <1>1, <1>2, <1>4

\* At the stop of an involution the image never comes first in the order.
LEMMA ElementIsMinimal ==
    ASSUME NEW lookup, NEW inverse, IsLiteralMap(inverse), IsLookup(lookup, inverse),
           IsInvolution(inverse),
           NEW asg, Consistent(asg), NEW c \in 1 .. Len(lookup),
           StopsAt(asg, lookup, inverse, c)
    PROVE  Minimal(lookup, inverse, c) = lookup[c]
<1> DEFINE e == lookup[c]
           m == inverse[e]
           v == Variable(m)
<1>1. e \in Variables /\ e \in Literal /\ m \in Literal /\ v \in Variables
  BY LookupFacts, InverseFacts, LiteralFacts
<1>2. OrderIndex(v) = OrderIndex(m)
  BY <1>1, VariablesAreLiterals DEF OrderIndex
<1>3. inverse[m] = e
  BY <1>1 DEF IsInvolution
<1>4. v \in Literal /\ (v = m \/ v = Negated(m)) /\ Negated(Negated(m)) = m
  BY <1>1, VariablesAreLiterals, LiteralFacts
<1>5. inverse[v] = IF v = m THEN e ELSE Negated(e)
  BY <1>1, <1>3, <1>4, InverseFacts
<1>6. SUFFICES ASSUME OrderIndex(m) < OrderIndex(e) PROVE FALSE
  <2>1. OrderIndex(m) \in Int /\ OrderIndex(e) \in Int
    BY <1>1, OrderIndexFacts
  <2> QED
    BY <2>1 DEF Minimal, Leq
<1>7. inverse[v] # v
  <2>1. OrderIndex(m) # OrderIndex(e)
    BY <1>1, <1>6, OrderIndexFacts
  <2>2. Variable(m) # Variable(e)
    BY <1>1, <2>1, OrderIndexFacts
  <2>3. Variable(Negated(e)) = Variable(e)
    BY <1>1, LiteralFacts
  <2>4. v # e /\ v # Negated(e)
    BY <1>1, <2>2, <2>3, VariablesAreLiterals
  <2> QED
    BY <1>1, <1>5, <2>4
<1>8. PICK k \in 1 .. c - 1 : lookup[k] = v
  BY <1>1, <1>2, <1>6, <1>7, EarlierInLookup
<1>9. HasSameAssignmentValue(asg, v, inverse[v])
  BY <1>8 DEF SameAt, StopsAt, PrefixEqual
<1>10. ~HasSameAssignmentValue(asg, e, m)
  BY LookupFacts DEF SameAt, StopsAt
<1>11. \A x \in Literal : LiteralIsAssigned(asg, Negated(x)) <=> LiteralIsAssigned(asg, x)
  BY LiteralFacts DEF LiteralIsAssigned, LiteralIsTrue, LiteralIsFalse
<1>12. \A x \in Literal : LiteralIsAssigned(asg, x) =>
            (LiteralIsTrue(asg, Negated(x)) <=> ~LiteralIsTrue(asg, x))
  BY DEF Consistent, LiteralIsAssigned, LiteralIsTrue, LiteralIsFalse
<1> QED
  BY <1>1, <1>4, <1>5, <1>9, <1>10, <1>11, <1>12
     DEF HasSameAssignmentValue, BothLiteralsAreAssigned

\* A total extension and its image agree on every variable before the one at
\* the position up to which the pairs are equal.
LEMMA AgreeBeforeStop ==
    ASSUME NEW lookup, NEW inverse, IsLiteralMap(inverse), IsLookup(lookup, inverse),
           NEW asg, NEW c \in 1 .. Len(lookup), PrefixEqual(asg, lookup, inverse, c),
           NEW total \in TotalAssignments, asg \subseteq total,
           NEW j \in 1 .. OrderIndex(lookup[c]) - 1
    PROVE  IsMinimalValue(Image(inverse, total), Order[j])
             <=> IsMinimalValue(total, Order[j])
<1>1. /\ lookup[c] \in Literal
      /\ OrderIndex(lookup[c]) \in 1 .. Len(Order)
      /\ Len(Order) \in Nat
  BY LookupFacts, OrderIndexFacts
<1>2. j \in DOMAIN Order /\ Order[j] \in Variables
  BY <1>1, OrderAssumption, LenProperties, ElementOfSeq
<1>3. Order[j] \in Literal /\ Variable(Order[j]) = Order[j]
  BY <1>2, VariablesAreLiterals
<1>4. OrderIndex(Order[j]) = j
  BY <1>2, <1>3, OrderIndexFacts
<1>5. CASE inverse[Order[j]] = Order[j]
  BY <1>3, <1>5, ImageFacts
<1>6. CASE inverse[Order[j]] # Order[j]
  <2>1. j < OrderIndex(lookup[c])
    BY <1>1
  <2>2. PICK k \in 1 .. c - 1 : lookup[k] = Order[j]
    BY <1>2, <1>4, <1>6, <2>1, EarlierInLookup
  <2>3. k \in 1 .. Len(lookup)
    BY LookupFacts
  <2>4. SameAt(asg, lookup, inverse, k)
    BY DEF PrefixEqual
  <2>5. SameAt(total, lookup, inverse, k)
    BY <2>3, <2>4, TotalFacts, SameAtMonotone
  <2> QED
    BY <1>3, <2>2, <2>3, <2>5, SameAtTotal, ImageFacts
<1> QED
  BY <1>5, <1>6

\* The value a literal is assigned is its value in every total extension.
LEMMA ValueInExtension ==
    ASSUME NEW asg, NEW total \in TotalAssignments, asg \subseteq total,
           NEW l \in Literal
    PROVE  /\ IsMinimalValue(asg, l) => IsMinimalValue(total, l)
           /\ IsMaximalValue(asg, l) => ~IsMinimalValue(total, l)
           /\ LiteralIsAssigned(asg, l) /\ ~IsMinimalValue(asg, l)
                => ~IsMinimalValue(total, l)
  BY TotalFacts DEF IsMinimalValue, IsMaximalValue, LiteralIsAssigned,
                    LiteralIsTrue, LiteralIsFalse

\* A reducer's image is smaller, an inactive status' image is larger, and a
\* forcing status' image is smaller whenever the pair gets different values.
LEMMA ComparesImage ==
    ASSUME NEW lookup, NEW inverse, IsLiteralMap(inverse), IsLookup(lookup, inverse),
           IsInvolution(inverse), NEW asg, NEW c, StopsAt(asg, lookup, inverse, c),
           NEW total \in TotalAssignments, asg \subseteq total
    PROVE  /\ StateAt(asg, lookup, inverse, c) = Reducer
                => LexLess(Image(inverse, total), total)
           /\ StateAt(asg, lookup, inverse, c) = Inactive
                => LexLess(total, Image(inverse, total))
           /\ /\ StateAt(asg, lookup, inverse, c) = ForceLexLeader
              /\ ~SameAt(total, lookup, inverse, c)
              => LexLess(Image(inverse, total), total)
<1> DEFINE e == lookup[c]
           m == inverse[e]
           i == OrderIndex(e)
           image == Image(inverse, total)
           found == StateAt(asg, lookup, inverse, c)
<1>0. SUFFICES ASSUME found # Active
               PROVE  /\ found = Reducer => LexLess(image, total)
                      /\ found = Inactive => LexLess(total, image)
                      /\ found = ForceLexLeader /\ ~SameAt(total, lookup, inverse, c)
                           => LexLess(image, total)
  BY DEF Active, Reducer, Inactive, ForceLexLeader
<1>1. c \in 1 .. Len(lookup)
  <2>1. ~IsLookupEnd(lookup, c)
    BY <1>0 DEF StateAt
  <2> QED
    BY <2>1, LookupFacts DEF IsLookupEnd, StopsAt
<1>2. e \in Variables /\ e \in Literal /\ m \in Literal
  BY <1>1, LookupFacts, InverseFacts
<1>t. total \subseteq Literal /\ Consistent(total) /\ Consistent(asg)
  BY TotalFacts DEF Consistent
<1>3. Minimal(lookup, inverse, c) = e /\ Maximal(lookup, inverse, c) = m
  BY <1>1, <1>t, ElementIsMinimal DEF Maximal
<1>4. i \in DOMAIN Order /\ Order[i] = e
  BY <1>2, VariablesAreLiterals, OrderIndexFacts
<1>5. ASSUME NEW j \in 1 .. i - 1
      PROVE  IsMinimalValue(image, Order[j]) <=> IsMinimalValue(total, Order[j])
  BY <1>1, AgreeBeforeStop DEF StopsAt
<1>6. IsMinimalValue(image, e) <=> IsMinimalValue(total, m)
  BY <1>2, ImageFacts
<1>7. /\ IsMinimalValue(total, m) /\ ~IsMinimalValue(total, e)
           => LexLess(image, total)
      /\ IsMinimalValue(total, e) /\ ~IsMinimalValue(total, m)
           => LexLess(total, image)
  BY <1>4, <1>5, <1>6 DEF LexLess
<1>8. SameAt(total, lookup, inverse, c)
        <=> (IsMinimalValue(total, e) <=> IsMinimalValue(total, m))
  BY <1>1, SameAtTotal
<1>9. CASE BothLiteralsAreAssigned(asg, e, m)
  <2>1. ~SameAt(asg, lookup, inverse, c)
    BY <1>1, LookupFacts DEF StopsAt
  <2>2. LiteralIsTrue(asg, e) <=> ~LiteralIsTrue(asg, m)
    BY <1>9, <2>1 DEF SameAt, HasSameAssignmentValue
  <2>3. IsMinimalValue(total, e) <=> ~IsMinimalValue(total, m)
    <3>1. /\ LiteralIsTrue(total, e) <=> LiteralIsTrue(asg, e)
          /\ LiteralIsTrue(total, m) <=> LiteralIsTrue(asg, m)
      BY <1>2, <1>9, <1>t, ValueMonotone DEF BothLiteralsAreAssigned
    <3>2. LiteralIsTrue(total, e) <=> ~LiteralIsTrue(total, m)
      BY <2>2, <3>1
    <3> QED
      BY <1>2, <3>2, TotalFacts
         DEF IsMinimalValue, LiteralIsTrue, LiteralIsFalse
  <2>4. found = IF IsMinimalValue(asg, e) THEN Inactive ELSE Reducer
    BY <1>0, <1>3, <1>9 DEF StateAt
  <2>5. IsMinimalValue(asg, e) <=> IsMinimalValue(total, e)
    BY <1>2, <1>9, ValueInExtension DEF BothLiteralsAreAssigned
  <2> QED
    BY <1>7, <2>3, <2>4, <2>5 DEF Inactive, Reducer, ForceLexLeader
<1>10. CASE ~BothLiteralsAreAssigned(asg, e, m)
  <2>1. ForcesOther(asg, e, m) /\ found = ForceLexLeader
    BY <1>0, <1>3, <1>10 DEF StateAt
  <2>2. IsMinimalValue(total, m) \/ ~IsMinimalValue(total, e)
    BY <1>2, <2>1, ValueInExtension DEF ForcesOther
  <2> QED
    BY <1>7, <1>8, <2>1, <2>2 DEF Inactive, Reducer, ForceLexLeader
<1> QED
  BY <1>9, <1>10

-----------------------------------------------------------------------------
\* The clauses of a status.

\* The false literal of a variable that is assigned.
LEMMA FalseLiteralFacts ==
    ASSUME NEW asg, asg \subseteq Literal, Consistent(asg),
           NEW l \in Literal, LiteralIsAssigned(asg, l)
    PROVE  /\ FalseLiteralOf(asg, Variable(l)) \in Literal
           /\ LiteralIsFalse(asg, FalseLiteralOf(asg, Variable(l)))
           /\ Variable(FalseLiteralOf(asg, Variable(l))) = Variable(l)
           /\ l \in asg => FalseLiteralOf(asg, Variable(l)) = Negated(l)
<1> DEFINE v == Variable(l)
           f == FalseLiteralOf(asg, v)
<1>1. v \in Literal /\ Negated(v) \in Literal /\ Variable(v) = v
      /\ Variable(Negated(v)) = v /\ Negated(Negated(v)) = v
      /\ (l = v \/ l = Negated(v))
  BY LiteralFacts, VariablesAreLiterals
<1>2. f = IF v \in asg THEN Negated(v) ELSE v
  BY DEF FalseLiteralOf, LiteralOf, LiteralIsTrue, Negated
<1>3. v \in asg \/ Negated(v) \in asg
  BY <1>1 DEF LiteralIsAssigned, LiteralIsTrue, LiteralIsFalse
<1>4. v \in asg => Negated(v) \notin asg
  BY DEF Consistent
<1> HIDE DEF v, f
<1>5. /\ f \in Literal
      /\ LiteralIsFalse(asg, f)
      /\ Variable(f) = v
      /\ l \in asg => f = Negated(l)
  BY <1>1, <1>2, <1>3, <1>4 DEF LiteralIsFalse
<1> QED
  BY <1>5 DEF v, f

\* The literals of a pair of the lookup order.
LEMMA PairFacts ==
    ASSUME NEW lookup, NEW inverse, IsLiteralMap(inverse), IsLookup(lookup, inverse),
           NEW k \in 1 .. Len(lookup)
    PROVE  /\ lookup[k] \in Variables
           /\ lookup[k] \in Literal
           /\ inverse[lookup[k]] \in Literal
           /\ {Minimal(lookup, inverse, k), Maximal(lookup, inverse, k)}
                = {lookup[k], inverse[lookup[k]]}
<1>1. lookup[k] \in Variables /\ lookup[k] \in Literal /\ inverse[lookup[k]] \in Literal
  BY LookupFacts, InverseFacts
<1>2. Minimal(lookup, inverse, k) \in {lookup[k], inverse[lookup[k]]}
  BY DEF Minimal, Leq
<1> QED
  BY <1>1, <1>2 DEF Maximal

\* A reducer stands at a pair both sides of which are assigned.
LEMMA ReducerPair ==
    ASSUME NEW lookup, NEW inverse, IsLiteralMap(inverse), IsLookup(lookup, inverse),
           NEW asg, NEW c, StopsAt(asg, lookup, inverse, c),
           StateAt(asg, lookup, inverse, c) = Reducer
    PROVE  /\ c \in 1 .. Len(lookup)
           /\ \A k \in 1 .. c :
                 BothLiteralsAreAssigned(asg, lookup[k], inverse[lookup[k]])
<1>1. c \in 1 .. Len(lookup)
  BY LookupFacts DEF StateAt, StopsAt, IsLookupEnd, Active, Reducer
<1>2. BothLiteralsAreAssigned(asg, Minimal(lookup, inverse, c), Maximal(lookup, inverse, c))
  BY DEF StateAt, Active, Reducer, ForceLexLeader
<1>3. BothLiteralsAreAssigned(asg, lookup[c], inverse[lookup[c]])
  BY <1>1, <1>2, PairFacts DEF BothLiteralsAreAssigned
<1>4. ASSUME NEW k \in 1 .. c - 1
      PROVE  BothLiteralsAreAssigned(asg, lookup[k], inverse[lookup[k]])
  BY DEF StopsAt, PrefixEqual, SameAt, HasSameAssignmentValue
<1>5. \A k \in 1 .. c : k \in 1 .. c - 1 \/ k = c
  BY <1>1, LookupFacts
<1> QED
  BY <1>1, <1>3, <1>4, <1>5

\* Whether a status is a reducer depends on the pairs up to its stop only.
LEMMA ReducerOfSubset ==
    ASSUME NEW lookup, NEW inverse, IsLiteralMap(inverse), IsLookup(lookup, inverse),
           NEW A, NEW B, A \subseteq B, B \subseteq Literal, Consistent(B),
           NEW c \in 1 .. Len(lookup),
           \A k \in 1 .. c : BothLiteralsAreAssigned(A, lookup[k], inverse[lookup[k]])
    PROVE  /\ StopsAt(A, lookup, inverse, c) <=> StopsAt(B, lookup, inverse, c)
           /\ StateAt(A, lookup, inverse, c) = StateAt(B, lookup, inverse, c)
<1>0. Len(lookup) \in Nat
  BY LookupFacts
<1>1. ASSUME NEW k \in 1 .. c
      PROVE  SameAt(A, lookup, inverse, k) <=> SameAt(B, lookup, inverse, k)
  <2>1. k \in 1 .. Len(lookup)
    BY <1>0
  <2> QED
    BY <2>1, SameAtMonotone
<1>2. \A k \in 1 .. c - 1 : k \in 1 .. c
  BY <1>0
<1>3. c \in 1 .. c
  BY <1>0
<1>4. StopsAt(A, lookup, inverse, c) <=> StopsAt(B, lookup, inverse, c)
  BY <1>0, <1>1, <1>2, <1>3 DEF StopsAt, PrefixEqual
<1> DEFINE x == Minimal(lookup, inverse, c)
           y == Maximal(lookup, inverse, c)
<1>5. x \in Literal /\ y \in Literal
  BY PairFacts
<1>6. LiteralIsAssigned(A, x) /\ LiteralIsAssigned(A, y)
  BY <1>3, PairFacts DEF BothLiteralsAreAssigned
<1>7. LiteralIsAssigned(B, x) /\ LiteralIsAssigned(B, y)
      /\ (IsMinimalValue(A, x) <=> IsMinimalValue(B, x))
  BY <1>5, <1>6, ValueMonotone DEF IsMinimalValue
<1> HIDE DEF x, y
<1>8. StateAt(A, lookup, inverse, c) = StateAt(B, lookup, inverse, c)
  BY <1>6, <1>7 DEF StateAt, BothLiteralsAreAssigned, x, y
<1> QED
  BY <1>4, <1>8

\* A reducer stays one while more literals are assigned.
LEMMA ReducerMonotone ==
    ASSUME NEW lookup, NEW inverse, IsLiteralMap(inverse), IsLookup(lookup, inverse),
           NEW A, NEW B, A \subseteq B, B \subseteq Literal, Consistent(B),
           NEW c, StopsAt(A, lookup, inverse, c),
           StateAt(A, lookup, inverse, c) = Reducer
    PROVE  StopsAt(B, lookup, inverse, c) /\ StateAt(B, lookup, inverse, c) = Reducer
  BY ReducerPair, ReducerOfSubset

\* Whether a status that is told of the assignment finds it to have no lex
\* leader above it.
IsReducer(A, lookup, inverse) ==
    \E c \in 1 .. Len(lookup) + 1 :
        /\ StopsAt(A, lookup, inverse, c)
        /\ StateAt(A, lookup, inverse, c) = Reducer

\* Nothing is assigned, so no pair is.
LEMMA EmptyIsNoReducer ==
    ASSUME NEW lookup, NEW inverse, IsLiteralMap(inverse), IsLookup(lookup, inverse)
    PROVE  ~IsReducer({}, lookup, inverse)
<1>1. SUFFICES ASSUME NEW c, StopsAt({}, lookup, inverse, c),
                      StateAt({}, lookup, inverse, c) = Reducer
               PROVE  FALSE
  BY DEF IsReducer
<1>2. c \in 1 .. c /\ BothLiteralsAreAssigned({}, lookup[c], inverse[lookup[c]])
  BY <1>1, ReducerPair, LookupFacts
<1> QED
  BY <1>2 DEF BothLiteralsAreAssigned, LiteralIsAssigned, LiteralIsTrue, LiteralIsFalse

\* A literal of a variable that the permutation leaves alone is in no pair, so
\* the status that is not told of it misses nothing.
LEMMA UnmovedKeepsReducer ==
    ASSUME NEW lookup, NEW inverse, IsLiteralMap(inverse), IsLookup(lookup, inverse),
           NEW l \in Literal, inverse[Variable(l)] = Variable(l),
           NEW A, NEW B, B = A \cup {l}, B \subseteq Literal, Consistent(B),
           IsReducer(B, lookup, inverse)
    PROVE  IsReducer(A, lookup, inverse)
<1>1. PICK c \in 1 .. Len(lookup) : /\ StopsAt(B, lookup, inverse, c)
                                    /\ StateAt(B, lookup, inverse, c) = Reducer
  BY ReducerPair DEF IsReducer
<1>2. \A k \in 1 .. c : BothLiteralsAreAssigned(B, lookup[k], inverse[lookup[k]])
  BY <1>1, ReducerPair
<1>3. ASSUME NEW k \in 1 .. c
      PROVE  BothLiteralsAreAssigned(A, lookup[k], inverse[lookup[k]])
  <2> DEFINE x == lookup[k]
             y == inverse[x]
             v == Variable(l)
  <2>1. k \in DOMAIN lookup /\ x \in Variables /\ x \in Literal /\ y \in Literal
    BY <1>2, LookupFacts, InverseFacts
  <2>2. inverse[x] # x
    BY <2>1 DEF IsLookup
  <2>3. v \in Literal /\ Negated(v) \in Literal /\ (l = v \/ l = Negated(v))
        /\ Variable(x) = x
    BY <2>1, VariablesAreLiterals, LiteralFacts
  <2>4. x # v /\ x # Negated(v)
    BY <2>2, <2>3, LiteralFacts
  <2>5. inverse[v] = v /\ inverse[Negated(v)] = Negated(v)
    BY <2>3, InverseFacts
  <2>6. y # v /\ y # Negated(v)
    BY <2>1, <2>3, <2>4, <2>5 DEF IsLiteralMap
  <2>7. \A z \in Literal : z # v /\ z # Negated(v) /\ LiteralIsAssigned(B, z)
                           => LiteralIsAssigned(A, z)
    BY <2>3, LiteralFacts DEF LiteralIsAssigned, LiteralIsTrue, LiteralIsFalse
  <2> QED
    BY <1>2, <2>1, <2>4, <2>6, <2>7 DEF BothLiteralsAreAssigned
<1>4. A \subseteq B
  OBVIOUS
<1>5. /\ StopsAt(A, lookup, inverse, c) <=> StopsAt(B, lookup, inverse, c)
      /\ StateAt(A, lookup, inverse, c) = StateAt(B, lookup, inverse, c)
  BY <1>3, <1>4, ReducerOfSubset
<1>6. c \in 1 .. Len(lookup) + 1
  BY LookupFacts
<1> QED
  BY <1>1, <1>5, <1>6 DEF IsReducer

\* A consistent assignment of every variable is total.
LEMMA EveryVariableAssigned ==
    ASSUME NEW A, A \subseteq Literal, Consistent(A),
           \A v \in Variables : LiteralIsAssigned(A, v)
    PROVE  A \in TotalAssignments
<1> DEFINE pos == {v \in Variables : v \in A}
           total == {LiteralOf(v, v \in pos) : v \in Variables}
<1>1. total \in TotalAssignments
  BY DEF TotalAssignments
<1>2. \A l \in Literal : l \in total <=> Negated(l) \notin total
  BY <1>1, TotalFacts
<1>3. \A v \in Variables : v \in A <=> v \in total
  <2>1. ASSUME NEW v \in Variables PROVE v \in total <=> v \in pos
    <3>1. \A w \in Variables : LiteralOf(w, w \in pos) = v => w = v /\ w \in pos
      BY DEF LiteralOf, Variables
    <3> QED
      BY <3>1 DEF LiteralOf
  <2> QED
    BY <2>1
<1> HIDE DEF pos, total
<1>4. \A v \in Variables : Negated(v) \in A <=> v \notin A
  BY DEF LiteralIsAssigned, LiteralIsTrue, LiteralIsFalse, Consistent
<1>5. \A l \in Literal : l \in A <=> l \in total
  BY <1>2, <1>3, <1>4, VariablesAreLiterals, LiteralFacts
<1>6. total \subseteq Literal
  BY <1>1, TotalFacts
<1> QED
  BY <1>1, <1>5, <1>6

LEMMA LexLessAsymmetric ==
    ASSUME NEW a, NEW b, LexLess(a, b), LexLess(b, a) PROVE FALSE
<1>1. PICK i \in DOMAIN Order :
          /\ \A k \in 1 .. i - 1 :
                IsMinimalValue(a, Order[k]) <=> IsMinimalValue(b, Order[k])
          /\ IsMinimalValue(a, Order[i]) /\ ~IsMinimalValue(b, Order[i])
  BY DEF LexLess
<1>2. PICK j \in DOMAIN Order :
          /\ \A k \in 1 .. j - 1 :
                IsMinimalValue(b, Order[k]) <=> IsMinimalValue(a, Order[k])
          /\ IsMinimalValue(b, Order[j]) /\ ~IsMinimalValue(a, Order[j])
  BY DEF LexLess
<1>3. i \in 1 .. Len(Order) /\ j \in 1 .. Len(Order) /\ Len(Order) \in Nat
  BY OrderIndexFacts
<1>4. i # j
  BY <1>1, <1>2
<1>5. i \in 1 .. j - 1 \/ j \in 1 .. i - 1
  BY <1>3, <1>4
<1> QED
  BY <1>1, <1>2, <1>5

\* A total assignment for which the status of an involution is no reducer is
\* no larger than its image.
LEMMA NoReducerIsMinimal ==
    ASSUME NEW lookup, NEW inverse, IsLiteralMap(inverse), IsLookup(lookup, inverse),
           IsInvolution(inverse), NEW total \in TotalAssignments,
           ~IsReducer(total, lookup, inverse)
    PROVE  ~LexLess(Image(inverse, total), total)
<1> DEFINE c == Advance(total, lookup, inverse, 1)
           image == Image(inverse, total)
<1>1. lookup \in Seq(Variables) /\ Len(lookup) \in Nat
  BY LookupFacts
<1>2. StopsAt(total, lookup, inverse, c)
  <2>1. 1 \in 1 .. Len(lookup) + 1 /\ PrefixEqual(total, lookup, inverse, 1)
    BY <1>1 DEF PrefixEqual
  <2> QED
    BY <1>1, <2>1, AdvanceStops
<1> HIDE DEF c
<1>3. c \in 1 .. Len(lookup) + 1
  BY <1>2 DEF StopsAt
<1>4. CASE c \in 1 .. Len(lookup)
  <2>1. Minimal(lookup, inverse, c) \in Literal /\ Maximal(lookup, inverse, c) \in Literal
    BY <1>4, PairFacts
  <2>2. \A l \in Literal : LiteralIsAssigned(total, l)
    BY TotalFacts DEF LiteralIsAssigned, LiteralIsTrue, LiteralIsFalse
  <2>3. ~IsLookupEnd(lookup, c)
    BY <1>1, <1>4 DEF IsLookupEnd
  <2>4. StateAt(total, lookup, inverse, c) \in {Inactive, Reducer}
    BY <2>1, <2>2, <2>3 DEF StateAt, BothLiteralsAreAssigned
  <2>5. StateAt(total, lookup, inverse, c) = Inactive
    BY <1>2, <1>3, <2>4 DEF IsReducer
  <2>6. LexLess(total, image)
    BY <1>2, <2>5, ComparesImage
  <2> QED
    BY <2>6, LexLessAsymmetric
<1>5. CASE c = Len(lookup) + 1
  <2>1. ASSUME NEW j \in DOMAIN Order
        PROVE  IsMinimalValue(image, Order[j]) <=> IsMinimalValue(total, Order[j])
    <3>1. Order[j] \in Variables /\ Order[j] \in Literal
      BY OrderAssumption, OrderIndexFacts, SeqFacts, VariablesAreLiterals
    <3>2. CASE inverse[Order[j]] = Order[j]
      BY <3>1, <3>2, ImageFacts
    <3>3. CASE inverse[Order[j]] # Order[j]
      <4>1. PICK k \in 1 .. Len(lookup) : lookup[k] = Order[j]
        BY <3>1, <3>3, LookupFacts DEF IsLookup
      <4>2. SameAt(total, lookup, inverse, k)
        <5>1. k \in 1 .. c - 1
          BY <1>1, <1>5
        <5> QED
          BY <1>2, <5>1 DEF StopsAt, PrefixEqual
      <4> QED
        BY <3>1, <4>1, <4>2, SameAtTotal, ImageFacts
    <3> QED
      BY <3>2, <3>3
  <2> QED
    BY <2>1 DEF LexLess
<1> QED
  BY <1>1, <1>3, <1>4, <1>5

\* The literals of pairs that are assigned are false in the clause of the
\* assignment.
LEMMA FalsePairsAreFalse ==
    ASSUME NEW lookup, NEW inverse, IsLiteralMap(inverse), IsLookup(lookup, inverse),
           NEW asg, asg \subseteq Literal, Consistent(asg),
           NEW last \in Int, last <= Len(lookup),
           \A k \in 1 .. last : BothLiteralsAreAssigned(asg, lookup[k], inverse[lookup[k]]),
           NEW l \in FalsePairs(asg, lookup, inverse, last)
    PROVE  l \in Literal /\ LiteralIsFalse(asg, l)
<1>1. PICK k \in 1 .. last : l \in {FalseLiteralOf(asg, Variable(lookup[k])),
                                    FalseLiteralOf(asg, Variable(inverse[lookup[k]]))}
  BY DEF FalsePairs
<1>2. k \in 1 .. Len(lookup)
  BY LookupFacts
<1>3. LiteralIsAssigned(asg, lookup[k]) /\ LiteralIsAssigned(asg, inverse[lookup[k]])
  BY <1>1 DEF BothLiteralsAreAssigned
<1> QED
  BY <1>1, <1>2, <1>3, PairFacts, FalseLiteralFacts

\* Every literal of the clause of a reducer is false.
LEMMA EsbpClauseIsFalse ==
    ASSUME NEW lookup, NEW inverse, IsLiteralMap(inverse), IsLookup(lookup, inverse),
           NEW asg, asg \subseteq Literal, Consistent(asg),
           NEW c, StopsAt(asg, lookup, inverse, c),
           StateAt(asg, lookup, inverse, c) = Reducer,
           NEW r \in asg,
           NEW l \in EsbpClause(asg, lookup, inverse, c, Variable(r))
    PROVE  l \in Literal /\ LiteralIsFalse(asg, l)
<1>1. CASE l = FalseLiteralOf(asg, Variable(r))
  <2>1. LiteralIsAssigned(asg, r)
    BY DEF LiteralIsAssigned, LiteralIsTrue
  <2> QED
    BY <1>1, <2>1, FalseLiteralFacts
<1>2. CASE l \in FalsePairs(asg, lookup, inverse, c)
  <2>1. c \in Int /\ c <= Len(lookup)
    BY ReducerPair, LookupFacts
  <2> QED
    BY <1>2, <2>1, ReducerPair, FalsePairsAreFalse
<1> QED
  BY <1>1, <1>2 DEF EsbpClause

\* The clause of a reducer has two literals at least, unless the status inverts
\* the first literal of its order, whose unit clause is false then.
LEMMA EsbpClauseHasTwo ==
    ASSUME NEW lookup, NEW inverse, IsLiteralMap(inverse), IsLookup(lookup, inverse),
           NEW asg, asg \subseteq Literal, Consistent(asg),
           NEW c, StopsAt(asg, lookup, inverse, c),
           StateAt(asg, lookup, inverse, c) = Reducer,
           NEW r \in asg
    PROVE  \/ \E l, m \in EsbpClause(asg, lookup, inverse, c, Variable(r)) : l # m
           \/ \E i \in DOMAIN UnitClauses(lookup, inverse, 1) :
                 UnitClauses(lookup, inverse, 1)[i] = {Negated(r)}
<1> DEFINE x == lookup[c]
           y == inverse[x]
           F(l) == FalseLiteralOf(asg, Variable(l))
           clause == EsbpClause(asg, lookup, inverse, c, Variable(r))
<1>1. /\ c \in 1 .. Len(lookup) /\ Len(lookup) \in Nat /\ c \in 1 .. c /\ 1 \in 1 .. c
      /\ \A k \in 1 .. c : k \in 1 .. Len(lookup)
                            /\ BothLiteralsAreAssigned(asg, lookup[k], inverse[lookup[k]])
  BY ReducerPair, LookupFacts
<1>2. /\ x \in Variables /\ x \in Literal /\ y \in Literal /\ y # x
      /\ LiteralIsAssigned(asg, x) /\ LiteralIsAssigned(asg, y)
      /\ r \in Literal /\ LiteralIsAssigned(asg, r)
  <2>1. y # x
    BY <1>1, LookupFacts DEF IsLookup
  <2> QED
    BY <1>1, <2>1, PairFacts
       DEF BothLiteralsAreAssigned, LiteralIsAssigned, LiteralIsTrue
<1>3. /\ \A k \in 1 .. c : F(lookup[k]) \in clause /\ F(inverse[lookup[k]]) \in clause
      /\ F(r) \in clause
  BY DEF EsbpClause, FalsePairs
<1>4. /\ \A k \in 1 .. c : Variable(F(lookup[k])) = lookup[k]
      /\ Variable(F(y)) = Variable(y) /\ Variable(F(r)) = Variable(r)
  <2>1. ASSUME NEW k \in 1 .. c PROVE Variable(F(lookup[k])) = lookup[k]
    <3>1. lookup[k] \in Variables /\ lookup[k] \in Literal /\ Variable(lookup[k]) = lookup[k]
      BY <1>1, PairFacts, VariablesAreLiterals
    <3> QED
      BY <1>1, <3>1, FalseLiteralFacts DEF BothLiteralsAreAssigned
  <2> QED
    BY <1>2, <2>1, FalseLiteralFacts
<1> HIDE DEF clause, F
<1>5. CASE Variable(y) # x
  BY <1>1, <1>3, <1>4, <1>5 DEF clause
<1>6. CASE Variable(r) # x
  BY <1>1, <1>3, <1>4, <1>6 DEF clause
<1>7. CASE c # 1
  <2>1. lookup[1] # lookup[c]
    <3>1. 1 < c /\ 1 \in DOMAIN lookup /\ c \in DOMAIN lookup
      BY <1>1, <1>7, LookupFacts
    <3>2. OrderIndex(lookup[1]) < OrderIndex(lookup[c])
      BY <3>1 DEF IsLookup
    <3>3. OrderIndex(lookup[c]) \in Nat
      BY <1>2, OrderIndexFacts
    <3> QED
      BY <3>2, <3>3
  <2> QED
    BY <1>1, <1>3, <1>4, <2>1 DEF clause
<1>8. CASE Variable(y) = x /\ Variable(r) = x /\ c = 1
  <2>1. /\ y = Negated(x) /\ x = Negated(y) /\ Variable(x) = x /\ (r = x \/ r = Negated(x))
        /\ Negated(Negated(x)) = x
    BY <1>2, <1>8, LiteralFacts, VariablesAreLiterals
  <2>2. Minimal(lookup, inverse, c) = x
    <3>1. OrderIndex(y) = OrderIndex(x) /\ OrderIndex(x) \in Nat
      BY <1>2, <1>8, <2>1, OrderIndexFacts DEF OrderIndex
    <3> QED
      BY <3>1 DEF Minimal, Leq
  <2>3. ~IsMinimalValue(asg, x)
    BY <2>2 DEF StateAt, Active, Inactive, Reducer, ForceLexLeader
  <2>4. Negated(r) = LiteralOf(x, ValueMode = "TRUE_LESS_FALSE")
    BY <2>1, <2>3 DEF IsMinimalValue, LiteralIsTrue, LiteralIsFalse, LiteralOf, Negated
  <2>5. UnitClauses(lookup, inverse, 1) = << {Negated(r)} >>
    <3>1. ~IsLookupEnd(lookup, 1) /\ lookup[1] = Negated(inverse[lookup[1]])
      BY <1>1, <1>8, <2>1 DEF IsLookupEnd
    <3> QED
      BY <1>8, <2>1, <2>4, <3>1 DEF UnitClauses
  <2>6. 1 \in DOMAIN << {Negated(r)} >>
    OBVIOUS
  <2> QED
    BY <2>5, <2>6
<1> QED
  BY <1>5, <1>6, <1>7, <1>8

\* A total assignment that makes the clause of a reducer false is mapped to a
\* smaller one.
LEMMA EsbpClauseKeepsLeaders ==
    ASSUME NEW lookup, NEW inverse, IsLiteralMap(inverse), IsLookup(lookup, inverse),
           IsInvolution(inverse),
           NEW asg, asg \subseteq Literal, Consistent(asg),
           NEW c, StopsAt(asg, lookup, inverse, c),
           StateAt(asg, lookup, inverse, c) = Reducer,
           NEW r \in asg, NEW total \in TotalAssignments,
           EsbpClause(asg, lookup, inverse, c, Variable(r)) \cap total = {}
    PROVE  LexLess(Image(inverse, total), total)
<1> DEFINE clause == EsbpClause(asg, lookup, inverse, c, Variable(r))
           B == {Negated(l) : l \in clause}
<1>0. c \in 1 .. Len(lookup) /\ Len(lookup) \in Nat
  BY ReducerPair, LookupFacts
<1>1. \A l \in clause : l \in Literal /\ LiteralIsFalse(asg, l)
  BY EsbpClauseIsFalse
<1>2. B \subseteq asg
  BY <1>1 DEF LiteralIsFalse
<1>3. B \subseteq total
  BY <1>1, TotalFacts
<1>4. ASSUME NEW k \in 1 .. c
      PROVE  BothLiteralsAreAssigned(B, lookup[k], inverse[lookup[k]])
  <2>1. k \in 1 .. Len(lookup)
    BY <1>0
  <2>2. lookup[k] \in Literal /\ inverse[lookup[k]] \in Literal
    BY <2>1, PairFacts
  <2>3. LiteralIsAssigned(asg, lookup[k]) /\ LiteralIsAssigned(asg, inverse[lookup[k]])
    BY ReducerPair DEF BothLiteralsAreAssigned
  <2>4. /\ FalseLiteralOf(asg, Variable(lookup[k])) \in clause
        /\ FalseLiteralOf(asg, Variable(inverse[lookup[k]])) \in clause
    BY DEF EsbpClause, FalsePairs
  <2>5. ASSUME NEW x \in Literal, LiteralIsAssigned(asg, x),
               FalseLiteralOf(asg, Variable(x)) \in clause
        PROVE  LiteralIsAssigned(B, x)
    <3> DEFINE f == FalseLiteralOf(asg, Variable(x))
    <3>1. f \in Literal /\ Variable(f) = Variable(x)
      BY <2>5, FalseLiteralFacts
    <3>2. Negated(f) \in B
      BY <2>5
    <3>3. Negated(f) = x \/ Negated(f) = Negated(x)
      BY <3>1, LiteralFacts
    <3> QED
      BY <3>2, <3>3 DEF LiteralIsAssigned, LiteralIsTrue, LiteralIsFalse
  <2> HIDE DEF B, clause
  <2> QED
    BY <2>2, <2>3, <2>4, <2>5 DEF BothLiteralsAreAssigned
<1> HIDE DEF B, clause
<1>5. StopsAt(B, lookup, inverse, c) /\ StateAt(B, lookup, inverse, c) = Reducer
  BY <1>0, <1>2, <1>4, ReducerOfSubset
<1> QED
  BY <1>3, <1>5, ComparesImage

\* The literal that the forcing clause asserts is unassigned, and the other
\* literals of the clause are false.
LEMMA ForcingClauseIsUnit ==
    ASSUME NEW lookup, NEW inverse, IsLiteralMap(inverse), IsLookup(lookup, inverse),
           NEW asg, asg \subseteq Literal, Consistent(asg),
           NEW c, StopsAt(asg, lookup, inverse, c),
           StateAt(asg, lookup, inverse, c) = ForceLexLeader,
           NEW r \in asg
    PROVE  LET clause == ForcingClause(asg, lookup, inverse, c, Variable(r))
               forced == ForcedLiteral(asg, lookup, inverse, c)
           IN  /\ forced \in clause /\ forced \in Literal
               /\ ~LiteralIsAssigned(asg, forced)
               /\ \A m \in clause \ {forced} : m \in Literal /\ LiteralIsFalse(asg, m)
<1> DEFINE x == lookup[c]
           y == inverse[x]
           u == Undef(asg, lookup, inverse, c)
           a == Affected(asg, lookup, inverse, c)
           forced == ForcedLiteral(asg, lookup, inverse, c)
<1>1. c \in 1 .. Len(lookup) /\ Len(lookup) \in Nat
  BY LookupFacts DEF StateAt, StopsAt, IsLookupEnd, Active, ForceLexLeader
<1>2. x \in Literal /\ y \in Literal
  BY <1>1, PairFacts
<1>3. /\ LiteralIsAssigned(asg, x) \/ LiteralIsAssigned(asg, y)
      /\ ~(LiteralIsAssigned(asg, x) /\ LiteralIsAssigned(asg, y))
  <2> DEFINE i == Minimal(lookup, inverse, c)
             j == Maximal(lookup, inverse, c)
  <2>1. {i, j} = {x, y}
    BY <1>1, PairFacts
  <2>2. ~BothLiteralsAreAssigned(asg, i, j) /\ ForcesOther(asg, i, j)
    BY DEF StateAt, Active, Inactive, Reducer, ForceLexLeader
  <2>3. LiteralIsAssigned(asg, i) \/ LiteralIsAssigned(asg, j)
    BY <2>2 DEF ForcesOther, IsMinimalValue, IsMaximalValue, LiteralIsAssigned
  <2> HIDE DEF i, j, x, y
  <2> QED
    BY <2>1, <2>2, <2>3 DEF BothLiteralsAreAssigned
<1>4. /\ u \in Literal /\ ~LiteralIsAssigned(asg, u)
      /\ a \in Literal /\ LiteralIsAssigned(asg, a)
  BY <1>2, <1>3 DEF Undef, Affected
<1>5. forced \in Literal /\ Variable(forced) = Variable(u)
  <2>1. Variable(u) \in Variables
    BY <1>4, LiteralFacts
  <2>2. forced = Variable(u) \/ forced = Negated(Variable(u))
    BY DEF ForcedLiteral, LiteralOf, Negated
  <2> QED
    BY <2>1, <2>2, LiteralFacts, VariablesAreLiterals
<1>6. ~LiteralIsAssigned(asg, forced)
  <2>1. forced = u \/ forced = Negated(u)
    BY <1>4, <1>5, LiteralFacts
  <2> QED
    BY <1>4, <2>1, LiteralFacts DEF LiteralIsAssigned, LiteralIsTrue, LiteralIsFalse
<1>7. ASSUME NEW m \in ForcingClause(asg, lookup, inverse, c, Variable(r)), m # forced
      PROVE  m \in Literal /\ LiteralIsFalse(asg, m)
  <2>1. CASE m = FalseLiteralOf(asg, Variable(r))
    <3>1. LiteralIsAssigned(asg, r)
      BY DEF LiteralIsAssigned, LiteralIsTrue
    <3> QED
      BY <2>1, <3>1, FalseLiteralFacts
  <2>2. CASE m = FalseLiteralOf(asg, Variable(a))
    BY <1>4, <2>2, FalseLiteralFacts
  <2>3. CASE m \in FalsePairs(asg, lookup, inverse, c - 1)
    <3>1. c - 1 \in Int /\ c - 1 <= Len(lookup)
      BY <1>1
    <3>2. \A k \in 1 .. c - 1 : BothLiteralsAreAssigned(asg, lookup[k], inverse[lookup[k]])
      BY DEF StopsAt, PrefixEqual, SameAt, HasSameAssignmentValue
    <3> QED
      BY <2>3, <3>1, <3>2, FalsePairsAreFalse
  <2> QED
    BY <1>7, <2>1, <2>2, <2>3 DEF ForcingClause
<1>8. forced \in ForcingClause(asg, lookup, inverse, c, Variable(r))
  BY DEF ForcingClause
<1> QED
  BY <1>5, <1>6, <1>7, <1>8

\* The unit clause of a status that inverts the first literal of its order.
LEMMA UnitClauseFacts ==
    ASSUME NEW lookup, NEW inverse, IsLiteralMap(inverse), IsLookup(lookup, inverse),
           NEW i \in DOMAIN UnitClauses(lookup, inverse, 1)
    PROVE  /\ 1 \in 1 .. Len(lookup)
           /\ lookup[1] \in Variables /\ Variable(lookup[1]) = lookup[1]
           /\ lookup[1] \in Literal /\ Negated(lookup[1]) \in Literal
           /\ inverse[lookup[1]] = Negated(lookup[1])
           /\ UnitClauses(lookup, inverse, 1)[i]
                = {LiteralOf(lookup[1], ValueMode = "TRUE_LESS_FALSE")}
<1> DEFINE v == lookup[1]
           f == LiteralOf(v, ValueMode = "TRUE_LESS_FALSE")
<1>1. /\ ~IsLookupEnd(lookup, 1)
      /\ v = Negated(inverse[v])
      /\ UnitClauses(lookup, inverse, 1)[i] = {f}
  <2>1. CASE IsLookupEnd(lookup, 1) \/ v # Negated(inverse[v])
    <3>1. UnitClauses(lookup, inverse, 1) = << >>
      BY <2>1 DEF UnitClauses
    <3> QED
      BY <3>1
  <2>2. CASE ~IsLookupEnd(lookup, 1) /\ v = Negated(inverse[v])
    <3>1. LiteralOf(Variable(v), ValueMode = "TRUE_LESS_FALSE") = f
      <4>1. 1 \in 1 .. Len(lookup)
        BY <2>2, LookupFacts DEF IsLookupEnd
      <4>2. Variable(v) = v
        BY <4>1, PairFacts, VariablesAreLiterals
      <4> QED
        BY <4>2
    <3>2. UnitClauses(lookup, inverse, 1) = << {f} >>
      BY <2>2, <3>1 DEF UnitClauses
    <3>3. i = 1
      BY <3>2
    <3> QED
      BY <2>2, <3>2, <3>3
  <2> QED
    BY <2>1, <2>2
<1>2. 1 \in 1 .. Len(lookup) /\ Len(lookup) \in Nat
  BY <1>1, LookupFacts DEF IsLookupEnd
<1>3. v \in Variables /\ v \in Literal /\ Variable(v) = v /\ Negated(v) \in Literal
      /\ inverse[v] = Negated(v)
  BY <1>1, <1>2, PairFacts, VariablesAreLiterals, LiteralFacts
<1> QED
  BY <1>1, <1>2, <1>3

\* A total assignment that makes the unit clause of a status false is mapped
\* to a smaller one.
LEMMA UnitClauseKeepsLeaders ==
    ASSUME NEW lookup, NEW inverse, IsLiteralMap(inverse), IsLookup(lookup, inverse),
           NEW i \in DOMAIN UnitClauses(lookup, inverse, 1)
    PROVE  /\ UnitClauses(lookup, inverse, 1)[i] \subseteq Literal
           /\ \A total \in TotalAssignments :
                UnitClauses(lookup, inverse, 1)[i] \cap total = {}
                => LexLess(Image(inverse, total), total)
<1> DEFINE v == lookup[1]
           f == LiteralOf(v, ValueMode = "TRUE_LESS_FALSE")
<1>1. 1 \in 1 .. Len(lookup) /\ UnitClauses(lookup, inverse, 1)[i] = {f}
      /\ v \in Variables /\ v \in Literal /\ Variable(v) = v /\ Negated(v) \in Literal
      /\ inverse[v] = Negated(v)
  BY UnitClauseFacts
<1>2. f = v \/ f = Negated(v)
  BY DEF LiteralOf, Negated
<1>3. ASSUME NEW total \in TotalAssignments, f \notin total PROVE LexLess(Image(inverse, total), total)
  <2>1. v \in total <=> Negated(v) \notin total
    BY <1>1, TotalFacts
  <2>2. ~IsMinimalValue(total, v) /\ IsMinimalValue(total, Negated(v))
    BY <1>1, <1>3, <2>1, LiteralFacts
       DEF LiteralOf, Negated, IsMinimalValue, LiteralIsTrue, LiteralIsFalse
  <2>3. IsMinimalValue(Image(inverse, total), v)
    BY <1>1, <2>2, ImageFacts
  <2>4. OrderIndex(v) \in DOMAIN Order /\ Order[OrderIndex(v)] = v
    BY <1>1, OrderIndexFacts
  <2>5. PrefixEqual({}, lookup, inverse, 1)
    BY DEF PrefixEqual
  <2>6. \A j \in 1 .. OrderIndex(v) - 1 :
            IsMinimalValue(Image(inverse, total), Order[j])
              <=> IsMinimalValue(total, Order[j])
    BY <1>1, <2>5, AgreeBeforeStop
  <2> QED
    BY <2>2, <2>3, <2>4, <2>6 DEF LexLess
<1> QED
  BY <1>1, <1>2, <1>3

=============================================================================
