---------------------------- MODULE StatusRules ----------------------------
(***************************************************************************)
(* What one CosyStatus computes (src/CosyStatus.cc), as operators on the   *)
(* assignment asg, the lookup order of the permutation, its inverse        *)
(* function and the lookup index.  Positions are counted from 1: the value *)
(* of _lookup_index is index - 1, and index = Len(lookup) + 1 is the end.  *)
(*                                                                         *)
(* Position k is the pair of literals lookup[k] and inverse[lookup[k]]:    *)
(* the value of a literal, and the value it has in the image of the        *)
(* assignment under the permutation.                                       *)
(*                                                                         *)
(* The order a lex leader is defined by is that of src/Order.cc.  Order    *)
(* lists every variable once, as the positive literals that Order::add     *)
(* receives, and ValueMode says which truth value is the smaller one.      *)
(***************************************************************************)
EXTENDS Literals, SequencesExt

CONSTANTS Order,      \* the variables, from the most significant one
          ValueMode   \* "TRUE_LESS_FALSE" or "FALSE_LESS_TRUE"

ASSUME OrderAssumption ==
    /\ Order \in Seq(Variables)
    /\ \A v \in Variables : \E i \in DOMAIN Order : Order[i] = v
    /\ \A i, j \in DOMAIN Order : Order[i] = Order[j] => i = j

ASSUME ValueModeAssumption ==
    ValueMode \in {"TRUE_LESS_FALSE", "FALSE_LESS_TRUE"}

\* _indexes: a literal and its negation share the position of their variable.
OrderIndex(l) == CHOOSE i \in DOMAIN Order : Order[i] = Variable(l)

\* Mutant: the literal whose variable comes last.
LeqReversed(a, b) == IF OrderIndex(a) >= OrderIndex(b) THEN a ELSE b

\* The literal whose variable comes first; the first argument when both are
\* literals of one variable.
Leq(a, b) == IF OrderIndex(a) <= OrderIndex(b) THEN a ELSE b

\* _minimal and _maximal of the constructor are read through ValueMode.
IsMinimalValue(asg, l) ==
    IF ValueMode = "TRUE_LESS_FALSE" THEN LiteralIsTrue(asg, l)
                                     ELSE LiteralIsFalse(asg, l)

IsMaximalValue(asg, l) ==
    IF ValueMode = "TRUE_LESS_FALSE" THEN LiteralIsFalse(asg, l)
                                     ELSE LiteralIsTrue(asg, l)

-----------------------------------------------------------------------------
\* What the library is for, stated without its cursors and clauses: of the
\* assignments that the symmetries map to one another, only the smallest in
\* the lexicographic order (the lex leader) has to be visited.  A total
\* assignment is a set with one literal of each variable.

\* The image of a total assignment under a permutation: a literal is true in
\* it when the literal the permutation takes it from is true.
Image(inverse, total) == {l \in Literal : inverse[l] \in total}

\* Total assignment a is smaller than b: at the first variable on which they
\* differ a has the minimal value.
LexLess(a, b) ==
    \E i \in DOMAIN Order :
        /\ \A j \in 1 .. i - 1 :
              IsMinimalValue(a, Order[j]) <=> IsMinimalValue(b, Order[j])
        /\ IsMinimalValue(a, Order[i])
        /\ ~IsMinimalValue(b, Order[i])

\* What the permutations of a set generate from a total assignment.
Orbit(inverses, total) ==
    LET generated[S \in SUBSET SUBSET Literal] ==
            LET images == {Image(g, a) : g \in inverses, a \in S}
            IN  IF images \subseteq S THEN S ELSE generated[S \cup images]
    IN  generated[{total}]

IsLexLeader(inverses, total) ==
    \A a \in Orbit(inverses, total) : ~LexLess(a, total)

-----------------------------------------------------------------------------
Inactive       == "INACTIVE"
Active         == "ACTIVE"
Reducer        == "REDUCER"
ForceLexLeader == "FORCE_LEX_LEADER"

CosyState == {Inactive, Active, Reducer, ForceLexLeader}

\* Group::isPermutationSpurious lets only permutations through that commute
\* with negation.
IsLiteralMap(inverse) ==
    /\ inverse \in [Literal -> Literal]
    /\ \A l, m \in Literal : inverse[l] = inverse[m] => l = m
    /\ \A l \in Literal : inverse[Negated(l)] = Negated(inverse[l])

\* The permutation is its own inverse.
IsInvolution(inverse) == \A l \in Literal : inverse[inverse[l]] = l

\* CosyManager::defineOrder adds the literals of the order to the statuses
\* that watch their variable, in the order's order.
IsLookup(lookup, inverse) ==
    /\ lookup \in Seq(Variables)
    /\ \A v \in Variables : inverse[v] # v <=>
            \E i \in DOMAIN lookup : lookup[i] = v
    /\ \A i, j \in DOMAIN lookup :
            i < j => OrderIndex(lookup[i]) < OrderIndex(lookup[j])

IsLookupEnd(lookup, index) == index > Len(lookup)

SameAt(asg, lookup, inverse, k) ==
    HasSameAssignmentValue(asg, lookup[k], inverse[lookup[k]])

\* The loop of updateNotify: the first position from index on whose pair is
\* not assigned the same value, or the end.
Advance(asg, lookup, inverse, index) ==
    Min({k \in index .. Len(lookup) + 1 :
            IsLookupEnd(lookup, k) \/ ~SameAt(asg, lookup, inverse, k)})

\* The literals of the pair at index, in the order of their variables.
Minimal(lookup, inverse, index) == Leq(lookup[index], inverse[lookup[index]])

Maximal(lookup, inverse, index) ==
    IF Minimal(lookup, inverse, index) = lookup[index]
    THEN inverse[lookup[index]] ELSE lookup[index]

\* One literal of the pair has a value that leaves a lex leader only one value
\* for the other: "T < F : U <- T or F -> U".
ForcesOther(asg, minimal, maximal) ==
    \/ ~LiteralIsAssigned(asg, minimal) /\ IsMinimalValue(asg, maximal)
    \/ ~LiteralIsAssigned(asg, maximal) /\ IsMaximalValue(asg, minimal)

\* Mutant: the roles of the two assigned cases are exchanged.
StateAtExchanged(asg, lookup, inverse, index) ==
    IF IsLookupEnd(lookup, index) THEN Active
    ELSE LET minimal == Minimal(lookup, inverse, index)
             maximal == Maximal(lookup, inverse, index)
         IN  IF BothLiteralsAreAssigned(asg, minimal, maximal)
             THEN IF IsMinimalValue(asg, minimal) THEN Reducer ELSE Inactive
             ELSE IF ForcesOther(asg, minimal, maximal) THEN ForceLexLeader
                                                        ELSE Active

\* updateState.
StateAt(asg, lookup, inverse, index) ==
    IF IsLookupEnd(lookup, index) THEN Active
    ELSE LET minimal == Minimal(lookup, inverse, index)
             maximal == Maximal(lookup, inverse, index)
         IN  IF BothLiteralsAreAssigned(asg, minimal, maximal)
             THEN IF IsMinimalValue(asg, minimal) THEN Inactive ELSE Reducer
             ELSE IF ForcesOther(asg, minimal, maximal) THEN ForceLexLeader
                                                        ELSE Active

-----------------------------------------------------------------------------
\* The clauses a status generates; a clause is the set of its literals.

\* The false literals of both sides of the positions up to last.
FalsePairs(asg, lookup, inverse, last) ==
    UNION {{FalseLiteralOf(asg, Variable(lookup[k])),
            FalseLiteralOf(asg, Variable(inverse[lookup[k]]))} :
           k \in 1 .. last}

\* Mutant: the pairs before the one that decides are left out.
EsbpClauseOfOnePair(asg, lookup, inverse, index, reason) ==
    {FalseLiteralOf(asg, reason),
     FalseLiteralOf(asg, Variable(lookup[index])),
     FalseLiteralOf(asg, Variable(inverse[lookup[index]]))}

\* generateESBP.
EsbpClause(asg, lookup, inverse, index, reason) ==
    {FalseLiteralOf(asg, reason)} \cup FalsePairs(asg, lookup, inverse, index)

\* The unassigned side and the assigned side of the pair at index, as
\* generateForceLexLeaderESBP picks them.
Undef(asg, lookup, inverse, index) ==
    IF LiteralIsAssigned(asg, lookup[index]) THEN inverse[lookup[index]]
                                             ELSE lookup[index]

Affected(asg, lookup, inverse, index) ==
    IF LiteralIsAssigned(asg, inverse[lookup[index]])
    THEN inverse[lookup[index]] ELSE lookup[index]

\* The literal the forcing clause asserts.
ForcedLiteral(asg, lookup, inverse, index) ==
    LiteralOf(Variable(Undef(asg, lookup, inverse, index)),
              LiteralIsTrue(asg, Affected(asg, lookup, inverse, index)))

\* generateForceLexLeaderESBP.
ForcingClause(asg, lookup, inverse, index, reason) ==
    {ForcedLiteral(asg, lookup, inverse, index),
     FalseLiteralOf(asg, reason),
     FalseLiteralOf(asg, Variable(Affected(asg, lookup, inverse, index)))}
    \cup FalsePairs(asg, lookup, inverse, index - 1)

\* generateUnitClauseOnInverting: the clauses (at most one) of the status.
UnitClauses(lookup, inverse, index) ==
    IF IsLookupEnd(lookup, index)
       \/ lookup[index] # Negated(inverse[lookup[index]])
    THEN << >>
    ELSE << {LiteralOf(Variable(lookup[index]),
                       ValueMode = "TRUE_LESS_FALSE")} >>

-----------------------------------------------------------------------------
\* What holds of a status between calls: the assignment, the literals it was
\* made of, the cursor and the undo stack.

LookupInfo(lookup) == [variable : Range(lookup), backIndex : 1 .. Len(lookup) + 1]

IsCursor(lookup, index, infos) ==
    /\ index \in 1 .. Len(lookup) + 1
    /\ infos \in Seq(LookupInfo(lookup))

\* The assignment is consistent, is the set of the literals notified, and
\* notified names a variable once.
IsHistory(asg, notified) ==
    /\ asg \in SUBSET Literal
    /\ Consistent(asg)
    /\ notified \in Seq(Literal)
    /\ \A l \in Literal : l \in asg <=> \E i \in DOMAIN notified : notified[i] = l
    /\ \A i, j \in DOMAIN notified :
           Variable(notified[i]) = Variable(notified[j]) => i = j

\* What was assigned when the i-th literal was notified.
AssignedBy(notified, i) == {notified[j] : j \in 1 .. i}

\* The pairs before the index are assigned and have the same value.
PrefixEqual(asg, lookup, inverse, index) ==
    \A k \in 1 .. index - 1 : SameAt(asg, lookup, inverse, k)

\* The position the undo stack leaves the cursor at once entry k + 1 and
\* everything above it is popped.
IndexAfter(index, infos, k) ==
    IF k = Len(infos) THEN index ELSE infos[k + 1].backIndex

\* Entry k was pushed when the i-th of the literals still assigned was notified.
PushedAt(notified, infos, k, i) == Variable(notified[i]) = infos[k].variable

\* Each entry of the undo stack belongs to a literal that is still assigned,
\* entries are in the order of their literals, and the pairs the cursor had
\* passed once the entry was pushed are equal on what was assigned by then.
UndoMatches(notified, lookup, inverse, index, infos) ==
    /\ IndexAfter(index, infos, 0) = 1
    /\ \A k \in DOMAIN infos :
          /\ infos[k].backIndex < IndexAfter(index, infos, k)
          /\ \E i \in DOMAIN notified :
                /\ PushedAt(notified, infos, k, i)
                /\ PrefixEqual(AssignedBy(notified, i), lookup, inverse,
                               IndexAfter(index, infos, k))
    /\ \A k, m \in DOMAIN infos, i, j \in DOMAIN notified :
          k < m /\ PushedAt(notified, infos, k, i) /\ PushedAt(notified, infos, m, j)
          => i < j

=============================================================================
