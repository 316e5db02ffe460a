------------------------------ MODULE Literals ------------------------------
(***************************************************************************)
(* Literals and partial assignments: include/cosy/Literal.h and            *)
(* include/cosy/Assignment.h.                                              *)
(*                                                                         *)
(* A literal is its signed value: the variable x of the code (counted from *)
(* 0) is the variable x + 1 here, so that the signed literals are x and    *)
(* -x.  The index encoding (2x for x, 2x + 1 for its negation) is a        *)
(* bijection of the signed one and no property depends on it.  An          *)
(* assignment is the set of the literals whose bit is set in the bitset of *)
(* the class Assignment.                                                   *)
(***************************************************************************)
EXTENDS Integers

CONSTANT NumVars      \* the number of variables of the CNF problem

ASSUME NumVarsAssumption == NumVars \in Nat

Variables == 1 .. NumVars

\* kNoBooleanVariable, the cause of the clauses nobody has to ask for.
NoVariable == 0

Literal == {l \in -NumVars .. NumVars : l # 0}

Negated(l) == -l

Variable(l) == IF l > 0 THEN l ELSE -l

LiteralOf(v, isPositive) == IF isPositive THEN v ELSE -v

-----------------------------------------------------------------------------
\* Reading an assignment.

LiteralIsTrue(asg, l) == l \in asg

LiteralIsFalse(asg, l) == Negated(l) \in asg

LiteralIsAssigned(asg, l) == LiteralIsTrue(asg, l) \/ LiteralIsFalse(asg, l)

BothLiteralsAreAssigned(asg, x, y) ==
    LiteralIsAssigned(asg, x) /\ LiteralIsAssigned(asg, y)

HasSameAssignmentValue(asg, x, y) ==
    /\ BothLiteralsAreAssigned(asg, x, y)
    /\ LiteralIsTrue(asg, x) <=> LiteralIsTrue(asg, y)

\* The literal of variable v that is false: the positive one unless its bit
\* is set.
FalseLiteralOf(asg, v) == LiteralOf(v, ~LiteralIsTrue(asg, v))

-----------------------------------------------------------------------------
\* Changing an assignment.

AssignFromTrueLiteral(asg, l) == asg \cup {l}

\* Mutant: the bit of the negation is cleared instead of both.
ClearNegation(asg, l) == asg \ {Negated(l)}

\* ClearTwoBits: both literals of the variable.
UnassignLiteral(asg, l) == asg \ {l, Negated(l)}

-----------------------------------------------------------------------------
\* A consistent assignment never makes a literal and its negation true.
Consistent(asg) == \A l \in asg : Negated(l) \notin asg

TotalAssignments ==
    {{LiteralOf(v, v \in pos) : v \in Variables} : pos \in SUBSET Variables}

=============================================================================
