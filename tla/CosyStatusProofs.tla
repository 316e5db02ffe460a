-------------------------- MODULE CosyStatusProofs --------------------------
(***************************************************************************)
(* Proofs about CosyStatus, for every number of variables, order,          *)
(* permutation and value mode the assumptions of the modules allow.        *)
(*                                                                         *)
(* LookupPrefixEqual alone is not inductive: Cancel moves the cursor back  *)
(* to a position taken from the undo stack.  UndoStackMatchesTrail says    *)
(* what the stack has to do with the literals that are still assigned, and *)
(* implies LookupPrefixEqual through its last entry.                       *)
(***************************************************************************)
EXTENDS CosyStatus, StatusRulesProofs

USE NumVarsAssumption

LEMMA LookupIsSeq == LookupOrder \in Seq(Variables) /\ Len(LookupOrder) \in Nat
  BY LookupFacts, LookupOrderAssumption

LEMMA StateAtType ==
    ASSUME NEW A, NEW k PROVE StateAt(A, LookupOrder, InverseOf, k) \in CosyState
  BY DEF StateAt, CosyState

\* What the three parts of the invariant say of the variables.
IInv == TypeOK /\ UndoStackMatchesTrail

LEMMA InitIInv == Init => IInv
<1> SUFFICES ASSUME Init PROVE IInv
  OBVIOUS
<1>1. IsHistory({}, << >>)
  <2>1. << >> \in Seq(Literal) /\ DOMAIN << >> = {}
    BY EmptySeq
  <2> QED
    BY <2>1 DEF IsHistory, Consistent
<1> QED
  BY <1>1, LookupIsSeq, NewStatus DEF Init, IInv, TypeOK, UndoStackMatchesTrail, CosyState

\* A literal that the status is told of: the cursor moves on and the stack
\* remembers where it was.
LEMMA NotifyKeepsIInv ==
    ASSUME IInv, NEW l \in Literal, Notify(l) PROVE IInv'
<1>1. /\ IsHistory(asg, notified)
      /\ IsCursor(LookupOrder, lookupIndex, lookupInfos)
      /\ UndoMatches(notified, LookupOrder, InverseOf, lookupIndex, lookupInfos)
  BY DEF IInv, TypeOK, UndoStackMatchesTrail
<1>2. /\ ~LiteralIsAssigned(asg, l)
      /\ asg' = AssignFromTrueLiteral(asg, l)
      /\ notified' = Append(notified, l)
      /\ lookupIndex' = Advance(asg', LookupOrder, InverseOf, lookupIndex)
      /\ lookupIndex' # lookupIndex =>
            lookupInfos' = Append(lookupInfos, [variable  |-> Variable(l),
                                                backIndex |-> lookupIndex])
      /\ lookupIndex' = lookupIndex => lookupInfos' = lookupInfos
      /\ state' = StateAt(asg', LookupOrder, InverseOf, lookupIndex')
      /\ InverseOf[Variable(l)] # Variable(l)
  BY DEF Notify, Assign, Support
<1>3. IsHistory(asg', notified')
  BY <1>1, <1>2, AssignKeepsHistory
<1>4. /\ IsCursor(LookupOrder, lookupIndex', lookupInfos')
      /\ UndoMatches(notified', LookupOrder, InverseOf, lookupIndex', lookupInfos')
  <2>1. IsTold(asg, notified, LookupOrder, InverseOf, lookupIndex, lookupInfos, l,
               asg', notified', lookupIndex', lookupInfos')
    BY <1>2 DEF IsTold
  <2> QED
    BY <1>1, <2>1, InverseAssumption, LookupOrderAssumption, TellKeepsUndo
<1> QED
  BY <1>2, <1>3, <1>4, StateAtType DEF IInv, TypeOK, UndoStackMatchesTrail

LEMMA NotToldKeepsIInv ==
    ASSUME IInv, NEW l \in Literal, NotTold(l) PROVE IInv'
<1>1. /\ IsHistory(asg, notified)
      /\ UndoMatches(notified, LookupOrder, InverseOf, lookupIndex, lookupInfos)
  BY DEF IInv, TypeOK, UndoStackMatchesTrail
<1>2. /\ ~LiteralIsAssigned(asg, l)
      /\ asg' = AssignFromTrueLiteral(asg, l)
      /\ notified' = Append(notified, l)
      /\ lookupIndex' = lookupIndex /\ lookupInfos' = lookupInfos /\ state' = state
  BY DEF NotTold, Assign
<1>3. IsHistory(asg', notified')
  BY <1>1, <1>2, AssignKeepsHistory
<1>4. UndoMatches(notified', LookupOrder, InverseOf, lookupIndex, lookupInfos)
  BY <1>1, <1>2, MissKeepsUndo
<1> QED
  BY <1>2, <1>3, <1>4 DEF IInv, TypeOK, UndoStackMatchesTrail

LEMMA CancelKeepsIInv == ASSUME IInv, Cancel PROVE IInv'
<1>1. /\ IsHistory(asg, notified)
      /\ IsCursor(LookupOrder, lookupIndex, lookupInfos)
      /\ UndoMatches(notified, LookupOrder, InverseOf, lookupIndex, lookupInfos)
  BY DEF IInv, TypeOK, UndoStackMatchesTrail
<1>2. /\ notified # << >>
      /\ asg' = UnassignLiteral(asg, Last(notified))
      /\ notified' = Front(notified)
      /\ state' = state
      /\ \/ /\ lookupInfos # << >>
            /\ Last(lookupInfos).variable = Variable(Last(notified))
            /\ lookupIndex' = Last(lookupInfos).backIndex
            /\ lookupInfos' = Front(lookupInfos)
         \/ /\ \/ lookupInfos = << >>
               \/ Last(lookupInfos).variable # Variable(Last(notified))
            /\ lookupIndex' = lookupIndex /\ lookupInfos' = lookupInfos
  BY DEF Cancel
<1>3. IsHistory(asg', notified')
  BY <1>1, <1>2, UnassignKeepsHistory
<1>4. /\ IsCursor(LookupOrder, lookupIndex', lookupInfos')
      /\ UndoMatches(notified', LookupOrder, InverseOf, lookupIndex', lookupInfos')
  BY <1>1, <1>2, PopKeepsUndo
<1> QED
  BY <1>2, <1>3, <1>4 DEF IInv, TypeOK, UndoStackMatchesTrail

LEMMA NextKeepsIInv == ASSUME IInv, [Next]_vars PROVE IInv'
<1>1. ASSUME NEW l \in Literal, Notify(l) PROVE IInv'
  BY <1>1, NotifyKeepsIInv
<1>2. ASSUME NEW l \in Literal, NotTold(l) PROVE IInv'
  BY <1>2, NotToldKeepsIInv
<1>3. CASE Cancel
  BY <1>3, CancelKeepsIInv
<1>4. CASE Renew
  <2>1. /\ lookupIndex' = 1 /\ lookupInfos' = << >> /\ state' = Active
        /\ asg' = asg /\ notified' = notified
    BY <1>4 DEF Renew
  <2> QED
    BY <2>1, LookupIsSeq, NewStatus DEF IInv, TypeOK, UndoStackMatchesTrail, CosyState
<1>5. CASE UNCHANGED vars
  BY <1>5 DEF vars, IInv, TypeOK, UndoStackMatchesTrail
<1> QED
  BY <1>1, <1>2, <1>3, <1>4, <1>5 DEF Next

LEMMA IInvCorrect == Spec => []IInv
  BY InitIInv, NextKeepsIInv, PTL DEF Spec

\* The assignment the status reads stays consistent and is exactly the set of
\* the literals notified and not cancelled since, and the cursor, its undo
\* stack and the state keep their types through every notification,
\* cancellation and renewal.
THEOREM TypeCorrect == Spec => []TypeOK
<1>1. IInv => TypeOK
  BY DEF IInv
<1> QED
  BY <1>1, IInvCorrect, PTL

\* Every entry of the undo stack belongs to a literal still assigned, in the
\* order of the literals, and the pairs below the position it restores are
\* equal on what was assigned before it: updateCancel may pop by looking at
\* the variable of the last entry only.
THEOREM UndoStackCorrect == Spec => []UndoStackMatchesTrail
<1>1. IInv => UndoStackMatchesTrail
  BY DEF IInv
<1> QED
  BY <1>1, IInvCorrect, PTL

LEMMA IInvImpliesPrefix == IInv => LookupPrefixEqual
  BY InverseAssumption, LookupOrderAssumption, UndoImpliesPrefix
     DEF IInv, TypeOK, UndoStackMatchesTrail, LookupPrefixEqual

\* The pairs the cursor has passed are assigned and equal in every reachable
\* state, so the clauses generated from them read assigned variables only.
THEOREM LookupPrefixCorrect == Spec => []LookupPrefixEqual
  BY IInvImpliesPrefix, IInvCorrect, PTL

\* When the permutation is an involution, a status that is told of the
\* assignment and becomes a reducer is right: no total extension is a lex
\* leader.  It is also right to give up (INACTIVE) and to force the pair.
THEOREM InvolutionsCompareImages ==
    ASSUME IsInvolution(InverseOf) PROVE Spec => []StateComparesImage
<1>1. ASSUME IInv PROVE StateComparesImage
  <2>1. IsCursor(LookupOrder, lookupIndex, lookupInfos)
    BY <1>1 DEF IInv, TypeOK
  <2>2. lookupIndex \in 1 .. Len(LookupOrder) + 1
    BY <2>1, CursorFacts
  <2>3. PrefixEqual(asg, LookupOrder, InverseOf, lookupIndex)
    BY <1>1, IInvImpliesPrefix DEF LookupPrefixEqual
  <2>4. StopsAt(asg, LookupOrder, InverseOf, CaughtUp)
    BY <2>2, <2>3, LookupIsSeq, AdvanceStops DEF CaughtUp
  <2> SUFFICES ASSUME NEW total \in TotalAssignments, asg \subseteq total
               PROVE  /\ CaughtUpState = Reducer
                           => LexLess(Image(InverseOf, total), total)
                      /\ CaughtUpState = Inactive
                           => LexLess(total, Image(InverseOf, total))
                      /\ /\ CaughtUpState = ForceLexLeader
                         /\ ~SameAt(total, LookupOrder, InverseOf, CaughtUp)
                         => LexLess(Image(InverseOf, total), total)
    BY DEF StateComparesImage
  <2> QED
    BY <2>4, InverseAssumption, LookupOrderAssumption, ComparesImage
       DEF CaughtUpState
<1>2. IInv => StateComparesImage
  BY <1>1
<1> QED
  BY <1>2, IInvCorrect, PTL

=============================================================================
