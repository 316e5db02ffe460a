----------------------------- MODULE CosyStatus -----------------------------
(***************************************************************************)
(* One CosyStatus (src/CosyStatus.cc): the cursor of one permutation over  *)
(* its lookup order, as the solver assigns and unassigns literals.         *)
(*                                                                         *)
(* The status reads the assignment of its controller, which changes under  *)
(* it: a literal is assigned whether or not this status is told of it.  It *)
(* is not told when its permutation leaves the variable alone               *)
(* (Group::watch), and when CosyManager::updateNotify stopped at an        *)
(* earlier status that became a reducer.  The solver unassigns literals in *)
(* the opposite order; notified records the order for the model.           *)
(***************************************************************************)
EXTENDS StatusRules

CONSTANTS InverseOf,      \* Permutation::inverseOf, the identity elsewhere
          LookupOrder   \* the support of the permutation, sorted by Order

Support == {v \in Variables : InverseOf[v] # v}

ASSUME InverseAssumption == IsLiteralMap(InverseOf)

ASSUME LookupOrderAssumption == IsLookup(LookupOrder, InverseOf)

VARIABLES asg,           \* Assignment::_assignment of the controller
          notified,      \* the assigned literals, oldest first
          lookupIndex,   \* _lookup_index, counted from 1
          lookupInfos,   \* _lookup_infos, the undo stack of the index
          state          \* _state

vars == <<asg, notified, lookupIndex, lookupInfos, state>>

-----------------------------------------------------------------------------
Init ==
    /\ asg = {}
    /\ notified = << >>
    /\ lookupIndex = 1
    /\ lookupInfos = << >>
    /\ state = Active

\* SymmetryController::updateNotify before any status is told.
Assign(l) ==
    /\ ~LiteralIsAssigned(asg, l)
    /\ asg' = AssignFromTrueLiteral(asg, l)
    /\ notified' = Append(notified, l)

\* Mutant: the undo entry is pushed whether or not the index moves.
NotifyAlwaysPush(l) ==
    /\ Variable(l) \in Support
    /\ Assign(l)
    /\ lookupIndex' = Advance(asg', LookupOrder, InverseOf, lookupIndex)
    /\ lookupInfos' = Append(lookupInfos, [variable  |-> Variable(l),
                                          backIndex |-> lookupIndex])
    /\ state' = StateAt(asg', LookupOrder, InverseOf, lookupIndex')

\* updateNotify of this status.
Notify(l) ==
    /\ Variable(l) \in Support
    /\ Assign(l)
    /\ lookupIndex' = Advance(asg', LookupOrder, InverseOf, lookupIndex)
    /\ lookupInfos' =
           IF lookupIndex' = lookupIndex THEN lookupInfos
           ELSE Append(lookupInfos, [variable  |-> Variable(l),
                                     backIndex |-> lookupIndex])
    /\ state' = StateAt(asg', LookupOrder, InverseOf, lookupIndex')

\* The literal is assigned and this status is not told.
NotTold(l) ==
    /\ Assign(l)
    /\ UNCHANGED <<lookupIndex, lookupInfos, state>>

\* Mutant: the index is not put back.
CancelKeepIndex ==
    /\ notified # << >>
    /\ asg' = UnassignLiteral(asg, Last(notified))
    /\ notified' = Front(notified)
    /\ UNCHANGED <<lookupIndex, lookupInfos, state>>

\* updateCancel of the literal assigned last.  The state keeps the value of
\* the last updateNotify.
Cancel ==
    /\ notified # << >>
    /\ asg' = UnassignLiteral(asg, Last(notified))
    /\ notified' = Front(notified)
    /\ IF /\ lookupInfos # << >>
          /\ Last(lookupInfos).variable = Variable(Last(notified))
       THEN /\ lookupIndex' = Last(lookupInfos).backIndex
            /\ lookupInfos' = Front(lookupInfos)
       ELSE UNCHANGED <<lookupIndex, lookupInfos>>
    /\ UNCHANGED state

\* SymmetryController::enableCosy replaces the status by a new one, and keeps
\* the assignment.
Renew ==
    /\ lookupIndex' = 1
    /\ lookupInfos' = << >>
    /\ state' = Active
    /\ UNCHANGED <<asg, notified>>

Next ==
    \/ \E l \in Literal : Notify(l) \/ NotTold(l)
    \/ Cancel
    \/ Renew

Spec == Init /\ [][Next]_vars

-----------------------------------------------------------------------------
\* Every variable has its type, and the assignment is what notified says.
TypeOK ==
    /\ IsHistory(asg, notified)
    /\ IsCursor(LookupOrder, lookupIndex, lookupInfos)
    /\ state \in CosyState

\* The positions the cursor has passed hold pairs that are assigned and have
\* the same value, whatever was assigned, unassigned and missed in between:
\* generateESBP and generateForceLexLeaderESBP read the values of all of them
\* (the DCHECK of CosyStatus.cc:121).
LookupPrefixEqual == PrefixEqual(asg, LookupOrder, InverseOf, lookupIndex)

\* Popping the entry of a literal when that literal goes is enough to keep
\* LookupPrefixEqual, whichever notifications this status was not told: the
\* undo stack follows the literals that are still assigned.
UndoStackMatchesTrail ==
    UndoMatches(notified, LookupOrder, InverseOf, lookupIndex, lookupInfos)

-----------------------------------------------------------------------------
\* Where the cursor goes and the state it finds when the status is told of the
\* current assignment.
CaughtUp == Advance(asg, LookupOrder, InverseOf, lookupIndex)

CaughtUpState == StateAt(asg, LookupOrder, InverseOf, CaughtUp)

\* What the status concludes about the image of every total assignment that
\* extends the current one: a reducer's image is smaller (so no extension is a
\* lex leader), an inactive status' image is larger, and a forcing status'
\* image is smaller whenever the pair at the cursor gets different values.
\* It holds of involutions.
StateComparesImage ==
    \A total \in TotalAssignments : asg \subseteq total =>
        /\ CaughtUpState = Reducer => LexLess(Image(InverseOf, total), total)
        /\ CaughtUpState = Inactive => LexLess(total, Image(InverseOf, total))
        /\ /\ CaughtUpState = ForceLexLeader
           /\ ~SameAt(total, LookupOrder, InverseOf, CaughtUp)
           => LexLess(Image(InverseOf, total), total)

\* The comment of CosyStatus.cc:94, "force lex leader case": a status in that
\* state may force the pair at its cursor to be equal without losing the lex
\* leader.
ForcingKeepsLeader ==
    CaughtUpState = ForceLexLeader =>
        \A total \in TotalAssignments :
            asg \subseteq total /\ IsLexLeader({InverseOf}, total)
            => SameAt(total, LookupOrder, InverseOf, CaughtUp)

=============================================================================
