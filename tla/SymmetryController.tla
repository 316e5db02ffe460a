------------------------- MODULE SymmetryController -------------------------
(***************************************************************************)
(* The library as a SAT solver sees it: SymmetryController (the template   *)
(* of include/cosy/SymmetryController.h), the CosyManager that tells its   *)
(* statuses of every literal (src/CosyManager.cc), and the ClauseInjector  *)
(* that keeps the clauses until the solver asks for them.                  *)
(*                                                                         *)
(* The calls come from a solver that is left open here: it notifies        *)
(* literals of variables that are not assigned, cancels the literal it     *)
(* notified last or one it never notified, and takes clauses when there    *)
(* are any.  The permutations are numbered as in Group::permutations.      *)
(***************************************************************************)
EXTENDS StatusRules

CONSTANTS Inverses,      \* Permutation::inverseOf of each generator
          EsbpForcing,   \* FLAGS_esbp_forcing of CosyManager.cc
          MaxEnables     \* bound: how often the solver calls enableCosy

ASSUME InversesAssumption ==
    /\ Inverses \in Seq([Literal -> Literal])
    /\ \A p \in DOMAIN Inverses : IsLiteralMap(Inverses[p])

ASSUME EsbpForcingAssumption == EsbpForcing \in BOOLEAN

ASSUME MaxEnablesAssumption == MaxEnables \in Nat

Statuses == DOMAIN Inverses

\* Group::watch: the permutations that move the variable.
Watch(v) == {p \in Statuses : Inverses[p][v] # v}

\* CosyManager::defineOrder: what the status of each permutation was given of
\* the first i variables of the order.
LookupsUpTo[i \in 0 .. Len(Order)] ==
    IF i = 0 THEN [p \in Statuses |-> << >>]
    ELSE [p \in Statuses |-> IF p \in Watch(Order[i])
                             THEN Append(LookupsUpTo[i - 1][p], Order[i])
                             ELSE LookupsUpTo[i - 1][p]]

Lookups == LookupsUpTo[Len(Order)]

LookupOf(p) == Lookups[p]

\* CosyManager::generateUnits: the unit clauses of the first n statuses.
UnitsUpTo[n \in 0 .. Len(Inverses)] ==
    IF n = 0 THEN << >>
    ELSE UnitsUpTo[n - 1] \o UnitClauses(LookupOf(n), Inverses[n], 1)

Units == UnitsUpTo[Len(Inverses)]

-----------------------------------------------------------------------------
\* The ClauseInjector: include/cosy/ClauseInjector.h and src/ClauseInjector.cc,
\* as operators on its value, a function from a type and a cause to the clauses
\* waiting there, the last one to be taken first.  A clause is the set of its
\* literals.

ClauseType == {"UNITS", "ESBP", "ESBP_FORCING"}

Cause == Variables \cup {NoVariable}

Clause == SUBSET Literal

NoClauses == [type \in ClauseType |-> [cause \in Cause |-> << >>]]

\* A variable causes one clause of a type at most, NoVariable any number.
AddClause(clauses, type, cause, clause) ==
    IF cause = NoVariable \/ clauses[type][cause] = << >>
    THEN [clauses EXCEPT ![type][cause] = Append(@, clause)]
    ELSE clauses

\* What addClause does for each of the clauses that no variable causes.
AddUnits(clauses, units) ==
    [clauses EXCEPT !["UNITS"][NoVariable] = @ \o units]

\* Mutant: the cause keeps its ESBP clause.
RemoveForcingClauses(clauses, cause) ==
    [clauses EXCEPT !["ESBP_FORCING"][cause] = << >>]

\* removeClause of a cause, for every type.
RemoveClauses(clauses, cause) ==
    [type \in ClauseType |-> [clauses[type] EXCEPT ![cause] = << >>]]

HasClause(clauses, type, cause) == clauses[type][cause] # << >>

\* What getClause returns and what it leaves.
TakenClause(clauses, type, cause) == Last(clauses[type][cause])

WithoutTaken(clauses, type, cause) ==
    [clauses EXCEPT ![type][cause] = Front(@)]

-----------------------------------------------------------------------------
VARIABLES enables,       \* how many managers were made, the last one is live
          asg,           \* SymmetryController::_assignment
          notified,      \* the assigned literals, oldest first
          lookupIndex,   \* of each status
          lookupInfos,   \* of each status
          state,         \* of each status
          clauses        \* SymmetryController::_injector

statusVars == <<lookupIndex, lookupInfos, state>>
controllerVars == <<enables, asg, notified, statusVars, clauses>>

Enabled == enables > 0

-----------------------------------------------------------------------------
ControllerInit ==
    /\ enables = 0
    /\ asg = {}
    /\ notified = << >>
    /\ lookupIndex = [p \in Statuses |-> 1]
    /\ lookupInfos = [p \in Statuses |-> << >>]
    /\ state = [p \in Statuses |-> Active]
    /\ clauses = NoClauses

\* enableCosy: a new manager and new statuses over the assignment as it is,
\* and the unit clauses of the statuses (CosyManager::generateUnits).
EnableCosy ==
    /\ Inverses # << >>
    /\ enables < MaxEnables
    /\ enables' = enables + 1
    /\ lookupIndex' = [p \in Statuses |-> 1]
    /\ lookupInfos' = [p \in Statuses |-> << >>]
    /\ state' = [p \in Statuses |-> Active]
    /\ clauses' = AddUnits(clauses, Units)
    /\ UNCHANGED <<asg, notified>>

\* The index and the state of status p once it is told of the assignment.
NextIndex(p) == Advance(asg', LookupOf(p), Inverses[p], lookupIndex[p])

NextState(p) == StateAt(asg', LookupOf(p), Inverses[p], NextIndex(p))

\* Mutant: the entry remembers the index the loop ended at.
TellStatusesLate(told, v) ==
    /\ lookupIndex' = [p \in Statuses |->
           IF p \in told THEN NextIndex(p) ELSE lookupIndex[p]]
    /\ lookupInfos' = [p \in Statuses |->
           IF p \in told /\ NextIndex(p) # lookupIndex[p]
           THEN Append(lookupInfos[p], [variable  |-> v,
                                        backIndex |-> NextIndex(p)])
           ELSE lookupInfos[p]]
    /\ state' = [p \in Statuses |->
           IF p \in told THEN NextState(p) ELSE state[p]]

\* CosyStatus::updateNotify of the literal of variable v for the statuses told.
TellStatuses(told, v) ==
    /\ lookupIndex' = [p \in Statuses |->
           IF p \in told THEN NextIndex(p) ELSE lookupIndex[p]]
    /\ lookupInfos' = [p \in Statuses |->
           IF p \in told /\ NextIndex(p) # lookupIndex[p]
           THEN Append(lookupInfos[p], [variable  |-> v,
                                        backIndex |-> lookupIndex[p]])
           ELSE lookupInfos[p]]
    /\ state' = [p \in Statuses |->
           IF p \in told THEN NextState(p) ELSE state[p]]

\* The clauses of the statuses told that force their pair, when the flag has
\* them generated: the injector keeps the one that comes first.
AfterForcing(told, v) ==
    LET forcing == {p \in told : EsbpForcing /\ NextState(p) = ForceLexLeader}
    IN  IF forcing = {} THEN {clauses}
        ELSE {AddClause(clauses, "ESBP_FORCING", v,
                        ForcingClause(asg', LookupOf(p), Inverses[p],
                                      NextIndex(p), v)) : p \in forcing}

\* Mutant: a variable that is assigned is notified again.
AssignAgain(l) ==
    /\ asg' = AssignFromTrueLiteral(asg, l)
    /\ notified' = Append(notified, l)
    /\ UNCHANGED enables

Assign(l) ==
    /\ ~LiteralIsAssigned(asg, l)
    /\ asg' = AssignFromTrueLiteral(asg, l)
    /\ notified' = Append(notified, l)
    /\ UNCHANGED enables

\* updateNotify while there is no manager.
NotifyDisabled(l) ==
    /\ ~Enabled
    /\ Assign(l)
    /\ UNCHANGED <<statusVars, clauses>>

\* updateNotify that makes no status a reducer: all that watch are told.
NotifyAll(l) ==
    /\ Enabled
    /\ Assign(l)
    /\ \A p \in Watch(Variable(l)) : NextState(p) # Reducer
    /\ TellStatuses(Watch(Variable(l)), Variable(l))
    /\ clauses' \in AfterForcing(Watch(Variable(l)), Variable(l))

\* updateNotify that makes status r a reducer: the manager stops there, having
\* told the statuses that an unordered_set happens to list before r, none of
\* them a reducer.
NotifyReducer(l, r) ==
    /\ Enabled
    /\ Assign(l)
    /\ NextState(r) = Reducer
    /\ \E before \in SUBSET {p \in Watch(Variable(l)) : NextState(p) # Reducer} :
          /\ TellStatuses(before \cup {r}, Variable(l))
          /\ \E store \in AfterForcing(before, Variable(l)) :
                clauses' = AddClause(store, "ESBP", Variable(l),
                               EsbpClause(asg', LookupOf(r), Inverses[r],
                                          NextIndex(r), Variable(l)))

UpdateNotify(l) ==
    \/ NotifyDisabled(l)
    \/ NotifyAll(l)
    \/ \E r \in Watch(Variable(l)) : NotifyReducer(l, r)

\* Mutant: the index is never put back.
NeverPops(p, l) == FALSE

\* CosyStatus::updateCancel of a literal pops the last entry of a status that
\* watches the variable, when the entry has that variable.
Pops(p, l) ==
    /\ p \in Watch(Variable(l))
    /\ lookupInfos[p] # << >>
    /\ Last(lookupInfos[p]).variable = Variable(l)

\* updateCancel.  A literal that was never notified is not assigned: nothing
\* but the DCHECK of Assignment::unassignLiteral minds.
UpdateCancel(l) ==
    /\ IF LiteralIsAssigned(asg, l)
       THEN l = Last(notified) /\ notified' = Front(notified)
       ELSE UNCHANGED notified
    /\ asg' = UnassignLiteral(asg, l)
    /\ lookupIndex' = [p \in Statuses |->
           IF Pops(p, l) THEN Last(lookupInfos[p]).backIndex
                         ELSE lookupIndex[p]]
    /\ lookupInfos' = [p \in Statuses |->
           IF Pops(p, l) THEN Front(lookupInfos[p]) ELSE lookupInfos[p]]
    /\ clauses' = RemoveClauses(clauses, Variable(l))
    /\ UNCHANGED <<enables, state>>

\* clauseToInject.
ClauseToInject(type, cause) ==
    /\ HasClause(clauses, type, cause)
    /\ clauses' = WithoutTaken(clauses, type, cause)
    /\ UNCHANGED <<enables, asg, notified, statusVars>>

ControllerNext ==
    \/ EnableCosy
    \/ \E l \in Literal : UpdateNotify(l) \/ UpdateCancel(l)
    \/ \E type \in ClauseType, cause \in Cause : ClauseToInject(type, cause)

ControllerSpec == ControllerInit /\ [][ControllerNext]_controllerVars

-----------------------------------------------------------------------------
\* Every variable has its type, the assignment is what notified says, and the
\* injector never holds two clauses of a type for one variable, so that a
\* solver that takes one leaves none behind.
ControllerTypeOK ==
    /\ enables \in 0 .. MaxEnables
    /\ IsHistory(asg, notified)
    /\ lookupIndex \in [Statuses -> Nat]
    /\ DOMAIN lookupInfos = Statuses
    /\ \A p \in Statuses : IsCursor(LookupOf(p), lookupIndex[p], lookupInfos[p])
    /\ state \in [Statuses -> CosyState]
    /\ clauses \in [ClauseType -> [Cause -> Seq(Clause)]]
    /\ \A type \in ClauseType, v \in Variables : Len(clauses[type][v]) <= 1

\* An ESBP clause waits only while the literal that caused it is assigned, and
\* it is a conflict the moment that literal is notified: all of its literals
\* are false then, the cause's own among them.  Backtracking and assigning the
\* variable again never leaves a clause of an older assignment behind.
EsbpIsConflict ==
    \A v \in Variables : HasClause(clauses, "ESBP", v) =>
        \E i \in DOMAIN notified :
            /\ Variable(notified[i]) = v
            /\ Negated(notified[i]) \in TakenClause(clauses, "ESBP", v)
            /\ \A l \in TakenClause(clauses, "ESBP", v) :
                   \E j \in 1 .. i : notified[j] = Negated(l)

\* A forcing clause propagates when the solver asks for it, with the literal
\* that caused it on top of the assignment: one of its literals is unassigned
\* and the others are false.
ForcingIsUnit ==
    \A v \in Variables :
        /\ notified # << >> /\ Variable(Last(notified)) = v
        /\ HasClause(clauses, "ESBP_FORCING", v)
        => \E l \in TakenClause(clauses, "ESBP_FORCING", v) :
              /\ ~LiteralIsAssigned(asg, l)
              /\ \A m \in TakenClause(clauses, "ESBP_FORCING", v) \ {l} :
                     LiteralIsFalse(asg, m)

\* The clauses that wait are of use to the solver when it may ask for them: an
\* ESBP clause is a conflict, a forcing clause is unit.
PendingClauseIsConflict == EsbpIsConflict /\ ForcingIsUnit

\* The total assignments that some permutation maps to a smaller one.
Reducible ==
    {total \in TotalAssignments :
        \E p \in Statuses : LexLess(Image(Inverses[p], total), total)}

KeepsLeaders(clause) ==
    \A total \in TotalAssignments \ Reducible : clause \cap total # {}

\* No clause given to the solver, of any permutation, for any assignment and
\* after any backtracking, excludes a total assignment unless some permutation
\* maps that one to a smaller one: every set of such clauses together leaves
\* the lex leader of each orbit.  It holds of permutations that are their own
\* inverses.
PendingKeepsLeaders ==
    \A type \in {"ESBP", "UNITS"}, cause \in Cause :
        \A i \in DOMAIN clauses[type][cause] : KeepsLeaders(clauses[type][cause][i])

=============================================================================
