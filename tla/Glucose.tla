------------------------------- MODULE Glucose -------------------------------
(***************************************************************************)
(* The solver integration of examples/solvers/glucose-3.0/core/Solver.cc:  *)
(* how the CDCL search drives the SymmetryController, call by call.        *)
(*                                                                         *)
(* The clause database is left out.  What it decides is open: the literals *)
(* a clause implies, the clause found in conflict, the level and the       *)
(* literal that conflict analysis returns, the branching literal, when to  *)
(* restart and when the budget is spent.  The trail, the propagation queue *)
(* and the calls to the controller are those of the code.                  *)
(***************************************************************************)
EXTENDS SymmetryController

CONSTANT RootChoices   \* what simplify may find before there is a controller

\* No variable is on a trail twice.
IsTrail(s) ==
    /\ s \in Seq(Literal)
    /\ \A i, j \in DOMAIN s : Variable(s[i]) = Variable(s[j]) => i = j

ASSUME RootChoicesAssumption == \A s \in RootChoices : IsTrail(s)

VARIABLES root,       \* the literals that simplify put on the trail
          trail,      \* the assigned literals, oldest first
          qhead,      \* how many of them have been dequeued
          trailLim,   \* length of the trail at each decision
          ok,         \* FALSE when the clauses are known to be unsatisfiable
          phase,      \* where the thread is
          conflict,   \* the clause propagate returned
          after       \* what cancelUntil was called for

solverVars == <<root, trail, qhead, trailLim, ok, phase, conflict, after>>

Phase == {"idle", "units", "propagate", "notified", "watches", "conflict",
          "cancel"}

Level == Len(trailLim)

Value(l) == \E i \in DOMAIN trail : trail[i] = l

Unassigned(l) == ~Value(l) /\ ~Value(Negated(l))

\* The literals assigned since the last decision.
CurrentLevel == {trail[i] : i \in (IF Level = 0 THEN 0 ELSE Last(trailLim)) + 1
                                   .. Len(trail)}

\* What cancelUntil leads to: the level it goes back to, the literals that are
\* enqueued then, and where the thread goes on.
NoCancel == [level |-> 0, enqueue |-> << >>, phase |-> "propagate"]

CancelUntil(level, enqueue, next) ==
    /\ after' = [level |-> level, enqueue |-> enqueue, phase |-> next]
    /\ phase' = "cancel"
    /\ UNCHANGED <<root, trail, qhead, trailLim, ok, conflict, controllerVars>>

Goto(next) == phase' = next

-----------------------------------------------------------------------------
\* Main.cc calls simplify before it makes the controller, which therefore
\* never hears of the literals assigned by then.
GlucoseInit ==
    /\ ControllerInit
    /\ root \in RootChoices
    /\ trail = root
    /\ qhead = Len(root)
    /\ trailLim = << >>
    /\ ok = TRUE
    /\ phase = "idle"
    /\ conflict = {}
    /\ after = NoCancel

\* solve_ enables the symmetries before it looks at ok.
SolveStart ==
    /\ phase = "idle"
    /\ EnableCosy
    /\ Goto("units")
    /\ UNCHANGED <<root, trail, qhead, trailLim, ok, conflict, after>>

DrainUnit ==
    /\ phase = "units"
    /\ ClauseToInject("UNITS", NoVariable)
    /\ \E l \in TakenClause(clauses, "UNITS", NoVariable) :
          trail' = IF Unassigned(l) THEN Append(trail, l) ELSE trail
    /\ UNCHANGED <<root, qhead, trailLim, ok, phase, conflict, after>>

SearchStart ==
    /\ phase = "units"
    /\ ~HasClause(clauses, "UNITS", NoVariable)
    /\ Goto(IF ok THEN "propagate" ELSE "idle")
    /\ UNCHANGED <<root, trail, qhead, trailLim, ok, conflict, after,
                   controllerVars>>

-----------------------------------------------------------------------------
\* propagate.

Dequeue ==
    /\ phase = "propagate"
    /\ qhead < Len(trail)
    /\ qhead' = qhead + 1
    /\ UpdateNotify(trail[qhead + 1])
    /\ Goto("notified")
    /\ UNCHANGED <<root, trail, trailLim, ok, conflict, after>>

\* learntSymmetryClause returns the clause that the literal caused.
LearnSymmetryClause ==
    /\ phase = "notified"
    /\ ClauseToInject("ESBP", Variable(trail[qhead]))
    /\ conflict' = TakenClause(clauses, "ESBP", Variable(trail[qhead]))
    /\ Goto("conflict")
    /\ UNCHANGED <<root, trail, qhead, trailLim, ok, after>>

\* Mutant: the watches are visited although there is a symmetry clause.
SymmetryClauseIgnored ==
    /\ phase = "notified"
    /\ Goto("watches")
    /\ UNCHANGED <<root, trail, qhead, trailLim, ok, conflict, after,
                   controllerVars>>

NoSymmetryClause ==
    /\ phase = "notified"
    /\ ~HasClause(clauses, "ESBP", Variable(trail[qhead]))
    /\ Goto("watches")
    /\ UNCHANGED <<root, trail, qhead, trailLim, ok, conflict, after,
                   controllerVars>>

\* A clause watched by the dequeued literal becomes unit.
Imply(l) ==
    /\ phase = "watches"
    /\ Unassigned(l)
    /\ trail' = Append(trail, l)
    /\ UNCHANGED <<root, qhead, trailLim, ok, phase, conflict, after,
                   controllerVars>>

\* A watched clause is false.  A binary clause is returned at once and leaves
\* the queue as it is, a longer one empties it.  Of its literals only the one
\* that is sure to be there, the negation of the dequeued literal, is kept.
ClauseConflict(binary) ==
    /\ phase = "watches"
    /\ conflict' = {Negated(trail[qhead])}
    /\ qhead' = IF binary THEN qhead ELSE Len(trail)
    /\ Goto("conflict")
    /\ UNCHANGED <<root, trail, trailLim, ok, after, controllerVars>>

WatchesDone ==
    /\ phase = "watches"
    /\ Goto("propagate")
    /\ UNCHANGED <<root, trail, qhead, trailLim, ok, conflict, after,
                   controllerVars>>

-----------------------------------------------------------------------------
\* search, with a conflict.

RootConflict ==
    /\ phase = "conflict"
    /\ Level = 0
    /\ ok' = FALSE
    /\ Goto("idle")
    /\ UNCHANGED <<root, trail, qhead, trailLim, conflict, after,
                   controllerVars>>

\* analyze: the learnt clause asserts the negation of a literal of the current
\* level once the search is back at the given level.
Analyze(level, l) ==
    /\ phase = "conflict"
    /\ CancelUntil(level, <<Negated(l)>>, "propagate")

-----------------------------------------------------------------------------
\* search, without a conflict.

PropagateDone == phase = "propagate" /\ qhead = Len(trail)

\* Every variable is assigned and no clause is false: the model is reported.
ModelFound == PropagateDone /\ \A v \in Variables : ~Unassigned(v)

\* A restart, after which search is called again or the budget is spent, or
\* the end of solve_ with a model: all of them go back to level 0.
Restart(next) ==
    /\ PropagateDone
    /\ IF Level > 0
       THEN CancelUntil(0, << >>, next)
       ELSE Goto(next) /\ UNCHANGED <<root, trail, qhead, trailLim, ok,
                                      conflict, after, controllerVars>>

Decide(l) ==
    /\ PropagateDone
    /\ Unassigned(l)
    /\ trailLim' = Append(trailLim, Len(trail))
    /\ trail' = Append(trail, l)
    /\ UNCHANGED <<root, qhead, ok, phase, conflict, after, controllerVars>>

-----------------------------------------------------------------------------
\* cancelUntil.

CancelLiteral ==
    /\ phase = "cancel"
    /\ Len(trail) > trailLim[after.level + 1]
    /\ UpdateCancel(Last(trail))
    /\ trail' = Front(trail)
    /\ UNCHANGED <<root, qhead, trailLim, ok, phase, conflict, after>>

\* Mutant: the queue is put back once the learnt literal is on the trail.
CancelDoneLateQueue ==
    /\ phase = "cancel"
    /\ Len(trail) = trailLim[after.level + 1]
    /\ qhead' = Len(trail) + Len(after.enqueue)
    /\ trailLim' = SubSeq(trailLim, 1, after.level)
    /\ trail' = trail \o after.enqueue
    /\ Goto(after.phase)
    /\ after' = NoCancel
    /\ conflict' = {}
    /\ UNCHANGED <<root, ok, controllerVars>>

CancelDone ==
    /\ phase = "cancel"
    /\ Len(trail) = trailLim[after.level + 1]
    /\ qhead' = Len(trail)
    /\ trailLim' = SubSeq(trailLim, 1, after.level)
    /\ trail' = trail \o after.enqueue
    /\ Goto(after.phase)
    /\ after' = NoCancel
    /\ conflict' = {}
    /\ UNCHANGED <<root, ok, controllerVars>>

\* The program ends, its solves over.
Finished ==
    /\ phase = "idle"
    /\ enables = MaxEnables
    /\ UNCHANGED <<controllerVars, solverVars>>

-----------------------------------------------------------------------------
GlucoseNext ==
    \/ SolveStart \/ DrainUnit \/ SearchStart
    \/ Dequeue \/ LearnSymmetryClause \/ NoSymmetryClause
    \/ \E l \in Literal : Imply(l) \/ Decide(l)
    \/ \E binary \in BOOLEAN : ClauseConflict(binary)
    \/ WatchesDone
    \/ RootConflict
    \/ \E level \in 0 .. Level - 1, l \in CurrentLevel : Analyze(level, l)
    \/ \E next \in {"propagate", "idle"} : Restart(next)
    \/ CancelLiteral \/ CancelDone
    \/ Finished

glucoseVars == <<controllerVars, solverVars>>

\* One thread runs the solver until it stops.
GlucoseSpec ==
    GlucoseInit /\ [][GlucoseNext]_glucoseVars /\ WF_glucoseVars(GlucoseNext)

-----------------------------------------------------------------------------
\* Every variable of the controller and of the search has its type, no variable
\* is assigned twice, and the queue is a part of the trail.
GlucoseTypeOK ==
    /\ ControllerTypeOK
    /\ IsTrail(root)
    /\ IsTrail(trail)
    /\ qhead \in Nat
    /\ phase # "cancel" => qhead <= Len(trail)
    /\ trailLim \in Seq(Nat)
    /\ ok \in BOOLEAN
    /\ phase \in Phase
    /\ conflict \in Clause
    /\ after \in [level : Nat, enqueue : Seq(Literal), phase : Phase]

\* Whenever the search looks at the queue, the controller's assignment is what the
\* search has dequeued since the controller was made, in that order: whatever
\* conflict ended the propagation before, with literals left in the queue or
\* thrown out of it, and however far the search went back.
ControllerFollowsQueue ==
    ok /\ phase \in {"units", "propagate", "notified", "watches"} =>
        notified = SubSeq(trail, Len(root) + 1, qhead)

ClauseIsCurrent ==
    phase = "conflict" =>
        /\ \A l \in conflict : Value(Negated(l))
        /\ Level > 0 => \E l \in conflict : Negated(l) \in CurrentLevel

\* The DCHECK_GE of CosyStatus.cc:135: an ESBP clause has two literals to swap.
\* A status that inverts the first literal of its order would make one of a
\* single literal, had its unit clause not been propagated before.
EsbpAtLeastBinary ==
    phase = "notified" =>
    \A v \in Variables : HasClause(clauses, "ESBP", v) =>
        Cardinality(TakenClause(clauses, "ESBP", v)) >= 2

\* The clause that ends a propagation is one that conflict analysis can work
\* on: its literals are false on the trail, above level 0 one of them was
\* assigned at the current level, and an ESBP clause has two literals at least.
ConflictIsCurrent == ClauseIsCurrent /\ EsbpAtLeastBinary

\* The search never goes on from an assignment that some status, when told of
\* it, would find to be no lex leader: the statuses a reducer kept from hearing
\* of a literal are not needed until that literal is cancelled, and a new
\* manager over old assignments misses nothing.
NoMissedReducer ==
    phase \in {"propagate", "watches"} =>
        \A p \in Statuses :
            StateAt(asg, LookupOf(p), Inverses[p],
                    Advance(asg, LookupOf(p), Inverses[p], lookupIndex[p]))
            # Reducer

\* A model the solver reports is never larger than its image under one of the
\* permutations, when all of its literals were told to the controller.  It
\* holds of permutations that are their own inverses.
ModelIsMinimal ==
    ModelFound /\ Enabled /\ root = << >> =>
        LET model == {trail[i] : i \in DOMAIN trail}
        IN  \A p \in Statuses : ~LexLess(Image(Inverses[p], model), model)

\* The DCHECK of Assignment.h:55, unassignLiteral: the literal that the solver
\* cancels is assigned in the controller.
CancelledIsAssigned ==
    phase = "cancel" /\ Len(trail) > trailLim[after.level + 1] =>
        LiteralIsAssigned(asg, Last(trail))

\* A literal that is enqueued is told to the controller or cancelled, unless
\* the clauses turn out to be unsatisfiable: none is forgotten in the queue,
\* not the one that a learnt clause asserts after a conflict emptied it.
Untold(v) ==
    /\ ~Unassigned(v)
    /\ v \notin {Variable(l) : l \in Range(root)}
    /\ ~LiteralIsAssigned(asg, v)

ToldOrCancelled == \A v \in Variables : Untold(v) ~> ~Untold(v) \/ ~ok

=============================================================================
