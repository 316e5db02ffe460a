-------------------------- MODULE SymmetricGlucose --------------------------
(***************************************************************************)
(* Glucose with its clauses and the symmetry controller with its statuses, *)
(* as main makes them work together: the problem is parsed and simplified, *)
(* the controller is made, and solve is called.  The clauses that the      *)
(* statuses generate are learnt, resolved upon, watched, reduced and       *)
(* collected like any others.                                              *)
(*                                                                         *)
(* The search is that of GlucoseCDCL, taken apart where it calls the       *)
(* controller: literal by literal when it propagates and when it goes      *)
(* back.  There are no assumptions and no interrupts, as in main.          *)
(***************************************************************************)
EXTENDS GlucoseCDCL

CONSTANTS Order,      \* the order of the variables
          Inverses    \* Permutation::inverseOf of each generator of the group

VARIABLES leaders,    \* the models that no permutation makes smaller, for a property
          made,       \* whether main has made the controller
          root,       \* the literals assigned before that
          visit,      \* the loops over the watchers of the dequeued literal
          after,      \* what cancelUntil was called for
          found,      \* what is known of the literals of the conflict clause
          enables, asg, notified, lookupIndex, lookupInfos, state,
          injector    \* SymmetryController::_injector

cosyVars == <<enables, asg, notified, lookupIndex, lookupInfos, state, injector>>
userVars == <<problem, added, incremental, assumptions, interrupted, conflict,
              leaders, made, root>>
allVars  == <<vars, leaders, made, root, visit, after, found, cosyVars>>

NoVisit == [lit |-> 0, bin |-> << >>, ws |-> << >>, kept |-> << >>]

NoCancel == [level |-> 0, lits |-> << >>, lbd |-> 0, next |-> "propagate"]

\* The search as its calls of the controller show it.
Calls == INSTANCE Glucose WITH
    ValueMode <- "TRUE_LESS_FALSE", EsbpForcing <- FALSE,
    MaxEnables <- MaxSolves, RootChoices <- Seq(Lits),
    clauses <- injector, trail <- s.trail, qhead <- s.qhead,
    trailLim <- s.lim, ok <- s.ok, conflict <- found,
    phase <- CASE ~made -> "parse"
               [] pc = "visit" -> "watches"
               [] pc \in {"quiet", "finish"} -> "propagate"
               [] OTHER -> pc,
    after <- [level |-> after.level, phase |-> after.next,
              enqueue |-> IF after.lits = << >> THEN << >> ELSE <<Head(after.lits)>>]

ASSUME SymmetricGlucoseAssumption == Calls!InversesAssumption

-----------------------------------------------------------------------------
SymmetricInit ==
    /\ Init
    /\ incremental = FALSE
    /\ leaders = {m \in ModelsOf({ToSet(problem[i]) : i \in DOMAIN problem}) :
                    \A p \in DOMAIN Inverses : ~Calls!LexLess(Calls!Image(Inverses[p], m), m)}
    /\ made = FALSE
    /\ root = << >>
    /\ visit = NoVisit /\ after = NoCancel /\ found = {}
    /\ Calls!ControllerInit

Parse ==
    /\ AddClause
    /\ UNCHANGED <<leaders, made, root, visit, after, found, cosyVars>>

\* main makes no controller when simplify finds that there is no model.
MakeController ==
    /\ ~made
    /\ added = Len(problem) /\ s.ok
    /\ LET r == Simplify(s, simpDBAssigns, TRUE, TRUE)
       IN  /\ s' = r.s /\ simpDBAssigns' = r.assigns
           /\ made' = r.s.ok
           /\ root' = r.s.trail
    /\ UNCHANGED <<problem, added, incremental, assumptions, interrupted, conflict, leaders,
                   pc, confl, status, solves, heuristics, visit, after, found, cosyVars>>

\* solve_ enables the symmetries and takes their unit clauses before it looks at
\* ok.
SolveStart ==
    /\ made
    /\ pc = "idle"
    /\ Calls!EnableCosy
    /\ pc' = "units"
    /\ status' = "undef"
    /\ UNCHANGED <<userVars, s, confl, simpDBAssigns, solves, heuristics, visit, after, found>>

DrainUnit ==
    /\ pc = "units"
    /\ Calls!ClauseToInject("UNITS", Calls!NoVariable)
    /\ \E l \in Calls!TakenClause(injector, "UNITS", Calls!NoVariable) :
          s' = IF IsUndef(s, l) THEN UncheckedEnqueue(s, l, CRefUndef) ELSE s
    /\ UNCHANGED <<userVars, pc, confl, simpDBAssigns, status, solves, heuristics,
                   visit, after, found>>

SearchStart ==
    /\ pc = "units"
    /\ ~Calls!HasClause(injector, "UNITS", Calls!NoVariable)
    /\ pc' = IF s.ok THEN "propagate" ELSE "idle"
    /\ status' = IF s.ok THEN "undef" ELSE "false"
    /\ solves' = IF s.ok THEN solves + 1 ELSE solves
    /\ UNCHANGED <<userVars, s, confl, simpDBAssigns, heuristics, visit, after, found,
                   cosyVars>>

-----------------------------------------------------------------------------
\* propagate.

searchVars == <<userVars, simpDBAssigns, status, solves, heuristics, after>>

\* No list gets dirty while a propagation goes on.
Cleaned == [s EXCEPT !.watches = CleanAll(@, s.arena), !.watchesBin = CleanAll(@, s.arena)]

Dequeue ==
    /\ pc = "propagate"
    /\ s.qhead < Len(s.trail)
    /\ s' = [Cleaned EXCEPT !.qhead = @ + 1]
    /\ Calls!UpdateNotify(s.trail[s.qhead + 1])
    /\ pc' = "notified"
    /\ UNCHANGED <<searchVars, confl, visit, found>>

Dequeued == s.trail[s.qhead]

\* The literals in the order in which generateESBP of status r lists them: that
\* of the cause is the second.
Listed(r, cause) ==
    LET lookup == Calls!LookupOf(r)
        falseOf(l) == Calls!FalseLiteralOf(asg, Var(l))
        pairs == FlattenSeq([k \in 1 .. lookupIndex[r] |->
                    <<falseOf(lookup[k]), falseOf(Inverses[r][lookup[k]])>>])
    IN  Flip(FirstVisits(<<falseOf(cause)>> \o pairs), 1, 2)

\* learntSymmetryClause: the clause is learnt, with an LBD of 0, and it is the
\* conflict.  The status that made it is one of those whose pairs it has.
LearnSymmetryClause ==
    LET cr == Len(s.arena) + 1
    IN  /\ pc = "notified"
        /\ Calls!ClauseToInject("ESBP", Var(Dequeued))
        /\ found' = Calls!TakenClause(injector, "ESBP", Var(Dequeued))
        /\ \E r \in {p \in Calls!Watch(Var(Dequeued)) : state[p] = Calls!Reducer} :
              /\ ToSet(Listed(r, Dequeued)) = found'
              /\ s' = AttachClause(
                    [s EXCEPT !.learnts = @ \union {cr},
                              !.arena = Append(@, GlucoseClause(Listed(r, Dequeued),
                                                                TRUE, 0, 0))], cr)
        /\ confl' = cr
        /\ pc' = "conflict"
        /\ UNCHANGED <<searchVars, visit>>

NoSymmetryClause ==
    /\ pc = "notified"
    /\ ~Calls!HasClause(injector, "ESBP", Var(Dequeued))
    /\ visit' = [lit |-> Dequeued, bin |-> s.watchesBin.list[Dequeued],
                 ws |-> s.watches.list[Dequeued], kept |-> << >>]
    /\ pc' = "visit"
    /\ UNCHANGED <<searchVars, s, confl, found, cosyVars>>

InConflict(cr) ==
    /\ confl' = cr
    /\ found' = {Not(visit.lit)}
    /\ visit' = NoVisit
    /\ pc' = "conflict"

\* One binary clause of the literal.
VisitBinary ==
    /\ pc = "visit" /\ visit.bin # << >>
    /\ LET w == Head(visit.bin)
           r == PropagateBinary([s |-> s, kept |-> << >>, confl |-> CRefUndef,
                                 returned |-> FALSE], <<w>>)
       IN  /\ s' = r.s
           /\ IF r.returned THEN InConflict(w.cref)
              ELSE visit' = [visit EXCEPT !.bin = Tail(@)] /\ UNCHANGED <<pc, confl, found>>
    /\ UNCHANGED <<searchVars, cosyVars>>

\* One longer clause; after a conflict the other watchers are copied.
VisitLong ==
    /\ pc = "visit" /\ visit.bin = << >> /\ visit.ws # << >>
    /\ LET r == VisitWatcher([s |-> s, kept |-> visit.kept, confl |-> CRefUndef,
                              returned |-> FALSE], visit.lit, Head(visit.ws))
           rest == VisitWatchers(r, visit.lit, Tail(visit.ws))
       IN  IF r.confl = CRefUndef
           THEN /\ s' = r.s
                /\ visit' = [visit EXCEPT !.ws = Tail(@), !.kept = r.kept]
                /\ UNCHANGED <<pc, confl, found>>
           ELSE /\ s' = [rest.s EXCEPT !.watches.list[visit.lit] = rest.kept]
                /\ InConflict(r.confl)
    /\ UNCHANGED <<searchVars, cosyVars>>

VisitDone ==
    /\ pc = "visit" /\ visit.bin = << >> /\ visit.ws = << >>
    /\ s' = [s EXCEPT !.watches.list[visit.lit] = visit.kept]
    /\ visit' = NoVisit
    /\ pc' = "propagate"
    /\ UNCHANGED <<searchVars, confl, found, cosyVars>>

PropagateDone ==
    /\ pc = "propagate"
    /\ s.qhead = Len(s.trail)
    /\ s' = Cleaned
    /\ pc' = "quiet"
    /\ UNCHANGED <<searchVars, confl, visit, found, cosyVars>>

-----------------------------------------------------------------------------
\* search.

RootConflict ==
    /\ pc = "conflict"
    /\ DecisionLevel(s) = 0
    /\ s' = [s EXCEPT !.ok = FALSE]
    /\ status' = "false"
    /\ pc' = "idle"
    /\ confl' = CRefUndef
    /\ conflicts' = conflicts + 1
    /\ UNCHANGED <<userVars, simpDBAssigns, solves, lbdQueue, nbclausesbeforereduce,
                   curRestart, visit, after, found, cosyVars>>

\* The conflict is analyzed, be its clause one of the problem, learnt or
\* made by a status.
AnalyzeConflict ==
    /\ pc = "conflict"
    /\ DecisionLevel(s) > 0
    /\ \E a \in {Analyze(s, confl)} :
          /\ s' = [s EXCEPT !.arena = a.arena]
          /\ after' = [level |-> a.level, lits |-> a.lits, lbd |-> a.lbd,
                       next |-> "propagate"]
    /\ conflicts' = conflicts + 1
    /\ \E blocked \in {b \in BOOLEAN : b => /\ conflicts' > LowerBoundForBlockingRestart
                                            /\ LBDQueueValid} :
          lbdQueue' = Pushed(IF blocked THEN 0 ELSE lbdQueue)
    /\ confl' = CRefUndef
    /\ pc' = "cancel"
    /\ UNCHANGED <<userVars, simpDBAssigns, status, solves, nbclausesbeforereduce,
                   curRestart, visit, found, cosyVars>>

GoBackTo0(next) ==
    IF DecisionLevel(s) > 0
    THEN pc' = "cancel" /\ after' = [NoCancel EXCEPT !.next = next]
    ELSE pc' = next /\ UNCHANGED after

RestartSearch ==
    /\ pc = "quiet"
    /\ LBDQueueValid
    /\ lbdQueue' = 0
    /\ GoBackTo0("propagate")
    /\ UNCHANGED <<userVars, s, confl, simpDBAssigns, status, solves, conflicts,
                   nbclausesbeforereduce, curRestart, visit, found, cosyVars>>

SymmetricBranch ==
    /\ Branch
    /\ UNCHANGED <<leaders, made, root, visit, after, found, cosyVars>>

\* The end of solve_ with a model.
FinishSearch ==
    /\ pc = "finish"
    /\ GoBackTo0("idle")
    /\ UNCHANGED <<userVars, s, confl, simpDBAssigns, status, solves, heuristics, visit,
                   found, cosyVars>>

-----------------------------------------------------------------------------
\* cancelUntil.

SavesPhase(i) == PhaseSaving = 2 \/ (PhaseSaving = 1 /\ i - 1 > s.lim[DecisionLevel(s)])

\* Mutant: the controller does not hear of the literal.
CancelLiteralUntold ==
    /\ pc = "cancel"
    /\ Len(s.trail) > s.lim[after.level + 1]
    /\ s' = [s EXCEPT !.trail = Front(@), !.heap = InsertVarOrder(@, {Var(Last(s.trail))})]
    /\ UNCHANGED <<searchVars, pc, confl, visit, found, cosyVars>>

CancelLiteral ==
    /\ pc = "cancel"
    /\ Len(s.trail) > s.lim[after.level + 1]
    /\ LET l == Last(s.trail)
       IN  /\ Calls!UpdateCancel(l)
           /\ s' = [s EXCEPT !.trail = Front(@), !.heap = InsertVarOrder(@, {Var(l)}),
                             !.polarity[Var(l)] = IF SavesPhase(Len(s.trail)) THEN Sign(l)
                                                                              ELSE @]
    /\ UNCHANGED <<searchVars, pc, confl, visit, found>>

\* Mutant: the queue is put back once the learnt literal is on the trail.
CancelDoneLateQueue ==
    LET t == [s EXCEPT !.qhead = Len(s.trail) + Min({Len(after.lits), 1}),
                       !.lim = SubSeq(@, 1, after.level)]
    IN  /\ pc = "cancel"
        /\ Len(s.trail) = s.lim[after.level + 1]
        /\ s' = IF after.lits = << >> THEN t ELSE LearnClause(t, after.lits, after.lbd)
        /\ pc' = after.next
        /\ after' = NoCancel
        /\ found' = {}
        /\ UNCHANGED <<userVars, confl, simpDBAssigns, status, solves, heuristics, visit,
                       cosyVars>>

\* The queue and the levels, and the learnt clause when it was a conflict.
CancelDone ==
    LET t == [s EXCEPT !.qhead = Len(s.trail), !.lim = SubSeq(@, 1, after.level)]
    IN  /\ pc = "cancel"
        /\ Len(s.trail) = s.lim[after.level + 1]
        /\ s' = IF after.lits = << >> THEN t ELSE LearnClause(t, after.lits, after.lbd)
        /\ pc' = after.next
        /\ after' = NoCancel
        /\ found' = {}
        /\ UNCHANGED <<userVars, confl, simpDBAssigns, status, solves, heuristics, visit,
                       cosyVars>>

\* main returns.
Finished == pc = "idle" /\ (enables = MaxSolves \/ ~s.ok) /\ UNCHANGED allVars

SymmetricNext ==
    \/ Parse \/ MakeController
    \/ SolveStart \/ DrainUnit \/ SearchStart
    \/ Dequeue \/ LearnSymmetryClause \/ NoSymmetryClause
    \/ VisitBinary \/ VisitLong \/ VisitDone \/ PropagateDone
    \/ RootConflict \/ AnalyzeConflict \/ RestartSearch \/ SymmetricBranch \/ FinishSearch
    \/ CancelLiteral \/ CancelDone \/ Finished

SymmetricSpec == SymmetricInit /\ [][SymmetricNext]_allVars

-----------------------------------------------------------------------------
\* Whatever the search resolves, minimizes, reduces and collects once clauses of
\* the statuses are among its own, it loses no model that none of the
\* permutations makes smaller: such a model satisfies all clauses, learnt ones
\* too, and the literals of level 0; and what is left of the problem has no model
\* that the problem has not (analyze, learntSymmetryClause, reduceDB).
ClausesKeepLeaders ==
    /\ \A m \in leaders :
          /\ s.ok /\ Lits0 \subseteq m
          /\ m \in ModelsOf(ClausesOf(s.clauses \union s.learnts))
    /\ s.ok => ModelsOf(ClausesOf(s.clauses) \union {{l} : l \in Lits0}) \subseteq UserModels

\* When propagate returns without a conflict, no clause is false; of the clauses
\* that the statuses did not make none is even unit.  A clause of a status may be:
\* learntSymmetryClause attaches it while all of its literals are false, so that
\* after the search went back it may be watched by one that still is.
NoConflictIsMissed ==
    pc = "quiet" => \A cr \in s.clauses \union s.learnts :
        LET lits == s.arena[cr].lits
            open == {i \in DOMAIN lits : IsUndef(s, lits[i])}
            taught == s.arena[cr].learnt /\ s.arena[cr].lbd = 0
        IN  Satisfied(s, cr) \/ Cardinality(open) > (IF taught THEN 0 ELSE 1)

\* From the moment the controller is made, the search calls it as Glucose does, so
\* that what holds of that module, whatever its clauses are, holds with these: the
\* controller follows the queue, a conflict is of the current level, no reducer is
\* missed.
ImplementsGlucose ==
    [][CASE ~made' -> TRUE
         [] ~made /\ made' -> Calls!GlucoseInit'
         [] OTHER -> Calls!GlucoseNext]_(Calls!glucoseVars)

=============================================================================
