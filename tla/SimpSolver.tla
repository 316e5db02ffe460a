----------------------------- MODULE SimpSolver -----------------------------
(***************************************************************************)
(* The simplifying solver of examples/solvers/glucose-3.0: its user adds   *)
(* clauses, freezes variables, calls eliminate and solve; solve eliminates *)
(* variables, searches as GlucoseCDCL does (without reductions of the      *)
(* database) and extends the model over the eliminated variables.  An      *)
(* interrupt may come between any two turns of the loops that look at it.  *)
(***************************************************************************)
EXTENDS SimpMethods

CONSTANTS Problems,        \* sequences of clauses to be added, one is chosen
          CheckedProblems, \* those that are also tried with use_rcheck
          AssumptionLists, \* the assumptions that solve may be called with
          MayFreeze,       \* the variables that the user may freeze
          Substitutions,   \* the pairs <<v, x>> that substitute may be called with
          MaxCalls,        \* bound on the calls of solve and eliminate
          LateClauses,     \* bound: how many clauses may be added after a call
          InterruptsSubsumption  \* may an interrupt come during the subsumption check

ASSUME SimpSolverAssumption ==
    /\ Problems \subseteq Seq(Seq(Lits)) /\ AssumptionLists \subseteq Seq(Lits)
    /\ MayFreeze \subseteq Vars /\ Substitutions \subseteq Vars \X Lits
    /\ MaxCalls \in Nat /\ LateClauses \in Nat
    /\ InterruptsSubsumption \in BOOLEAN
    /\ Selectors = {}

VARIABLES problem,      \* the clauses of the user
          added,        \* how many of them were passed to addClause
          renamed,      \* the literal that stands for each variable in them now
          s,            \* the solver
          pc,           \* where the thread is
          ret,          \* where backwardSubsumptionCheck returns to
          elim,         \* the variable to be eliminated
          wasFrozen,    \* was_frozen
          turnOff,      \* turn_off_elim
          solving,      \* does solve_ wait for eliminate
          extraFrozen,  \* extra_frozen
          simpDBAssigns,
          interrupted,  \* asynch_interrupt
          status, model, conflict, calls

round == <<ret, elim, wasFrozen, turnOff, solving>>
answer == <<status, model, conflict>>

input == <<problem, useRCheck, incremental>>

vars == <<input, added, renamed, s, pc, round, assumptions, extraFrozen, simpDBAssigns,
          interrupted, answer, calls>>

Init ==
    /\ problem \in Problems
    /\ useRCheck \in {b \in BOOLEAN : b => problem \in CheckedProblems}
    /\ incremental = FALSE
    /\ added = 0
    /\ renamed = [v \in Vars |-> v]
    /\ s = InitialSimpSolver
    /\ pc = "idle" /\ ret = "idle"
    /\ elim = 0 /\ wasFrozen = FALSE /\ turnOff = FALSE /\ solving = FALSE
    /\ assumptions = << >> /\ extraFrozen = {}
    /\ simpDBAssigns = -1
    /\ interrupted = FALSE
    /\ status = "undef" /\ model = {} /\ conflict = {}
    /\ calls = 0

-----------------------------------------------------------------------------
\* What the user calls.

Eliminated(lits) == VarsOf(lits) \intersect s.eliminated # {}

\* A clause over eliminated variables must not be added.
AddClause ==
    /\ pc = "idle"
    /\ added < Len(problem)
    /\ ~Eliminated(problem[added + 1])
    /\ added' = added + 1
    /\ s' = SimpAddClause(s, problem[added + 1])
    /\ UNCHANGED <<input, renamed, pc, round, assumptions, extraFrozen, simpDBAssigns,
                   interrupted, answer, calls>>

\* Bound: frozen before the first call, released after it.
UserFreezes ==
    /\ pc = "idle"
    /\ \E v \in MayFreeze, b \in BOOLEAN :
          /\ b = (calls = 0) /\ (v \in s.frozen) # b
          /\ s' = SetFrozen(s, {v}, b)
    /\ UNCHANGED <<input, added, renamed, pc, round, assumptions, extraFrozen,
                   simpDBAssigns, interrupted, answer, calls>>

Renamed(l) == IF l < 0 THEN Not(renamed[Var(l)]) ELSE renamed[Var(l)]

\* The stored clauses keep the variable: it is replaced before any was stored
\* (bound: before the first call).
UserSubstitutes ==
    /\ pc = "idle"
    /\ s.ok /\ s.useSimp /\ s.elim = << >> /\ calls = 0
    /\ \E pair \in Substitutions :
          LET v == pair[1]
          IN  /\ ~Eliminated(pair) /\ v \notin s.frozen /\ ~Assigned(s, v)
              /\ s' = Substitute(s, v, pair[2])
              /\ renamed' = [renamed EXCEPT ![v] = pair[2]]
    /\ UNCHANGED <<input, added, pc, round, assumptions, extraFrozen, simpDBAssigns,
                   interrupted, answer, calls>>

Called ==
    /\ pc = "idle"
    /\ calls < MaxCalls
    /\ Len(problem) - added <= LateClauses
    /\ calls' = calls + 1

UserEliminate ==
    /\ Called
    /\ solving' = FALSE
    /\ turnOff' \in BOOLEAN
    /\ pc' = "simplify"
    /\ UNCHANGED <<input, added, renamed, s, ret, elim, wasFrozen, assumptions,
                   extraFrozen, simpDBAssigns, interrupted, answer>>

\* solve_: the assumptions are frozen for the time of the call.
Solve ==
    /\ Called
    /\ solving' = TRUE
    /\ turnOff' \in BOOLEAN
    /\ assumptions' \in {a \in AssumptionLists : ~Eliminated(a)}
    /\ \E doSimp \in BOOLEAN :
          IF doSimp /\ s.useSimp
          THEN /\ extraFrozen' = VarsOf(assumptions') \ s.frozen
               /\ s' = SetFrozen(s, extraFrozen', TRUE)
               /\ pc' = "simplify"
          ELSE pc' = "begin" /\ UNCHANGED <<s, extraFrozen>>
    /\ UNCHANGED <<input, added, renamed, ret, elim, wasFrozen, simpDBAssigns,
                   interrupted, answer>>

-----------------------------------------------------------------------------
\* eliminate.

\* What eliminate returns decides what solve_ does next.
Returned(fine) ==
    /\ pc' = IF ~solving THEN "idle" ELSE IF fine THEN "begin" ELSE "finish"
    /\ status' = IF solving /\ ~fine THEN "false" ELSE status

Simplified ==
    /\ pc = "simplify"
    /\ \E allowed \in BOOLEAN, collect \in BOOLEAN :
          LET Collected(t) == IF collect /\ t.wasted > 0 THEN SimpGarbageCollect(t) ELSE t
          IN  \E r \in {SimplifyWith(s, simpDBAssigns, allowed, ~s.useSimp, Collected)} :
              /\ s' = r.s /\ simpDBAssigns' = r.assigns
              /\ IF r.s.ok /\ r.s.useSimp THEN pc' = "loop" /\ UNCHANGED status
                 ELSE Returned(r.s.ok)
    /\ UNCHANGED <<input, added, renamed, round, assumptions, extraFrozen, interrupted,
                   model, conflict, calls>>

\* The head of the main loop.
Loop ==
    /\ pc = "loop"
    /\ IF s.touched = {} /\ s.bwdsub = Len(s.trail) /\ s.elimHeap = {}
       THEN pc' = "cleanup" /\ UNCHANGED <<s, ret>>
       ELSE /\ s' = GatherTouchedClauses(s)
            /\ ret' = "checked"
            /\ pc' = "backward"
    /\ UNCHANGED <<input, added, renamed, elim, wasFrozen, turnOff, solving,
                   assumptions, extraFrozen, simpDBAssigns, interrupted, answer, calls>>

\* An interrupt empties the queue and forgets the literals of level 0 that are to be
\* looked at.
Abandon(t) == [t EXCEPT !.queue = << >>, !.bwdsub = Len(t.trail)]

\* A turn of backwardSubsumptionCheck, or its end.
Backward ==
    /\ pc = "backward"
    /\ IF s.queue = << >> /\ s.bwdsub = Len(s.trail)
       THEN pc' = ret /\ UNCHANGED s
       ELSE IF interrupted THEN s' = Abandon(s) /\ pc' = ret
       ELSE \E r \in {SubsumeNext(s)} :
            /\ s' = [r.s EXCEPT !.ok = @ /\ r.fine]
            /\ pc' = IF r.fine THEN "backward" ELSE "cleanup"
    /\ UNCHANGED <<input, added, renamed, round, assumptions, extraFrozen,
                   simpDBAssigns, interrupted, answer, calls>>

Checked ==
    /\ pc = "checked"
    /\ IF interrupted THEN s' = [s EXCEPT !.elimHeap = {}] /\ pc' = "cleanup"
                      ELSE pc' = "elim" /\ UNCHANGED s
    /\ UNCHANGED <<input, added, renamed, round, assumptions, extraFrozen,
                   simpDBAssigns, interrupted, answer, calls>>

Cost(v) == s.nOcc[MkLit(v, FALSE)] * s.nOcc[MkLit(v, TRUE)]

\* The cheapest variable of the heap; with asymmetric branching it is frozen and
\* its clauses are tried first.
NextVariable ==
    /\ pc = "elim"
    /\ IF s.elimHeap = {} THEN pc' = "loop" /\ UNCHANGED <<s, ret, elim, wasFrozen>>
       ELSE \E v \in {x \in s.elimHeap : \A y \in s.elimHeap : Cost(x) <= Cost(y)} :
            LET t == [s EXCEPT !.elimHeap = @ \ {v}]
                u == Lookup([t EXCEPT !.frozen = @ \union {v}], v)
                skipped == v \in s.eliminated \/ Assigned(s, v)
            IN  IF interrupted THEN s' = t /\ pc' = "loop" /\ UNCHANGED <<ret, elim, wasFrozen>>
                ELSE IF skipped THEN s' = t /\ UNCHANGED <<pc, ret, elim, wasFrozen>>
                ELSE /\ elim' = v /\ wasFrozen' = (v \in s.frozen)
                     /\ IF ~UseAsymm THEN s' = t /\ pc' = "eliminate" /\ UNCHANGED ret
                        ELSE IF u.occs.list[v] = << >>
                        THEN s' = u /\ pc' = "eliminate" /\ UNCHANGED ret
                        ELSE \E r \in {AsymmFrom(u, v, 1)} :
                             /\ s' = [r.s EXCEPT !.ok = @ /\ r.fine]
                             /\ ret' = "eliminate"
                             /\ pc' = IF r.fine THEN "backward" ELSE "cleanup"
    /\ UNCHANGED <<input, added, renamed, turnOff, solving, assumptions, extraFrozen,
                   simpDBAssigns, interrupted, answer, calls>>

Unfrozen(t) == IF UseAsymm /\ ~wasFrozen THEN [t EXCEPT !.frozen = @ \ {elim}] ELSE t

EliminateNext ==
    /\ pc = "eliminate"
    /\ LET t == Unfrozen(s) IN
           IF ~UseElim \/ Assigned(t, elim) \/ elim \in t.frozen
           THEN s' = t /\ pc' = "collect" /\ UNCHANGED ret
           ELSE \E r \in {EliminateVar(t, elim)} :
                /\ s' = [r.s EXCEPT !.ok = @ /\ r.fine]
                /\ ret' = "collect"
                /\ pc' = IF ~r.fine THEN "cleanup" ELSE IF r.done THEN "backward" ELSE "collect"
    /\ UNCHANGED <<input, added, renamed, elim, wasFrozen, turnOff, solving,
                   assumptions, extraFrozen, simpDBAssigns, interrupted, answer, calls>>

Collect ==
    /\ pc = "collect"
    /\ s' \in SimpCheckGarbage(s)
    /\ pc' = "elim"
    /\ elim' = 0 /\ wasFrozen' = FALSE
    /\ UNCHANGED <<input, added, renamed, ret, turnOff, solving, assumptions,
                   extraFrozen, simpDBAssigns, interrupted, answer, calls>>

CleanUp ==
    /\ pc = "cleanup"
    /\ s' \in IF turnOff THEN {TurnOff(s)} ELSE SimpCheckGarbage(CleanUpClauses(s))
    /\ Returned(s.ok)
    /\ UNCHANGED <<input, added, renamed, round, assumptions, extraFrozen,
                   simpDBAssigns, interrupted, model, conflict, calls>>

-----------------------------------------------------------------------------
\* The search.

\* The head of Solver::solve_.
Begin ==
    /\ pc = "begin"
    /\ model' = {} /\ conflict' = {}
    /\ status' = IF s.ok THEN "undef" ELSE "false"
    /\ pc' = IF s.ok THEN "search" ELSE "finish"
    /\ UNCHANGED <<input, added, renamed, s, round, assumptions, extraFrozen,
                   simpDBAssigns, interrupted, calls>>

\* Eliminated variables are no decision variables.  The phases are open; the
\* variables are taken in their order (bound; GlucoseCDCL takes them in any).
Branches(t) ==
    LET free == {v \in Vars : ~Assigned(t, v) /\ v \notin t.eliminated}
    IN  {l \in Lits : Var(l) \in free /\ \A v \in free : Var(l) <= v}

LearnFrom(t, cr) ==
    LET learnt(a) == LearnClause(CancelUntil([t EXCEPT !.arena = a.arena], a.level),
                                 a.lits, a.lbd)
    IN  learnt(Analyze(t, cr))

\* A turn of search: propagate, then learn from a conflict or decide.
Search ==
    /\ pc = "search"
    /\ \E r \in {Propagate(s)} :
           IF r.confl # CRefUndef
           THEN IF DecisionLevel(r.s) = 0
                THEN s' = r.s /\ status' = "false" /\ pc' = "finish" /\ UNCHANGED conflict
                ELSE s' = LearnFrom(r.s, r.confl) /\ UNCHANGED <<status, pc, conflict>>
           ELSE \E a \in {TakeAssumptions(r.s)} :
                \/ /\ a.kind = "failed"
                   /\ conflict' = AnalyzeFinal(a.s, Not(a.lit))
                   /\ s' = a.s /\ status' = "false" /\ pc' = "finish"
                \/ /\ a.kind = "assume"
                   /\ s' = Decide(a.s, a.lit) /\ UNCHANGED <<status, pc, conflict>>
                \/ /\ a.kind = "free" /\ Branches(a.s) # {}
                   /\ \E l \in Branches(a.s) : s' = Decide(a.s, l)
                   /\ UNCHANGED <<status, pc, conflict>>
                \/ /\ a.kind = "free" /\ Branches(a.s) = {}
                   /\ s' = a.s /\ status' = "true" /\ pc' = "finish" /\ UNCHANGED conflict
                \/ /\ interrupted
                   /\ s' = r.s /\ pc' = "finish" /\ UNCHANGED <<status, conflict>>
    /\ UNCHANGED <<input, added, renamed, round, assumptions, extraFrozen,
                   simpDBAssigns, interrupted, model, calls>>

\* search simplifies when it comes to level 0.
SearchSimplifies ==
    /\ pc = "search" /\ DecisionLevel(s) = 0
    /\ \E collect \in BOOLEAN :
          LET Collected(t) == IF collect /\ t.wasted > 0 THEN SimpGarbageCollect(t) ELSE t
          IN  \E r \in {SimplifyWith(s, simpDBAssigns, TRUE, ~s.useSimp, Collected)} :
              /\ r.assigns # simpDBAssigns
              /\ s' = r.s /\ simpDBAssigns' = r.assigns
    /\ UNCHANGED <<input, added, renamed, pc, round, assumptions, extraFrozen,
                   interrupted, answer, calls>>

\* The end of Solver::solve_ and of SimpSolver::solve_.
Finish ==
    /\ pc = "finish"
    /\ pc' = "idle"
    /\ model' = IF status = "true" THEN ExtendModel(ToSet(s.trail), s.elim) ELSE model
    /\ LET t == CancelUntil(s, 0)
           u == [t EXCEPT !.ok = @ /\ ~(status = "false" /\ conflict = {})]
       IN  s' = SetFrozen(u, extraFrozen, FALSE)
    /\ extraFrozen' = {}
    /\ UNCHANGED <<input, added, renamed, round, assumptions, simpDBAssigns,
                   interrupted, status, conflict, calls>>

\* Bound: not during the last call.
Interrupt ==
    /\ pc # "idle" /\ calls < MaxCalls /\ (pc = "backward" => InterruptsSubsumption)
    /\ ~interrupted
    /\ interrupted' = TRUE
    /\ UNCHANGED <<input, added, renamed, s, pc, round, assumptions, extraFrozen,
                   simpDBAssigns, answer, calls>>

ClearInterrupt ==
    /\ pc = "idle"
    /\ interrupted
    /\ interrupted' = FALSE
    /\ UNCHANGED <<input, added, renamed, s, pc, round, assumptions, extraFrozen,
                   simpDBAssigns, answer, calls>>

Next == \/ AddClause \/ UserFreezes \/ UserSubstitutes \/ UserEliminate \/ Solve \/ Simplified \/ Loop
        \/ Backward \/ Checked \/ NextVariable \/ EliminateNext \/ Collect \/ CleanUp
        \/ Begin \/ Search \/ SearchSimplifies \/ Finish \/ Interrupt \/ ClearInterrupt

Spec == Init /\ [][Next]_vars

-----------------------------------------------------------------------------
\* Properties.

\* Type invariant: every reference is to a clause of the arena, and outside of a
\* search the solver is at level 0.
TypeOK ==
    /\ added \in 0 .. Len(problem)
    /\ s.clauses \union s.learnts \union ToSet(s.queue) \subseteq DOMAIN s.arena
    /\ \A v \in Vars : ToSet(s.occs.list[v]) \subseteq DOMAIN s.arena
    /\ s.useSimp => s.tmpunit \in DOMAIN s.arena
    /\ \A cr \in s.clauses \union s.learnts :
          s.arena[cr].mark = 0 /\ Len(s.arena[cr].lits) > 1
    /\ s.nOcc \in [Lits -> Nat]
    /\ s.touched \union s.elimHeap \union s.frozen \union s.eliminated \subseteq Vars
    /\ s.bwdsub \in 0 .. Len(s.trail)
    /\ IsInjective([i \in DOMAIN s.trail |-> Var(s.trail[i])])
    /\ pc \notin {"search", "finish"} => s.lim = << >>
    /\ pc \in {"idle", "simplify", "loop", "backward", "checked", "elim", "eliminate",
               "collect", "cleanup", "begin", "search", "finish"}
    /\ status \in {"undef", "true", "false"}

Assignments == {{MkLit(v, v \in neg) : v \in Vars} : neg \in SUBSET Vars}

ModelsOf(clauses) == {m \in Assignments : \A c \in clauses : c \intersect m # {}}

UserClauses == {{Renamed(l) : l \in ToSet(problem[i])} : i \in 1 .. added}

Lits0 == {s.trail[i] : i \in {j \in DOMAIN s.trail : DecisionLevel(s) = 0 \/ j <= s.lim[1]}}

ClausesOf(crefs) == {ToSet(s.arena[cr].lits) : cr \in crefs}

Projected(models) == {{l \in m : Var(l) \notin s.eliminated} : m \in models}

\* Over subsumption, strengthening, asymmetric branching, elimination, collection
\* and interrupts in between, the clauses have on the variables that are left the
\* models of the user's clauses, and those that are learnt do not exclude any
\* (eliminateVar, strengthenClause, backwardSubsumptionCheck).
EliminationKeepsModels ==
    LET units == {{l} : l \in Lits0}
        of(crefs) == Projected(ModelsOf(ClausesOf(crefs) \union units))
    IN  IF s.ok THEN /\ of(s.clauses) = Projected(ModelsOf(UserClauses))
                     /\ of(s.clauses \union s.learnts) = of(s.clauses)
                ELSE ModelsOf(UserClauses) = {}

\* As long as simplification is on, each clause is in the lists of its variables
\* once and nowhere else, the removed ones only in lists that will be cleaned, the
\* counts are right, and unless a contradiction was met no clause has an
\* eliminated variable (removeClause, strengthenClause, eliminateVar).  The types
\* are right.
OccurrencesMatch ==
    /\ TypeOK
    /\ s.ok => \A cr \in s.clauses : ~Eliminated(s.arena[cr].lits)
    /\ s.useSimp =>
        /\ \A v \in Vars : \A i \in DOMAIN s.occs.list[v] :
              s.arena[s.occs.list[v][i]].mark = 1 => v \in s.occs.dirty
        /\ \A v \in Vars : LET live == Live(s, s.occs.list[v]) IN
              /\ IsInjective(live)
              /\ ToSet(live) = {cr \in s.clauses : v \in VarsOf(s.arena[cr].lits)}
        /\ \A l \in Lits :
              s.nOcc[l] = Cardinality({cr \in s.clauses : l \in ToSet(s.arena[cr].lits)})

\* When the search begins every clause is satisfied or watched by two literals
\* that are not false, or it will never be propagated (strengthenClause,
\* backwardSubsumptionCheck).
WatchesAreReady ==
    pc = "begin" /\ s.ok /\ s.qhead = Len(s.trail) =>
        \A cr \in s.clauses \union s.learnts :
            \/ Satisfied(s, cr)
            \/ ~IsFalse(s, s.arena[cr].lits[1]) /\ ~IsFalse(s, s.arena[cr].lits[2])

\* What solve answers is right for the user's clauses: the extended model is a
\* model of all of them and of the assumptions, and FALSE means that there is none
\* (extendModel, solve_).
AnswersAreRight ==
    [][pc = "finish" /\ pc' = "idle" =>
        /\ status = "true" =>
              /\ \A l \in model' : Not(l) \notin model'
              /\ ToSet(assumptions) \subseteq model'
              /\ \A c \in UserClauses : c \intersect model' # {}
        /\ status = "false" => \A m \in ModelsOf(UserClauses) : ~(ToSet(assumptions) \subseteq m)
      ]_vars

=============================================================================
