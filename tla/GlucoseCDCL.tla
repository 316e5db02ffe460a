----------------------------- MODULE GlucoseCDCL -----------------------------
(***************************************************************************)
(* The search of examples/solvers/glucose-3.0/core/Solver.cc without a     *)
(* symmetry controller (Glucose models the two together): clauses are      *)
(* added, simplify and solve are called, possibly several times and under  *)
(* assumptions, and an interrupt may come at any time but is looked at     *)
(* only when a search returns.                                             *)
(*                                                                         *)
(* The heuristics are open: activities, the averages that trigger or block *)
(* a restart, the allowance of simplify.                                   *)
(***************************************************************************)
EXTENDS GlucoseSolver

CONSTANTS Problems,        \* sequences of clauses to be added, one is chosen
          AssumptionLists, \* the assumptions that solve may be called with
          SizeLBDQueue,    \* szLBDQueue
          LowerBoundForBlockingRestart,
          FirstReduceDB, IncReduceDB, SpecialIncReduceDB,
          MaxSolves,       \* bound on the calls of solve
          LateClauses      \* bound: how many of them may be added after a solve or simplify

ASSUME GlucoseCDCLAssumption ==
    /\ Problems \subseteq Seq(Seq(Lits))
    /\ AssumptionLists \subseteq Seq(Lits)
    /\ {SizeLBDQueue, FirstReduceDB, MaxSolves} \subseteq Nat \ {0}
    /\ {LateClauses, LowerBoundForBlockingRestart, IncReduceDB, SpecialIncReduceDB} \subseteq Nat

VARIABLES problem,      \* the clauses of the user
          added,        \* how many of them were passed to addClause
          s,            \* the solver
          pc,           \* where the thread is
          confl,        \* what propagate returned
          conflicts, simpDBAssigns,
          lbdQueue,     \* how many LBDs the queue holds
          nbclausesbeforereduce, curRestart,
          interrupted,  \* asynch_interrupt
          status, conflict, solves

heuristics == <<conflicts, lbdQueue, nbclausesbeforereduce, curRestart>>

vars == <<problem, added, incremental, s, pc, confl, assumptions, simpDBAssigns,
          interrupted, status, conflict, solves, heuristics>>

-----------------------------------------------------------------------------
\* Reducing the clause database.

\* Long clauses come first, of those the ones with the larger LBD.
ReduceDBLt(c, d) ==
    \/ Len(c.lits) > 2 /\ Len(d.lits) = 2
    \/ Len(c.lits) > 2 /\ Len(d.lits) > 2 /\ c.lbd > d.lbd

RECURSIVE SortedLearnts(_, _)
SortedLearnts(t, crefs) ==
    IF crefs = {} THEN {<< >>}
    ELSE UNION {{<<x>> \o rest : rest \in SortedLearnts(t, crefs \ {x})} :
                  x \in {y \in crefs : \A z \in crefs : ~ReduceDBLt(t.arena[z], t.arena[y])}}

\* Glue clauses, binary clauses, protected clauses and reasons are kept.
Deletable(t, cr) ==
    LET c == t.arena[cr] IN c.lbd > 2 /\ Len(c.lits) > 2 /\ c.canBeDel /\ ~Locked(t, cr)

\* The clauses from the i-th on that go: each protected one makes the part that
\* may be deleted longer.
RECURSIVE Deleted(_, _, _, _)
Deleted(t, order, i, limit) ==
    IF i > Len(order) THEN {}
    ELSE IF Deletable(t, order[i]) /\ i <= limit
    THEN {order[i]} \union Deleted(t, order, i + 1, limit)
    ELSE Deleted(t, order, i + 1, IF t.arena[order[i]].canBeDel THEN limit ELSE limit + 1)

\* How much later the next reduction is for good clauses.  Without learnt
\* clauses the code reads past the end of the vector.
Postponed(t, order) ==
    IF order = << >> THEN {0, SpecialIncReduceDB, 2 * SpecialIncReduceDB}
    ELSE {(IF t.arena[order[Len(order) \div 2 + 1]].lbd <= 3 THEN SpecialIncReduceDB ELSE 0) +
          (IF t.arena[order[Len(order)]].lbd <= 5 THEN SpecialIncReduceDB ELSE 0)}

ReduceDB(t) ==
    UNION {LET gone == Deleted(t, order, 1, Len(order) \div 2)
               kept == [t EXCEPT !.arena = [cr \in DOMAIN @ |->
                            IF cr \in t.learnts \ gone THEN [@[cr] EXCEPT !.canBeDel = TRUE]
                                                       ELSE @[cr]]]
           IN  {[s |-> CheckGarbage(RemoveClauses(kept, gone)), later |-> n] :
                    n \in Postponed(t, order)} :
           order \in SortedLearnts(t, t.learnts)}

-----------------------------------------------------------------------------
\* Branching.

\* Assigned variables are dropped from the heap until one is free; a random
\* decision leaves its variable in the heap.
PickBranchLit(t) ==
    LET free   == {v \in t.heap : ~Assigned(t, v)}
        passed == t.heap \ free
    IN  IF free = {} THEN {[heap |-> {}, lit |-> 0]}
        ELSE {[heap |-> t.heap \ gone, lit |-> MkLit(v, t.polarity[v])] : <<v, gone>> \in
                 UNION {{<<x, {}>>} \union {<<x, g \union {x}>> : g \in SUBSET passed} :
                        x \in free}}

-----------------------------------------------------------------------------
\* Writing the problem in DIMACS format; the renaming of the variables by mapVar
\* is left out.  The units are the assumptions of the last call of solve: the list
\* that toDimacs is given is not looked at.

\* Mutant: a literal that is false at level 0 is written.
WrittenAsStored(t, cr) == ToSet(t.arena[cr].lits)

Written(t, cr) == {l \in ToSet(t.arena[cr].lits) : ~IsFalse(t, l)}

ToDimacs(t) ==
    IF ~t.ok THEN {{1}, {-1}}
    ELSE {{assumptions[i]} : i \in DOMAIN assumptions} \union
         {Written(t, cr) : cr \in {x \in t.clauses : ~ClauseSatisfied(t, x)}}

-----------------------------------------------------------------------------
\* The program.

Init ==
    /\ problem \in Problems
    /\ incremental \in {b \in BOOLEAN : b => Selectors # {}}
    /\ added = 0
    /\ s = EmptySolver
    /\ pc = "idle"
    /\ confl = CRefUndef
    /\ assumptions = << >>
    /\ conflicts = 0 /\ lbdQueue = 0 /\ curRestart = 1
    /\ nbclausesbeforereduce = FirstReduceDB
    /\ simpDBAssigns = -1
    /\ interrupted = FALSE
    /\ status = "undef" /\ conflict = {}
    /\ solves = 0

AddClause ==
    /\ pc = "idle"
    /\ added < Len(problem)
    /\ added' = added + 1
    /\ s' = AddClause_(s, problem[added + 1])
    /\ UNCHANGED <<problem, incremental, pc, confl, assumptions, simpDBAssigns, interrupted,
                   status, conflict, solves, heuristics>>

UserSimplify ==
    /\ pc = "idle"
    /\ Len(problem) - added <= LateClauses
    /\ \E allowed \in BOOLEAN : \E r \in {Simplify(s, simpDBAssigns, allowed, TRUE)} :
          s' = r.s /\ simpDBAssigns' = r.assigns
    /\ UNCHANGED <<problem, added, incremental, pc, confl, assumptions, interrupted,
                   status, conflict, solves, heuristics>>

Solve ==
    /\ pc = "idle"
    /\ solves < MaxSolves
    /\ Len(problem) - added <= LateClauses
    /\ solves' = solves + 1
    /\ assumptions' \in AssumptionLists
    /\ conflict' = {}
    /\ status' = IF s.ok THEN "undef" ELSE "false"
    /\ pc' = IF s.ok THEN "propagate" ELSE "idle"
    /\ UNCHANGED <<problem, added, incremental, s, confl, simpDBAssigns, interrupted,
                   heuristics>>

\* The head of the loop of search.
PropagateAll ==
    /\ pc = "propagate"
    /\ \E r \in {Propagate(s)} :
           /\ s' = r.s
           /\ confl' = r.confl
           /\ pc' = IF r.confl = CRefUndef THEN "quiet" ELSE "conflict"
    /\ UNCHANGED <<problem, added, incremental, assumptions, simpDBAssigns, interrupted,
                   status, conflict, solves, heuristics>>

LBDQueueValid == lbdQueue = SizeLBDQueue

Pushed(n) == IF n = SizeLBDQueue THEN n ELSE n + 1

Conflict ==
    /\ pc = "conflict"
    /\ conflicts' = conflicts + 1
    /\ IF DecisionLevel(s) = 0
       THEN /\ status' = "false"
            /\ pc' = "finish"
            /\ UNCHANGED <<s, lbdQueue>>
       ELSE /\ \E a \in {Analyze(s, confl)} :
                  s' = LearnClause(CancelUntil([s EXCEPT !.arena = a.arena], a.level),
                                   a.lits, a.lbd)
            /\ \E blocked \in {b \in BOOLEAN : b => /\ conflicts' > LowerBoundForBlockingRestart
                                                    /\ LBDQueueValid} :
                  lbdQueue' = Pushed(IF blocked THEN 0 ELSE lbdQueue)
            /\ pc' = "propagate"
            /\ UNCHANGED status
    /\ confl' = CRefUndef
    /\ UNCHANGED <<problem, added, incremental, assumptions, simpDBAssigns, interrupted,
                   conflict, solves, nbclausesbeforereduce, curRestart>>

\* search returns l_Undef when the last clauses were worse than the average;
\* solve_ goes on with the next search or gives up.
Restart ==
    /\ pc = "quiet"
    /\ LBDQueueValid
    /\ lbdQueue' = 0
    /\ s' = CancelUntil(s, IF incremental THEN Len(assumptions) ELSE 0)
    /\ pc' = IF interrupted THEN "finish" ELSE "propagate"
    /\ UNCHANGED <<problem, added, incremental, confl, assumptions, simpDBAssigns, interrupted,
                   status, conflict, solves, conflicts, nbclausesbeforereduce, curRestart>>

\* The clause database is reduced when enough conflicts were met.
ReduceWhenDue(t) ==
    IF conflicts >= curRestart * nbclausesbeforereduce
    THEN {[s |-> r.s, before |-> nbclausesbeforereduce + r.later + IncReduceDB,
           restart |-> conflicts \div nbclausesbeforereduce + 1] : r \in ReduceDB(t)}
    ELSE {[s |-> t, before |-> nbclausesbeforereduce, restart |-> curRestart]}

\* Simplify at level 0, reduce, take the assumptions, decide.
Branch ==
    /\ pc = "quiet"
    /\ \E allowed \in BOOLEAN :
         \E simplified \in {IF DecisionLevel(s) = 0
                              THEN Simplify(s, simpDBAssigns, allowed, TRUE)
                              ELSE [s |-> s, assigns |-> simpDBAssigns]} :
             /\ simpDBAssigns' = simplified.assigns
             /\ \E reduced \in ReduceWhenDue(simplified.s) :
                  \E a \in {TakeAssumptions(reduced.s)} :
                      /\ nbclausesbeforereduce' = reduced.before
                      /\ curRestart' = reduced.restart
                      /\ \/ /\ a.kind = "failed"
                            /\ conflict' = AnalyzeFinal(a.s, Not(a.lit))
                            /\ status' = "false" /\ pc' = "finish"
                            /\ s' = a.s
                         \/ /\ a.kind = "assume"
                            /\ s' = Decide(a.s, a.lit) /\ pc' = "propagate"
                            /\ UNCHANGED <<conflict, status>>
                         \/ /\ a.kind = "free"
                            /\ \E pick \in PickBranchLit(a.s) :
                                 LET u == [a.s EXCEPT !.heap = pick.heap]
                                 IN  IF pick.lit = 0
                                     THEN s' = u /\ status' = "true" /\ pc' = "finish"
                                     ELSE /\ s' = Decide(u, pick.lit) /\ pc' = "propagate"
                                          /\ UNCHANGED status
                            /\ UNCHANGED conflict
    /\ UNCHANGED <<problem, added, incremental, confl, assumptions, interrupted, solves,
                   conflicts, lbdQueue>>

\* The end of solve_.
Finish ==
    /\ pc = "finish"
    /\ pc' = "idle"
    /\ s' = [CancelUntil(s, 0) EXCEPT !.ok = @ /\ ~(status = "false" /\ conflict = {})]
    /\ UNCHANGED <<problem, added, incremental, confl, assumptions, simpDBAssigns, interrupted,
                   status, conflict, solves, heuristics>>

\* interrupt() may be called from a signal handler or another thread.
Interrupt ==
    /\ pc # "idle"
    /\ ~interrupted
    /\ interrupted' = TRUE
    /\ UNCHANGED <<problem, added, incremental, s, pc, confl, assumptions, simpDBAssigns,
                   status, conflict, solves, heuristics>>

ClearInterrupt ==
    /\ pc = "idle"
    /\ interrupted
    /\ interrupted' = FALSE
    /\ UNCHANGED <<problem, added, incremental, s, pc, confl, assumptions, simpDBAssigns,
                   status, conflict, solves, heuristics>>

Next == \/ AddClause \/ UserSimplify \/ Solve \/ PropagateAll \/ Conflict \/ Restart
        \/ Branch \/ Finish \/ Interrupt \/ ClearInterrupt

Spec == Init /\ [][Next]_vars

-----------------------------------------------------------------------------
\* Properties.

\* Type invariant: the tables refer to clauses that exist, the trail is
\* consistent, the levels lie on it and binary clauses are watched apart.
TypeOK ==
    /\ added \in 0 .. Len(problem)
    /\ s.clauses \union s.learnts \subseteq DOMAIN s.arena
    /\ s.clauses \intersect s.learnts = {}
    /\ \A cr \in DOMAIN s.arena :
         /\ s.arena[cr].lits \in Seq(Lits) /\ Len(s.arena[cr].lits) >= 2
         /\ s.arena[cr].lbd \in 0 .. NumVars /\ s.arena[cr].size \in 0 .. NumVars
    /\ \A l \in Lits :
         /\ \A i \in DOMAIN s.watches.list[l] :
                Len(s.arena[s.watches.list[l][i].cref].lits) > 2
         /\ \A i \in DOMAIN s.watchesBin.list[l] :
                Len(s.arena[s.watchesBin.list[l][i].cref].lits) = 2
    /\ s.trail \in Seq(Lits) /\ IsInjective([i \in DOMAIN s.trail |-> Var(s.trail[i])])
    /\ \A k \in DOMAIN s.lim : s.lim[k] \in 0 .. Len(s.trail)
    /\ \A j, k \in DOMAIN s.lim : j < k => s.lim[j] <= s.lim[k]
    /\ s.qhead \in 0 .. Len(s.trail)
    /\ s.reason \in [Vars -> Nat]
    /\ s.heap \subseteq Vars /\ s.polarity \in [Vars -> BOOLEAN]
    /\ pc \in {"idle", "propagate", "conflict", "quiet", "finish"}
    /\ lbdQueue \in 0 .. SizeLBDQueue
    /\ interrupted \in BOOLEAN

Assignments == {{MkLit(v, v \in neg) : v \in Vars} : neg \in SUBSET Vars}

ModelsOf(clauses) == {m \in Assignments : \A c \in clauses : c \intersect m # {}}

UserModels == ModelsOf({ToSet(problem[i]) : i \in 1 .. added})

Lits0 == {s.trail[i] : i \in {j \in DOMAIN s.trail : DecisionLevel(s) = 0 \/ j <= s.lim[1]}}

ClausesOf(crefs) == {ToSet(s.arena[cr].lits) : cr \in crefs}

\* Over resolution, both minimizations, simplification, reduction and garbage
\* collection every learnt clause is implied, and the problem clauses that are
\* left have, with the literals of level 0, the models of the user's clauses
\* (analyze, minimisationWithBinaryResolution, removeSatisfied, reduceDB).
ClausesKeepModels ==
    /\ \A m \in UserModels : s.ok /\ m \in ModelsOf(ClausesOf(s.learnts))
    /\ s.ok => UserModels = ModelsOf(ClausesOf(s.clauses) \union {{l} : l \in Lits0})

\* When propagate returns without a conflict every clause is satisfied or has
\* two unassigned literals, although only watchers were visited and the watches
\* of incremental mode avoid selectors (propagate, analyze, garbageCollect).
PropagationIsComplete ==
    pc = "quiet" => \A cr \in s.clauses \union s.learnts :
        \/ Satisfied(s, cr)
        \/ Cardinality({i \in DOMAIN s.arena[cr].lits : IsUndef(s, s.arena[cr].lits[i])}) > 1

\* Above level 0 a reason is a clause that was not removed and whose other
\* literals were false before; the implied literal is the first, or either of a
\* binary clause.  At level 0 a reason is at least a clause of the arena that
\* holds the literal (removeClause, relocAll, reduceDB).  The types are right.
ReasonsImply ==
    TypeOK /\ \A i \in DOMAIN s.trail :
        LET l    == s.trail[i]
            cr   == s.reason[Var(l)]
            lits == s.arena[cr].lits
        IN  cr # CRefUndef =>
              /\ cr \in DOMAIN s.arena /\ l \in ToSet(lits)
              /\ LevelOf(s, Var(l)) > 0 =>
                    /\ cr \in s.clauses \union s.learnts /\ s.arena[cr].mark = 0
                    /\ lits[1] = l \/ Len(lits) = 2
                    /\ \A x \in ToSet(lits) \ {l} : \E j \in 1 .. i - 1 : s.trail[j] = Not(x)

\* The answer of solve, whatever was interrupted before: a model assigns every
\* variable and satisfies the clauses and the assumptions; a conflict is a clause
\* over negated assumptions that every model satisfies, and without one there is
\* no model (solve_, pickBranchLit, analyzeFinal).
AnswersAreRight ==
    /\ pc = "finish" /\ status = "true" =>
          ToSet(s.trail) \in UserModels /\ ToSet(assumptions) \subseteq ToSet(s.trail)
    /\ pc \in {"finish", "idle"} /\ status = "false" =>
          /\ conflict \subseteq {Not(assumptions[i]) : i \in DOMAIN assumptions}
          /\ \A m \in UserModels : conflict \intersect m # {}

\* Between two calls the problem that is written has a model if and only if the
\* user's clauses have one under the assumptions of the last call of solve, though
\* neither level 0 nor a satisfied clause is written.  That none of them is false
\* at level 0 is asserted (toDimacs).
DimacsIsEquisatisfiable ==
    pc = "idle" /\ (\A i \in DOMAIN assumptions : ~IsFalse(s, assumptions[i])) =>
        (ModelsOf(ToDimacs(s)) = {})
            <=> (\A m \in UserModels : ~(ToSet(assumptions) \subseteq m))

=============================================================================
