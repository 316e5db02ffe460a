------------------------------- MODULE Minisat -------------------------------
(***************************************************************************)
(* The CDCL solver of examples/solvers/minisat/core/Solver.cc without a    *)
(* symmetry controller: clauses are added, simplify and solve are called,  *)
(* possibly several times and under assumptions, and an interrupt may come *)
(* at any time.                                                            *)
(*                                                                         *)
(* Propagation, conflict analysis, clause deletion and garbage collection  *)
(* are those of the code, clause by clause and watcher by watcher.  The    *)
(* heuristics are open: which variable of the heap is next, which of the   *)
(* learnt clauses are the least active, whether simplify finds its         *)
(* propagation allowance (simpDB_props) spent.                             *)
(***************************************************************************)
EXTENDS SolverTypes

CONSTANTS Problems,        \* sequences of clauses to be added, one is chosen
          AssumptionLists, \* the assumptions that solve may be called with
          CcminMode,       \* ccmin_mode: 0, 1 or 2
          RestartFirst,    \* restart_first
          ConflictBudget,  \* setConfBudget before each solve
          LearntDivisor,   \* 1 / learntsize_factor
          GarbageDivisor,  \* 1 / garbage_frac
          MaxSolves,       \* bound on the calls of solve
          LateClauses      \* bound: how many of them may be added after a solve or simplify

ASSUME MinisatAssumption ==
    /\ Problems \subseteq Seq(Seq(Lits))
    /\ AssumptionLists \subseteq Seq(Lits)
    /\ CcminMode \in 0 .. 2
    /\ {RestartFirst, ConflictBudget, LearntDivisor, GarbageDivisor, MaxSolves}
         \subseteq Nat \ {0}
    /\ LateClauses \in Nat

VARIABLES problem,      \* the clauses of the user
          added,        \* how many of them were passed to addClause
          s,            \* the solver, see SolverTypes
          pc,           \* where the thread is
          confl,        \* what propagate returned
          assumptions, conflictC, currRestarts, conflicts, simpDBAssigns,
          interrupted,  \* asynch_interrupt
          status, model, conflict,   \* the last answer
          solves

vars == <<problem, added, s, pc, confl, assumptions, conflictC, currRestarts,
          conflicts, simpDBAssigns, interrupted, status, model, conflict, solves>>

-----------------------------------------------------------------------------
\* Attaching and removing clauses.

AttachClause(t, cr) ==
    LET c == t.arena[cr].lits
    IN  [t EXCEPT !.watches = Push(Push(@, Not(c[1]), [cref |-> cr, blocker |-> c[2]]),
                                   Not(c[2]), [cref |-> cr, blocker |-> c[1]])]

Locked(t, cr) ==
    LET first == t.arena[cr].lits[1]
    IN  IsTrue(t, first) /\ t.reason[Var(first)] = cr

\* Mutant: the lists of the watchers are not marked for cleaning.
NotSmudged(t, crefs) == t.watches.dirty

\* Lazy detaching: the lists of the two watchers are cleaned later.
Smudged(t, crefs) ==
    t.watches.dirty \union {Not(t.arena[cr].lits[i]) : cr \in crefs, i \in {1, 2}}

\* removeClause for each of a set of clauses; no reason is left that points to
\* freed memory.
RemoveClauses(t, crefs) ==
    [t EXCEPT
        !.watches.dirty = Smudged(t, crefs),
        !.reason = [v \in Vars |-> IF \E cr \in crefs : /\ Var(t.arena[cr].lits[1]) = v
                                                        /\ Locked(t, cr)
                                   THEN CRefUndef ELSE @[v]],
        !.arena = [cr \in DOMAIN @ |-> IF cr \in crefs THEN Free(@, cr)[cr] ELSE @[cr]],
        !.clauses = @ \ crefs,
        !.learnts = @ \ crefs]

RemoveSatisfied(t, crefs) == RemoveClauses(t, {cr \in crefs : Satisfied(t, cr)})

\* Watchers of cleaned lists first, then the reasons on the trail, then the
\* learnt and the problem clauses.
RelocAll(t) ==
    LET watches  == CleanAll(t.watches, t.arena)
        watchers == FlattenSeq([k \in DOMAIN LitOrder |->
                        [i \in DOMAIN watches.list[LitOrder[k]] |->
                            watches.list[LitOrder[k]][i].cref]])
        moves(r) == r # CRefUndef /\ (r \in ToSet(watchers) \/ Locked(t, r))
        reasons  == SelectSeq([i \in DOMAIN t.trail |-> t.reason[Var(t.trail[i])]], moves)
        all(refs) == SelectSeq([cr \in DOMAIN t.arena |-> cr], LAMBDA cr : cr \in refs)
        visits   == FirstVisits(watchers \o reasons \o all(t.learnts) \o all(t.clauses))
        to(cr)   == Forwarded(visits, cr)
    IN  [t EXCEPT
            !.arena = Relocated(@, visits),
            !.watches = [list |-> [l \in Lits |-> [i \in DOMAIN watches.list[l] |->
                                    [watches.list[l][i] EXCEPT !.cref = to(@)]]],
                         dirty |-> {}],
            !.reason = [v \in Vars |-> IF Assigned(t, v) /\ moves(@[v]) THEN to(@[v]) ELSE @[v]],
            !.learnts = {to(cr) : cr \in @},
            !.clauses = {to(cr) : cr \in @}]

GarbageCollect(t) == RelocAll(t)

CheckGarbage(t) ==
    IF Wasted(t.arena) * GarbageDivisor > ArenaSize(t.arena) THEN GarbageCollect(t) ELSE t

-----------------------------------------------------------------------------
\* Unit propagation.

Flip(lits, i, j) == [lits EXCEPT ![i] = lits[j], ![j] = lits[i]]

\* The clause need not be looked at: its blocker is true, or there is a conflict
\* already and the rest of the list is only copied.
Skips(st, w) == st.confl # CRefUndef \/ IsTrue(st.s, w.blocker)

\* One turn of the loop over the watchers of p.  st.kept is what is copied back
\* to the list, st.confl the conflict found, after which the rest is copied.
VisitWatcher(st, p, w) ==
    LET t        == st.s
        stored   == t.arena[w.cref].lits
        lits     == IF stored[1] = Not(p) THEN Flip(stored, 1, 2) ELSE stored
        first    == lits[1]
        ordered  == [t EXCEPT !.arena[w.cref].lits = lits]
        new      == {k \in 3 .. Len(lits) : ~IsFalse(t, lits[k])}
        keep(x)  == Append(st.kept, x)
        w1       == [w EXCEPT !.blocker = first]
    IN  IF Skips(st, w)
        THEN [st EXCEPT !.kept = keep(w)]
        ELSE IF IsTrue(t, first)
        THEN [st EXCEPT !.s = ordered, !.kept = keep(w1)]
        ELSE IF new # {}
        THEN LET k == CHOOSE i \in new : \A j \in new : i <= j
             IN  [st EXCEPT !.s = [ordered EXCEPT
                                     !.arena[w.cref].lits = Flip(lits, 2, k),
                                     !.watches = Push(@, Not(lits[k]), w1)]]
        ELSE IF IsFalse(t, first)
        THEN [s |-> [ordered EXCEPT !.qhead = Len(t.trail)],
              kept |-> keep(w1), confl |-> w.cref]
        ELSE [st EXCEPT !.s = UncheckedEnqueue(ordered, first, w.cref), !.kept = keep(w1)]

RECURSIVE VisitWatchers(_, _, _)
VisitWatchers(st, p, ws) ==
    IF ws = << >> THEN st
    ELSE VisitWatchers(VisitWatcher(st, p, Head(ws)), p, Tail(ws))

RECURSIVE DrainQueue(_)
DrainQueue(st) ==
    IF st.s.qhead = Len(st.s.trail) THEN st
    ELSE LET p   == st.s.trail[st.s.qhead + 1]
             st1 == [st EXCEPT !.s.qhead = @ + 1, !.kept = << >>]
             st2 == VisitWatchers(st1, p, st.s.watches.list[p])
         IN  DrainQueue([st2 EXCEPT !.s.watches.list[p] = st2.kept])

\* The solver after propagation, and the clause in conflict if there is one.
Propagate(t) ==
    DrainQueue([s |-> [t EXCEPT !.watches = CleanAll(@, t.arena)],
                kept |-> << >>, confl |-> CRefUndef])

CancelUntil(t, level) ==
    IF DecisionLevel(t) <= level THEN t
    ELSE LET keep == t.lim[level + 1]
         IN  [t EXCEPT
                !.heap = InsertVarOrder(@, {Var(t.trail[i]) : i \in keep + 1 .. Len(t.trail)}),
                !.polarity = [v \in Vars |-> IF Assigned(t, v) /\ Position(t, v) > keep
                                             THEN IsFalse(t, v) ELSE @[v]],
                !.qhead = keep,
                !.trail = SubSeq(@, 1, keep),
                !.lim = SubSeq(@, 1, level)]

-----------------------------------------------------------------------------
\* Conflict analysis.

\* Resolve backwards along the trail until one literal of the level is left.
\* a.seen are the variables marked, a.out the literals of lower levels.
RECURSIVE ResolveToUIP(_, _)
ResolveToUIP(t, a) ==
    LET c     == t.arena[a.confl].lits
        from  == IF a.p = 0 THEN 1 ELSE 2
        fresh == SelectSeq(SubSeq(c, from, Len(c)),
                     LAMBDA q : Var(q) \notin a.seen /\ LevelOf(t, Var(q)) > 0)
        below == SelectSeq(fresh, LAMBDA q : LevelOf(t, Var(q)) < DecisionLevel(t))
        seen  == a.seen \union {Var(fresh[i]) : i \in DOMAIN fresh}
        index == CHOOSE i \in 1 .. a.index :
                    /\ Var(t.trail[i]) \in seen
                    /\ \A j \in i + 1 .. a.index : Var(t.trail[j]) \notin seen
        p     == t.trail[index]
        pathC == a.pathC + Len(fresh) - Len(below) - 1
        next  == [p |-> p, confl |-> t.reason[Var(p)], index |-> index - 1,
                  seen |-> seen \ {Var(p)}, pathC |-> pathC, out |-> a.out \o below]
    IN  IF pathC > 0 THEN ResolveToUIP(t, next) ELSE next

\* The literals other than the first in the reason of a variable that the
\* marked ones do not cover.
Uncovered(t, v, seen) ==
    LET c == t.arena[t.reason[v]].lits
    IN  {Var(c[i]) : i \in {j \in 2 .. Len(c) : Var(c[j]) \notin seen
                                               /\ LevelOf(t, Var(c[j])) > 0}}

\* litRedundant: everything p was implied by is marked or can be explained in
\* the same way without leaving the levels.  The marks are kept on success.
RECURSIVE LitRedundant(_, _, _, _)
LitRedundant(t, stack, seen, levels) ==
    IF stack = {} THEN [redundant |-> TRUE, seen |-> seen]
    ELSE LET v   == CHOOSE x \in stack : TRUE
             new == Uncovered(t, v, seen)
         IN  IF \E x \in new : t.reason[x] = CRefUndef \/ LevelOf(t, x) \notin levels
             THEN [redundant |-> FALSE, seen |-> {}]
             ELSE LitRedundant(t, (stack \ {v}) \union new, seen \union new, levels)

\* ccmin_mode 2: the literals after the first, one by one.
RECURSIVE MinimizeDeep(_, _, _, _)
MinimizeDeep(t, rest, seen, levels) ==
    IF rest = << >> THEN << >>
    ELSE LET q == Head(rest)
             r == IF t.reason[Var(q)] = CRefUndef
                  THEN [redundant |-> FALSE, seen |-> {}]
                  ELSE LitRedundant(t, {Var(q)}, seen, levels)
         IN  IF r.redundant THEN MinimizeDeep(t, Tail(rest), r.seen, levels)
             ELSE <<q>> \o MinimizeDeep(t, Tail(rest), seen, levels)

\* Mutant: a literal goes whenever it was implied.
MinimizeTooMuch(t, out, seen) ==
    SelectSeq(out, LAMBDA q : t.reason[Var(q)] = CRefUndef)

Minimize(t, out, seen) ==
    CASE CcminMode = 2 ->
            MinimizeDeep(t, out, seen, {LevelOf(t, Var(out[i])) : i \in DOMAIN out})
      [] CcminMode = 1 ->
            SelectSeq(out, LAMBDA q : \/ t.reason[Var(q)] = CRefUndef
                                      \/ Uncovered(t, Var(q), seen) # {})
      [] OTHER -> out

\* The first literal after the asserting one that has the highest level.
HighestOther(t, lits) ==
    LET lev(i) == LevelOf(t, Var(lits[i]))
    IN  CHOOSE i \in 2 .. Len(lits) : \A j \in 2 .. Len(lits) :
            lev(j) < lev(i) \/ (lev(j) = lev(i) /\ i <= j)

\* Mutant: the literal of the highest level stays where it is.
NotMoved(lits, max) == lits

WatchedSecond(lits, max) == Flip(lits, 2, max)

\* The learnt clause, its asserting literal first and one of the highest level
\* below second, and the level to go back to.
Analyze(t, cr) ==
    LET learnt(min) ==
            LET max == HighestOther(t, min)
            IN  IF Len(min) = 1 THEN [lits |-> min, level |-> 0]
                ELSE [lits |-> WatchedSecond(min, max), level |-> LevelOf(t, Var(min[max]))]
        resolved(a) == learnt(<<Not(a.p)>> \o Minimize(t, a.out, a.seen))
    IN  resolved(ResolveToUIP(t, [p |-> 0, confl |-> cr, index |-> Len(t.trail),
                                  seen |-> {}, pathC |-> 0, out |-> << >>]))

\* analyzeFinal: the assumptions that made p true, negated.
RECURSIVE Ancestors(_, _, _)
Ancestors(t, todo, seen) ==
    IF todo = {} THEN seen
    ELSE LET v   == CHOOSE x \in todo : TRUE
             new == IF t.reason[v] = CRefUndef THEN {} ELSE Uncovered(t, v, seen \union todo)
         IN  Ancestors(t, (todo \ {v}) \union new, seen \union {v})

AnalyzeFinal(t, p) ==
    LET start == {v \in {Var(p)} : LevelOf(t, v) > 0}
    IN  {p} \union {Not(l) : l \in {x \in ToSet(t.trail) :
                        /\ Var(x) \in Ancestors(t, start, {})
                        /\ t.reason[Var(x)] = CRefUndef}}

-----------------------------------------------------------------------------
\* Reducing and simplifying the clause database.

\* The sort puts binary clauses last and the rest by activity; the removable
\* ones go that are in the first half or below the activity limit.
ReduceDB(t) ==
    LET long      == {cr \in t.learnts : Len(t.arena[cr].lits) > 2}
        removable == {cr \in long : ~Locked(t, cr)}
        half      == Cardinality(t.learnts) \div 2
        inHalf    == IF half < Cardinality(long) THEN half ELSE Cardinality(long)
    IN  {CheckGarbage(RemoveClauses(t, gone)) : gone \in
            {r \in SUBSET removable :
                Cardinality(r \union (long \ removable)) >= inHalf}}

RebuildOrderHeap(t) == [t EXCEPT !.heap = {v \in Vars : ~Assigned(t, v)}]

\* simplify: the new state of the solver and what simpDB_assigns becomes.
\* allowed says that simpDB_props has run out.
Simplify(t, allowed) ==
    LET propagated(r) ==
            IF r.confl # CRefUndef
            THEN [s |-> [r.s EXCEPT !.ok = FALSE], assigns |-> simpDBAssigns]
            ELSE IF ~allowed \/ Len(r.s.trail) = simpDBAssigns
            THEN [s |-> r.s, assigns |-> simpDBAssigns]
            ELSE [s |-> RebuildOrderHeap(CheckGarbage(
                            RemoveSatisfied(RemoveSatisfied(r.s, r.s.learnts), r.s.clauses))),
                  assigns |-> Len(r.s.trail)]
    IN  IF ~t.ok THEN [s |-> t, assigns |-> simpDBAssigns] ELSE propagated(Propagate(t))

-----------------------------------------------------------------------------
\* Branching.

\* User assumptions come first, each at a level of its own; one that is true
\* already gets an empty level.
RECURSIVE TakeAssumptions(_)
TakeAssumptions(t) ==
    IF DecisionLevel(t) >= Len(assumptions) THEN [s |-> t, kind |-> "free", lit |-> 0]
    ELSE LET p == assumptions[DecisionLevel(t) + 1]
         IN  IF IsTrue(t, p) THEN TakeAssumptions(NewDecisionLevel(t))
             ELSE IF IsFalse(t, p) THEN [s |-> t, kind |-> "failed", lit |-> p]
             ELSE [s |-> t, kind |-> "assume", lit |-> p]

\* pickBranchLit: the heap gives its variables in any order, assigned ones are
\* dropped on the way; a random decision leaves its variable in the heap.
PickBranchLit(t) ==
    LET free   == {v \in t.heap : ~Assigned(t, v)}
        passed == t.heap \ free
    IN  IF free = {} THEN {[heap |-> {}, lit |-> 0]}
        ELSE {[heap |-> t.heap \ gone, lit |-> MkLit(v, t.polarity[v])] : <<v, gone>> \in
                 UNION {{<<x, {}>>} \union {<<x, g \union {x}>> : g \in SUBSET passed} :
                        x \in free}}

Decide(t, l) == UncheckedEnqueue(NewDecisionLevel(t), l, CRefUndef)

-----------------------------------------------------------------------------
\* luby(y, x) is y to the power of Luby(x): first the subsequence that has x,
\* then the position of x in it.
RECURSIVE LubySize(_, _), LubyIn(_, _, _)
LubySize(size, x) == IF size < x + 1 THEN LubySize(2 * size + 1, x) ELSE size

LubyIn(size, seq, x) ==
    IF size - 1 = x THEN seq
    ELSE LET half == (size - 1) \div 2 IN LubyIn(half, seq - 1, x % half)

LubyExponent(size) == CHOOSE n \in 0 .. size : 2 ^ (n + 1) - 1 = size

Luby(x) == LET size == LubySize(1, x) IN 2 ^ LubyIn(size, LubyExponent(size), x)

WithinBudget == ~interrupted /\ conflicts < ConflictBudget

-----------------------------------------------------------------------------
\* The program.

EmptySolver ==
    [arena |-> << >>, watches |-> NoOccs, clauses |-> {}, learnts |-> {},
     trail |-> << >>, lim |-> << >>, qhead |-> 0,
     reason |-> [v \in Vars |-> CRefUndef], heap |-> Vars,
     polarity |-> [v \in Vars |-> TRUE], ok |-> TRUE]

Init ==
    /\ problem \in Problems
    /\ added = 0
    /\ s = EmptySolver
    /\ pc = "idle"
    /\ confl = CRefUndef
    /\ assumptions = << >>
    /\ conflictC = 0 /\ currRestarts = 0 /\ conflicts = 0
    /\ simpDBAssigns = -1
    /\ interrupted = FALSE
    /\ status = "undef" /\ model = {} /\ conflict = {}
    /\ solves = 0

\* False and repeated literals go, a true or tautological clause is not kept.
AddClause_(t, ps) ==
    LET lits  == ToSet(ps)
        kept  == Sorted({l \in lits : ~IsFalse(t, l)})
        cr    == Len(t.arena) + 1
        unit  == Propagate(UncheckedEnqueue(t, kept[1], CRefUndef))
    IN  IF ~t.ok \/ \E l \in lits : IsTrue(t, l) \/ Not(l) \in lits THEN t
        ELSE CASE Len(kept) = 0 -> [t EXCEPT !.ok = FALSE]
               [] Len(kept) = 1 -> [unit.s EXCEPT !.ok = (unit.confl = CRefUndef)]
               [] OTHER -> AttachClause([t EXCEPT !.arena = Alloc(@, kept, FALSE),
                                                  !.clauses = @ \union {cr}], cr)

AddClause ==
    /\ pc = "idle"
    /\ added < Len(problem)
    /\ added' = added + 1
    /\ s' = AddClause_(s, problem[added + 1])
    /\ UNCHANGED <<problem, pc, confl, assumptions, conflictC, currRestarts, conflicts,
                   simpDBAssigns, interrupted, status, model, conflict, solves>>

UserSimplify ==
    /\ pc = "idle"
    /\ Len(problem) - added <= LateClauses
    /\ \E allowed \in BOOLEAN : \E r \in {Simplify(s, allowed)} :
          s' = r.s /\ simpDBAssigns' = r.assigns
    /\ UNCHANGED <<problem, added, pc, confl, assumptions, conflictC, currRestarts,
                   conflicts, interrupted, status, model, conflict, solves>>

Solve ==
    /\ pc = "idle"
    /\ solves < MaxSolves
    /\ Len(problem) - added <= LateClauses
    /\ solves' = solves + 1
    /\ assumptions' \in AssumptionLists
    /\ model' = {} /\ conflict' = {}
    /\ conflictC' = 0 /\ currRestarts' = 0 /\ conflicts' = 0
    /\ status' = IF s.ok THEN "undef" ELSE "false"
    /\ pc' = IF s.ok THEN "propagate" ELSE "idle"
    /\ UNCHANGED <<problem, added, s, confl, simpDBAssigns, interrupted>>

\* The head of the loop of search.
PropagateAll ==
    /\ pc = "propagate"
    /\ \E r \in {Propagate(s)} :
           /\ s' = r.s
           /\ confl' = r.confl
           /\ pc' = IF r.confl = CRefUndef THEN "quiet" ELSE "conflict"
    /\ UNCHANGED <<problem, added, assumptions, conflictC, currRestarts, conflicts,
                   simpDBAssigns, interrupted, status, model, conflict, solves>>

LearnClause(t, lits) ==
    LET cr == Len(t.arena) + 1
    IN  IF Len(lits) = 1 THEN UncheckedEnqueue(t, lits[1], CRefUndef)
        ELSE UncheckedEnqueue(
                AttachClause([t EXCEPT !.arena = Alloc(@, lits, TRUE),
                                       !.learnts = @ \union {cr}], cr), lits[1], cr)

Conflict ==
    /\ pc = "conflict"
    /\ conflicts' = conflicts + 1
    /\ conflictC' = conflictC + 1
    /\ IF DecisionLevel(s) = 0
       THEN /\ status' = "false"
            /\ pc' = "finish"
            /\ UNCHANGED s
       ELSE /\ \E a \in {Analyze(s, confl)} :
                  s' = LearnClause(CancelUntil(s, a.level), a.lits)
            /\ pc' = "propagate"
            /\ UNCHANGED status
    /\ confl' = CRefUndef
    /\ UNCHANGED <<problem, added, assumptions, currRestarts, simpDBAssigns, interrupted,
                   model, conflict, solves>>

BoundReached == conflictC >= Luby(currRestarts) * RestartFirst \/ ~WithinBudget

\* search returns l_Undef; solve_ goes on with the next search or gives up.
Restart ==
    /\ pc = "quiet"
    /\ BoundReached
    /\ s' = CancelUntil(s, 0)
    /\ pc' = IF WithinBudget THEN "propagate" ELSE "finish"
    /\ currRestarts' = IF WithinBudget THEN currRestarts + 1 ELSE currRestarts
    /\ conflictC' = 0
    /\ UNCHANGED <<problem, added, confl, assumptions, conflicts, simpDBAssigns, interrupted,
                   status, model, conflict, solves>>

\* The database is reduced when it holds many more learnt clauses than literals
\* are assigned.
ReducedWhenDue(t) ==
    IF (Cardinality(t.learnts) - Len(t.trail)) * LearntDivisor >= Cardinality(t.clauses)
    THEN ReduceDB(t) ELSE {t}

\* Simplify at level 0, reduce, take the assumptions, decide.
Branch ==
    /\ pc = "quiet"
    /\ ~BoundReached
    /\ \E allowed \in BOOLEAN :
         \E simplified \in {IF DecisionLevel(s) = 0 THEN Simplify(s, allowed)
                            ELSE [s |-> s, assigns |-> simpDBAssigns]} :
             /\ simpDBAssigns' = simplified.assigns
             /\ \E reduced \in ReducedWhenDue(simplified.s) :
                  \E a \in {TakeAssumptions(reduced)} :
                      \/ /\ a.kind = "failed"
                         /\ conflict' = AnalyzeFinal(a.s, Not(a.lit))
                         /\ status' = "false" /\ pc' = "finish"
                         /\ s' = a.s
                      \/ /\ a.kind = "assume"
                         /\ s' = Decide(a.s, a.lit) /\ pc' = "propagate"
                         /\ UNCHANGED <<conflict, status>>
                      \/ /\ a.kind = "free"
                         /\ \E pick \in PickBranchLit(a.s) :
                              LET u == [a.s EXCEPT !.heap = pick.heap]
                              IN  IF pick.lit = 0
                                  THEN s' = u /\ status' = "true" /\ pc' = "finish"
                                  ELSE /\ s' = Decide(u, pick.lit) /\ pc' = "propagate"
                                       /\ UNCHANGED status
                         /\ UNCHANGED conflict
    /\ UNCHANGED <<problem, added, confl, assumptions, conflictC, currRestarts, conflicts,
                   interrupted, model, solves>>

\* The end of solve_.
Finish ==
    /\ pc = "finish"
    /\ pc' = "idle"
    /\ model' = IF status = "true" THEN ToSet(s.trail) ELSE {}
    /\ s' = [CancelUntil(s, 0) EXCEPT !.ok = @ /\ ~(status = "false" /\ conflict = {})]
    /\ UNCHANGED <<problem, added, confl, assumptions, conflictC, currRestarts, conflicts,
                   simpDBAssigns, interrupted, status, conflict, solves>>

\* interrupt() may be called from a signal handler or another thread.
Interrupt ==
    /\ pc # "idle"
    /\ ~interrupted
    /\ interrupted' = TRUE
    /\ UNCHANGED <<problem, added, s, pc, confl, assumptions, conflictC, currRestarts,
                   conflicts, simpDBAssigns, status, model, conflict, solves>>

ClearInterrupt ==
    /\ pc = "idle"
    /\ interrupted
    /\ interrupted' = FALSE
    /\ UNCHANGED <<problem, added, s, pc, confl, assumptions, conflictC, currRestarts,
                   conflicts, simpDBAssigns, status, model, conflict, solves>>

Search == PropagateAll \/ Conflict \/ Restart \/ Branch \/ Finish

Next == AddClause \/ UserSimplify \/ Solve \/ Search \/ Interrupt \/ ClearInterrupt

Spec == Init /\ [][Next]_vars

-----------------------------------------------------------------------------
\* Properties.

Live(cr) == s.arena[cr].mark = 0

\* Type invariant: the solver's tables refer to clauses that exist, the trail
\* is consistent and the levels lie on it.
TypeOK ==
    /\ added \in 0 .. Len(problem)
    /\ s.clauses \union s.learnts \subseteq DOMAIN s.arena
    /\ s.clauses \intersect s.learnts = {}
    /\ \A cr \in DOMAIN s.arena : s.arena[cr].lits \in Seq(Lits)
    /\ s.trail \in Seq(Lits) /\ IsInjective([i \in DOMAIN s.trail |-> Var(s.trail[i])])
    /\ \A k \in DOMAIN s.lim : s.lim[k] \in 0 .. Len(s.trail)
    /\ \A j, k \in DOMAIN s.lim : j < k => s.lim[j] <= s.lim[k]
    /\ s.qhead \in 0 .. Len(s.trail)
    /\ s.reason \in [Vars -> Nat]
    /\ s.heap \subseteq Vars /\ s.polarity \in [Vars -> BOOLEAN]
    /\ pc \in {"idle", "propagate", "conflict", "quiet", "finish"}
    /\ status \in {"undef", "true", "false"}
    /\ interrupted \in BOOLEAN

\* The assignments of all variables, and those that satisfy a set of clauses.
Assignments == {{MkLit(v, v \in neg) : v \in Vars} : neg \in SUBSET Vars}

ModelsOf(clauses) == {m \in Assignments : \A c \in clauses : c \intersect m # {}}

UserModels == ModelsOf({ToSet(problem[i]) : i \in 1 .. added})

RootLits == {s.trail[i] : i \in {j \in DOMAIN s.trail : DecisionLevel(s) = 0 \/ j <= s.lim[1]}}

\* What is learnt and what is assigned at level 0 is true in every model of the
\* clauses that were added.
LearntIsImplied ==
    \A m \in UserModels :
        /\ \A cr \in s.learnts : ToSet(s.arena[cr].lits) \intersect m # {}
        /\ RootLits \subseteq m
        /\ s.ok

\* As long as the solver is ok, the clauses it keeps and its level 0 have no
\* other models.
NoClauseIsLost ==
    s.ok => UserModels = ModelsOf({ToSet(s.arena[cr].lits) : cr \in s.clauses}
                                    \union {{l} : l \in RootLits})

\* Over resolution, minimization, simplification, reduction and garbage
\* collection the solver's clauses have the models of the user's clauses
\* (addClause_, analyze, removeSatisfied, reduceDB, relocAll).
ClausesKeepModels == LearntIsImplied /\ NoClauseIsLost

\* When propagate returns without a conflict no clause is false, and none has
\* all literals false but one that is unassigned, although only watchers were
\* visited (propagate, attachClause, the swap in analyze, garbageCollect).
PropagationIsComplete ==
    pc = "quiet" => \A cr \in s.clauses \union s.learnts :
        \/ Satisfied(s, cr)
        \/ Cardinality({i \in DOMAIN s.arena[cr].lits : IsUndef(s, s.arena[cr].lits[i])}) > 1

\* A literal with a reason is the first literal of a clause that was not
\* removed, whose other literals were false before it.
ReasonsImply ==
    \A i \in DOMAIN s.trail :
        LET cr == s.reason[Var(s.trail[i])]
        IN  cr # CRefUndef =>
              /\ cr \in s.clauses \union s.learnts /\ Live(cr)
              /\ s.arena[cr].lits[1] = s.trail[i]
              /\ \A k \in 2 .. Len(s.arena[cr].lits) :
                    \E j \in 1 .. i - 1 : s.trail[j] = Not(s.arena[cr].lits[k])

\* A watcher in a list that is not dirty belongs to a clause that was not
\* removed, and each clause has exactly its two watchers.
WatchersMatchClauses ==
    /\ \A l \in Lits \ s.watches.dirty : \A i \in DOMAIN s.watches.list[l] :
            Live(s.watches.list[l][i].cref)
    /\ \A cr \in s.clauses \union s.learnts :
         LET c  == s.arena[cr].lits
             at == UNION {{<<l, i>> : i \in {j \in DOMAIN s.watches.list[l] :
                                s.watches.list[l][j].cref = cr}} : l \in Lits}
         IN  Cardinality(at) = 2 /\ {w[1] : w \in at} = {Not(c[1]), Not(c[2])}

\* The types are right, no reference dangles over lazy detachment and garbage collection, and analyze
\* may rely on the order of literals of each clause it resolves with
\* (removeClause, cleanAll, relocAll, propagate).
ReferencesAreValid == TypeOK /\ ReasonsImply /\ WatchersMatchClauses

\* The answer of solve: a model assigns every variable and satisfies the
\* clauses and the assumptions, whatever the heap has lost; a conflict is a
\* clause over negated assumptions that every model satisfies; without one there
\* is no model (solve_, analyzeFinal).  An interrupt changes nothing of this.
AnswersAreRight ==
    /\ pc = "finish" /\ status = "true" =>
          ToSet(s.trail) \in UserModels /\ ToSet(assumptions) \subseteq ToSet(s.trail)
    /\ pc \in {"finish", "idle"} /\ status = "false" =>
          /\ conflict \subseteq {Not(assumptions[i]) : i \in DOMAIN assumptions}
          /\ \A m \in UserModels : conflict \intersect m # {}

=============================================================================
