---------------------------- MODULE GlucoseSolver ----------------------------
(***************************************************************************)
(* The methods of examples/solvers/glucose-3.0/core/Solver.cc that the     *)
(* search is made of: clauses, garbage collection, propagation, conflict   *)
(* analysis.  Binary clauses have watch lists of their own and are not     *)
(* reordered when they imply, learnt clauses have an LBD, and in           *)
(* incremental mode selector variables are treated apart.                  *)
(*                                                                         *)
(* A solver t has more fields than SolverTypes lists: watchesBin, wasted   *)
(* (words freed since the last collection) and, in each clause of the      *)
(* arena, lbd, canBeDel and size (sizeWithoutSelectors).                   *)
(***************************************************************************)
EXTENDS SolverTypes

CONSTANTS Selectors,       \* the variables from nbVarsInitialFormula on
          CcminMode,       \* ccmin_mode: 0, 1 or 2
          PhaseSaving,     \* phase_saving: 0, 1 or 2
          LbLBDFrozenClause, LbLBDMinimizingClause, LbSizeMinimizingClause,
          GarbageDivisor   \* 1 / garbage_frac

ASSUME GlucoseSolverAssumption ==
    /\ Selectors \subseteq Vars
    /\ CcminMode \in 0 .. 2 /\ PhaseSaving \in 0 .. 2
    /\ GarbageDivisor \in Nat \ {0}
    /\ {LbLBDFrozenClause, LbLBDMinimizingClause, LbSizeMinimizingClause} \subseteq Nat

VARIABLES incremental,   \* is the solver in incremental mode
          assumptions    \* those of the current call of solve

IsSelector(v) == incremental /\ v \in Selectors

-----------------------------------------------------------------------------
\* Clauses.

GlucoseClause(lits, learnt, lbd, size) ==
    [lits |-> lits, learnt |-> learnt, mark |-> 0, lbd |-> lbd, canBeDel |-> TRUE,
     size |-> size]

\* Three words of header, the literals and the activity of a learnt clause.
GlucoseWords(c) == 3 + Len(c.lits) + (IF c.learnt THEN 1 ELSE 0)

RECURSIVE WordsIn(_, _)
WordsIn(arena, n) == IF n = 0 THEN 0 ELSE GlucoseWords(arena[n]) + WordsIn(arena, n - 1)

Watched(occs, c, cr) ==
    Push(Push(occs, Not(c[1]), [cref |-> cr, blocker |-> c[2]]),
         Not(c[2]), [cref |-> cr, blocker |-> c[1]])

AttachClause(t, cr) ==
    LET c == t.arena[cr].lits
    IN  IF Len(c) = 2 THEN [t EXCEPT !.watchesBin = Watched(@, c, cr)]
                      ELSE [t EXCEPT !.watches = Watched(@, c, cr)]

\* Detaching at once.
DetachStrict(t, cr) ==
    LET c == t.arena[cr].lits
        without(occs) == [occs EXCEPT !.list = [l \in Lits |->
            IF l \in {Not(c[1]), Not(c[2])} THEN SelectSeq(@[l], LAMBDA w : w.cref # cr)
                                           ELSE @[l]]]
    IN  IF Len(c) = 2 THEN [t EXCEPT !.watchesBin = without(@)]
                      ELSE [t EXCEPT !.watches = without(@)]

\* Lazy detaching.
DetachClause(t, cr) ==
    LET c == t.arena[cr].lits
        smudged(occs) == Smudge(Smudge(occs, Not(c[1])), Not(c[2]))
    IN  IF Len(c) = 2 THEN [t EXCEPT !.watchesBin = smudged(@)]
                      ELSE [t EXCEPT !.watches = smudged(@)]

\* A binary clause may be the reason of either of its literals.
Locked(t, cr) ==
    LET c == t.arena[cr].lits
    IN  \E i \in 1 .. (IF Len(c) = 2 THEN 2 ELSE 1) :
            IsTrue(t, c[i]) /\ t.reason[Var(c[i])] = cr

\* The reason that is forgotten is always that of the first literal.
RemoveClause(t, cr) ==
    [DetachClause(t, cr) EXCEPT
        !.reason[Var(t.arena[cr].lits[1])] = IF Locked(t, cr) THEN CRefUndef ELSE @,
        !.arena = Free(@, cr),
        !.wasted = @ + GlucoseWords(t.arena[cr]),
        !.clauses = @ \ {cr},
        !.learnts = @ \ {cr}]

RECURSIVE RemoveClauses(_, _)
RemoveClauses(t, crefs) ==
    IF crefs = {} THEN t
    ELSE LET cr == CHOOSE x \in crefs : \A y \in crefs : x <= y
         IN  RemoveClauses(RemoveClause(t, cr), crefs \ {cr})

\* In incremental mode only the two watched literals are looked at.
ClauseSatisfied(t, cr) ==
    IF incremental THEN \E i \in {1, 2} : IsTrue(t, t.arena[cr].lits[i])
                   ELSE Satisfied(t, cr)

RemoveSatisfied(t, crefs) == RemoveClauses(t, {cr \in crefs : ClauseSatisfied(t, cr)})

-----------------------------------------------------------------------------
\* Garbage collection.

\* Mutant: the reasons go on referring to the old region.
ReasonsNotMoved(t, visits) == t.reason

MovedReasons(t, visits) ==
    [v \in Vars |-> IF Assigned(t, v) /\ t.reason[v] \in ToSet(visits)
                    THEN Forwarded(visits, t.reason[v]) ELSE t.reason[v]]

\* The order in which relocAll meets the clauses, after those that were moved
\* before: of each literal the long watchers and then the binary ones, the
\* reasons on the trail, the learnt and the problem clauses.
Visits(t, earlier) ==
    LET crefs(ws) == [i \in DOMAIN ws |-> ws[i].cref]
        watchers == FlattenSeq([k \in DOMAIN LitOrder |->
                        crefs(CleanAll(t.watches, t.arena).list[LitOrder[k]]) \o
                        crefs(CleanAll(t.watchesBin, t.arena).list[LitOrder[k]])])
        moves(r) == r # CRefUndef /\ (r \in ToSet(earlier \o watchers) \/ Locked(t, r))
        reasons  == SelectSeq([i \in DOMAIN t.trail |-> t.reason[Var(t.trail[i])]], moves)
        all(refs) == SelectSeq([cr \in DOMAIN t.arena |-> cr], LAMBDA cr : cr \in refs)
    IN  FirstVisits(earlier \o watchers \o reasons \o all(t.learnts) \o all(t.clauses))

MovedTo(t, visits) ==
    LET to(cr) == Forwarded(visits, cr)
        moved(occs) == [occs EXCEPT !.list = [l \in Lits |-> [i \in DOMAIN @[l] |->
                                [@[l][i] EXCEPT !.cref = to(@)]]]]
    IN  [t EXCEPT
            !.arena = Relocated(@, visits),
            !.wasted = 0,
            !.watches = moved(CleanAll(@, t.arena)),
            !.watchesBin = moved(CleanAll(@, t.arena)),
            !.reason = MovedReasons(t, visits),
            !.learnts = {to(cr) : cr \in @},
            !.clauses = {to(cr) : cr \in @}]

RelocAll(t) == MovedTo(t, Visits(t, << >>))

CheckGarbage(t) ==
    IF t.wasted * GarbageDivisor > WordsIn(t.arena, Len(t.arena)) THEN RelocAll(t) ELSE t

-----------------------------------------------------------------------------
\* Unit propagation.

\* The binary clauses of p: a false literal ends the whole propagation and
\* leaves the queue as it is.
RECURSIVE PropagateBinary(_, _)
PropagateBinary(st, ws) ==
    IF ws = << >> THEN st
    ELSE LET w == Head(ws)
         IN  IF IsFalse(st.s, w.blocker)
             THEN [st EXCEPT !.confl = w.cref, !.returned = TRUE]
             ELSE PropagateBinary(
                    IF IsUndef(st.s, w.blocker)
                    THEN [st EXCEPT !.s = UncheckedEnqueue(@, w.blocker, w.cref)] ELSE st,
                    Tail(ws))

\* The position of the new watch among those of literals that are not false.
\* In incremental mode, while the assumptions are being taken, a selector is
\* watched only when it is true or the last choice.
NewWatch(t, lits, open) ==
    LET good == {k \in open : IsTrue(t, lits[k]) \/ ~IsSelector(Var(lits[k]))}
        least(S) == CHOOSE i \in S : \A j \in S : i <= j
    IN  IF ~incremental \/ DecisionLevel(t) > Len(assumptions) THEN least(open)
        ELSE IF good # {} THEN least(good)
        ELSE CHOOSE i \in open : \A j \in open : j <= i

Flip(lits, i, j) == [lits EXCEPT ![i] = lits[j], ![j] = lits[i]]

\* One turn of the loop over the long watchers of p; after a conflict the rest
\* of the list is copied.
VisitWatcher(st, p, w) ==
    LET t       == st.s
        stored  == t.arena[w.cref].lits
        lits    == IF stored[1] = Not(p) THEN Flip(stored, 1, 2) ELSE stored
        first   == lits[1]
        ordered == [t EXCEPT !.arena[w.cref].lits = lits]
        open    == {k \in 3 .. Len(lits) : ~IsFalse(t, lits[k])}
        w1      == [w EXCEPT !.blocker = first]
        kept(x) == Append(st.kept, x)
    IN  IF st.confl # CRefUndef \/ IsTrue(t, w.blocker)
        THEN [st EXCEPT !.kept = kept(w)]
        ELSE IF IsTrue(t, first)
        THEN [st EXCEPT !.s = ordered, !.kept = kept(w1)]
        ELSE IF open # {}
        THEN LET k == NewWatch(t, lits, open)
             IN  [st EXCEPT !.s = [ordered EXCEPT !.arena[w.cref].lits = Flip(lits, 2, k),
                                                  !.watches = Push(@, Not(lits[k]), w1)]]
        ELSE IF IsFalse(t, first)
        THEN [st EXCEPT !.s = [ordered EXCEPT !.qhead = Len(t.trail)],
                        !.kept = kept(w1), !.confl = w.cref]
        ELSE [st EXCEPT !.s = UncheckedEnqueue(ordered, first, w.cref), !.kept = kept(w1)]

RECURSIVE VisitWatchers(_, _, _)
VisitWatchers(st, p, ws) ==
    IF ws = << >> THEN st
    ELSE VisitWatchers(VisitWatcher(st, p, Head(ws)), p, Tail(ws))

RECURSIVE DrainQueue(_)
DrainQueue(st) ==
    IF st.returned \/ st.s.qhead = Len(st.s.trail) THEN st
    ELSE LET p   == st.s.trail[st.s.qhead + 1]
             bin == PropagateBinary([st EXCEPT !.s.qhead = @ + 1, !.kept = << >>],
                                    st.s.watchesBin.list[p])
             all == VisitWatchers(bin, p, bin.s.watches.list[p])
         IN  IF bin.returned THEN bin
             ELSE DrainQueue([all EXCEPT !.s.watches.list[p] = all.kept])

Propagate(t) ==
    DrainQueue([s |-> [t EXCEPT !.watches = CleanAll(@, t.arena),
                                !.watchesBin = CleanAll(@, t.arena)],
                kept |-> << >>, confl |-> CRefUndef, returned |-> FALSE])

\* The phases of the last level are kept, or of all levels, or of none.
CancelUntil(t, level) ==
    IF DecisionLevel(t) <= level THEN t
    ELSE LET keep == t.lim[level + 1]
             saves(i) == \/ PhaseSaving = 2
                         \/ PhaseSaving = 1 /\ i - 1 > t.lim[DecisionLevel(t)]
         IN  [t EXCEPT
                !.heap = InsertVarOrder(@, {Var(t.trail[i]) : i \in keep + 1 .. Len(t.trail)}),
                !.polarity = [v \in Vars |->
                    IF Assigned(t, v) /\ Position(t, v) > keep /\ saves(Position(t, v))
                    THEN IsFalse(t, v) ELSE @[v]],
                !.qhead = keep,
                !.trail = SubSeq(@, 1, keep),
                !.lim = SubSeq(@, 1, level)]

-----------------------------------------------------------------------------
\* Literal block distance.

\* The levels of the first `end' literals that are no selectors; a negative
\* end, or another mode than the incremental one, means of all.
ComputeLBD(t, lits, end) ==
    LET plain   == SelectSeq(lits, LAMBDA l : ~IsSelector(Var(l)))
        counted == IF ~incremental \/ end < 0 THEN plain
                   ELSE SubSeq(plain, 1, IF end < Len(plain) THEN end ELSE Len(plain))
    IN  Cardinality({LevelOf(t, Var(counted[i])) : i \in DOMAIN counted})

\* The count stops at the first selector after the asserting literal.
SizeWithoutSelectors(lits) ==
    LET stop == {i \in 2 .. Len(lits) : IsSelector(Var(lits[i]))}
        upTo == IF stop = {} THEN Len(lits)
                ELSE (CHOOSE i \in stop : \A j \in stop : i <= j) - 1
    IN  Cardinality({i \in 1 .. upTo : ~IsSelector(Var(lits[i]))})

\* The LBD of a learnt clause that takes part in a conflict is improved, and the
\* clause is kept for a round when the LBD was small.
Improved(t, c) ==
    LET nb == ComputeLBD(t, c.lits, c.size)
    IN  IF c.learnt /\ c.lbd > 2 /\ nb + 1 < c.lbd
        THEN [c EXCEPT !.lbd = nb, !.canBeDel = @ /\ c.lbd > LbLBDFrozenClause] ELSE c

-----------------------------------------------------------------------------
\* Conflict analysis.

\* The literals of the reason of v other than the one that it implied.
Antecedents(t, v) ==
    LET c == t.arena[t.reason[v]].lits
    IN  IF Len(c) = 2 THEN SelectSeq(c, LAMBDA l : Var(l) # v) ELSE Tail(c)

\* a.seen are the variables marked, a.out and a.selectors the literals of lower
\* levels, a.used the clauses that were resolved.
RECURSIVE ResolveToUIP(_, _)
ResolveToUIP(t, a) ==
    LET c     == IF a.p = 0 THEN t.arena[a.confl].lits ELSE Antecedents(t, Var(a.p))
        fresh == SelectSeq(c, LAMBDA q : Var(q) \notin a.seen /\ LevelOf(t, Var(q)) > 0)
        below == SelectSeq(fresh, LAMBDA q : LevelOf(t, Var(q)) < DecisionLevel(t))
        seen  == a.seen \union {Var(fresh[i]) : i \in DOMAIN fresh}
        index == CHOOSE i \in 1 .. a.index :
                    /\ Var(t.trail[i]) \in seen
                    /\ \A j \in i + 1 .. a.index : Var(t.trail[j]) \notin seen
        p     == t.trail[index]
        pathC == a.pathC + Len(fresh) - Len(below) - 1
        next  == [p |-> p, confl |-> t.reason[Var(p)], index |-> index - 1,
                  seen |-> seen \ {Var(p)}, pathC |-> pathC,
                  out |-> a.out \o SelectSeq(below, LAMBDA q : ~IsSelector(Var(q))),
                  selectors |-> a.selectors \o SelectSeq(below, LAMBDA q : IsSelector(Var(q))),
                  used |-> a.used \union {a.confl}]
    IN  IF pathC > 0 THEN ResolveToUIP(t, next) ELSE next

Uncovered(t, v, seen) ==
    SelectSeq(Antecedents(t, v), LAMBDA q : Var(q) \notin seen /\ LevelOf(t, Var(q)) > 0)

RECURSIVE LitRedundant(_, _, _, _, _)
LitRedundant(t, stack, seen, levels, used) ==
    IF stack = << >> THEN [redundant |-> TRUE, seen |-> seen, used |-> used]
    ELSE LET v   == stack[Len(stack)]
             new == Uncovered(t, v, seen)
             vs  == [i \in DOMAIN new |-> Var(new[i])]
             now == used \union {t.reason[v]}
         IN  IF \E x \in ToSet(vs) : t.reason[x] = CRefUndef \/ LevelOf(t, x) \notin levels
             THEN [redundant |-> FALSE, seen |-> {}, used |-> now]
             ELSE LitRedundant(t, SubSeq(stack, 1, Len(stack) - 1) \o vs,
                               seen \union ToSet(vs), levels, now)

\* ccmin_mode 2: literal by literal; m.out are those that stay, m.used the
\* reasons that were looked at.
RECURSIVE MinimizeDeep(_, _, _, _)
MinimizeDeep(t, rest, m, levels) ==
    IF rest = << >> THEN m
    ELSE LET q == Head(rest)
             r == IF t.reason[Var(q)] = CRefUndef
                  THEN [redundant |-> FALSE, seen |-> {}, used |-> m.used]
                  ELSE LitRedundant(t, <<Var(q)>>, m.seen, levels, m.used)
         IN  MinimizeDeep(t, Tail(rest),
                [out |-> IF r.redundant THEN m.out ELSE Append(m.out, q),
                 seen |-> IF r.redundant THEN r.seen ELSE m.seen, used |-> r.used], levels)

Minimize(t, out, seen) ==
    CASE CcminMode = 2 ->
            MinimizeDeep(t, out, [out |-> << >>, seen |-> seen, used |-> {}],
                         {LevelOf(t, Var(out[i])) : i \in DOMAIN out})
      [] CcminMode = 1 ->
            [out |-> SelectSeq(out, LAMBDA q : \/ t.reason[Var(q)] = CRefUndef
                                               \/ Uncovered(t, Var(q), seen) # << >>),
             seen |-> seen, used |-> {}]
      [] OTHER -> [out |-> out, seen |-> seen, used |-> {}]

\* Move the marked literals to the end, from the i-th on, and drop them.
RECURSIVE WithoutMarked(_, _, _, _)
WithoutMarked(lits, marked, i, last) ==
    IF i > last THEN SubSeq(lits, 1, last)
    ELSE IF Var(lits[i]) \in marked
    THEN WithoutMarked(Flip(lits, i, last), marked, i, last - 1)
    ELSE WithoutMarked(lits, marked, i + 1, last)

\* Mutant: the binary clauses of the asserting literal itself are taken.
ImpliedByOpposite(t, p) ==
    {Var(t.watchesBin.list[Not(p)][k].blocker) : k \in DOMAIN t.watchesBin.list[Not(p)]}

\* The variables that a binary clause with the asserting literal makes true.
ImpliedInBinary(t, p) ==
    {Var(t.watchesBin.list[p][k].blocker) :
        k \in {j \in DOMAIN t.watchesBin.list[p] : IsTrue(t, t.watchesBin.list[p][j].blocker)}}

MinimisationWithBinaryResolution(t, lits) ==
    IF incremental \/ Len(lits) > LbSizeMinimizingClause
                   \/ ComputeLBD(t, lits, -1) > LbLBDMinimizingClause
    THEN lits
    ELSE WithoutMarked(lits, ImpliedInBinary(t, Not(lits[1])), 2, Len(lits))

HighestOther(t, lits) ==
    LET lev(i) == LevelOf(t, Var(lits[i]))
    IN  CHOOSE i \in 2 .. Len(lits) : \A j \in 2 .. Len(lits) :
            lev(j) < lev(i) \/ (lev(j) = lev(i) /\ i <= j)

\* Mutant: the literal of the highest level stays where it is.
NotMoved(lits, max) == lits

WatchedSecond(lits, max) == Flip(lits, 2, max)

\* A binary reason that was looked at gets its true literal first.
TrueFirst(t, c) == IF Len(c) = 2 /\ IsFalse(t, c[1]) THEN Flip(c, 1, 2) ELSE c

\* The arena after the clauses in resolved were, and the reasons in seen looked at.
Revised(t, resolved, seen) ==
    LET improved(x) == IF x \in resolved THEN Improved(t, t.arena[x]) ELSE t.arena[x]
    IN  [x \in DOMAIN t.arena |->
            IF x \in seen THEN [improved(x) EXCEPT !.lits = TrueFirst(t, @)]
                           ELSE improved(x)]

\* a is what resolution gave, m what minimization left of it, and min what binary
\* clauses left of that.
Analyze(t, cr) ==
    LET learnt(a, m, min) ==
            LET max  == HighestOther(t, min)
                lits == IF Len(min) = 1 THEN min ELSE WatchedSecond(min, max)
            IN  [lits |-> lits,
                 level |-> IF Len(min) = 1 THEN 0 ELSE LevelOf(t, Var(min[max])),
                 lbd |-> ComputeLBD(t, lits, Len(lits) - Len(a.selectors)),
                 arena |-> Revised(t, a.used, (a.used \union m.used) \ {cr})]
        minimized(a, m) ==
            learnt(a, m, MinimisationWithBinaryResolution(t, <<Not(a.p)>> \o m.out))
        resolved(a) == minimized(a, Minimize(t, a.out \o a.selectors, a.seen))
    IN  resolved(ResolveToUIP(t, [p |-> 0, confl |-> cr, index |-> Len(t.trail), seen |-> {},
                                  pathC |-> 0, out |-> << >>, selectors |-> << >>,
                                  used |-> {}]))

\* analyzeFinal: the assumptions that made p true, negated.
RECURSIVE Ancestors(_, _, _)
Ancestors(t, todo, seen) ==
    IF todo = {} THEN seen
    ELSE LET v   == CHOOSE x \in todo : TRUE
             new == IF t.reason[v] = CRefUndef THEN {}
                    ELSE {Var(q) : q \in ToSet(Uncovered(t, v, seen \union todo))}
         IN  Ancestors(t, (todo \ {v}) \union new, seen \union {v})

AnalyzeFinal(t, p) ==
    LET start == {v \in {Var(p)} : LevelOf(t, v) > 0}
    IN  {p} \union {Not(l) : l \in {x \in ToSet(t.trail) :
                        /\ Var(x) \in Ancestors(t, start, {})
                        /\ t.reason[Var(x)] = CRefUndef}}

-----------------------------------------------------------------------------
\* Adding clauses and simplifying.

\* False and repeated literals go, a true or tautological clause is not kept.
AddClause_(t, ps) ==
    LET lits == ToSet(ps)
        kept == Sorted({l \in lits : ~IsFalse(t, l)})
        cr   == Len(t.arena) + 1
        unit == Propagate(UncheckedEnqueue(t, kept[1], CRefUndef))
    IN  IF ~t.ok \/ \E l \in lits : IsTrue(t, l) \/ Not(l) \in lits THEN t
        ELSE CASE Len(kept) = 0 -> [t EXCEPT !.ok = FALSE]
               [] Len(kept) = 1 -> [unit.s EXCEPT !.ok = (unit.confl = CRefUndef)]
               [] OTHER -> AttachClause(
                    [t EXCEPT !.arena = Append(@, GlucoseClause(kept, FALSE, 0, 0)),
                              !.clauses = @ \union {cr}], cr)

RebuildOrderHeap(t) == [t EXCEPT !.heap = {v \in Vars : ~Assigned(t, v)}]

\* simplify, from which simpDB_assigns is kept; allowed says that simpDB_props has
\* run out, all that remove_satisfied is set, Collected is checkGarbage.
SimplifyWith(t, assigns, allowed, all, Collected(_)) ==
    LET satisfied(u) == IF all THEN RemoveSatisfied(u, u.clauses) ELSE u
        propagated(r) ==
            IF r.confl # CRefUndef THEN [s |-> [r.s EXCEPT !.ok = FALSE], assigns |-> assigns]
            ELSE IF ~allowed \/ Len(r.s.trail) = assigns THEN [s |-> r.s, assigns |-> assigns]
            ELSE [s |-> RebuildOrderHeap(
                            Collected(satisfied(RemoveSatisfied(r.s, r.s.learnts)))),
                  assigns |-> Len(r.s.trail)]
    IN  IF ~t.ok THEN [s |-> t, assigns |-> assigns] ELSE propagated(Propagate(t))

Simplify(t, assigns, allowed, all) == SimplifyWith(t, assigns, allowed, all, CheckGarbage)

-----------------------------------------------------------------------------
\* Branching.

LearnClause(t, lits, lbd) ==
    LET cr == Len(t.arena) + 1
        c  == GlucoseClause(lits, TRUE, lbd, SizeWithoutSelectors(lits))
    IN  IF Len(lits) = 1 THEN UncheckedEnqueue(t, lits[1], CRefUndef)
        ELSE UncheckedEnqueue(AttachClause([t EXCEPT !.arena = Append(@, c),
                                                     !.learnts = @ \union {cr}], cr),
                              lits[1], cr)

\* An assumption that is true already gets an empty level.
RECURSIVE TakeAssumptions(_)
TakeAssumptions(t) ==
    IF DecisionLevel(t) >= Len(assumptions) THEN [s |-> t, kind |-> "free", lit |-> 0]
    ELSE LET p == assumptions[DecisionLevel(t) + 1]
         IN  IF IsTrue(t, p) THEN TakeAssumptions(NewDecisionLevel(t))
             ELSE IF IsFalse(t, p) THEN [s |-> t, kind |-> "failed", lit |-> p]
             ELSE [s |-> t, kind |-> "assume", lit |-> p]

Decide(t, l) == UncheckedEnqueue(NewDecisionLevel(t), l, CRefUndef)

EmptySolver ==
    [arena |-> << >>, watches |-> NoOccs, watchesBin |-> NoOccs, wasted |-> 0,
     clauses |-> {}, learnts |-> {}, trail |-> << >>, lim |-> << >>, qhead |-> 0,
     reason |-> [v \in Vars |-> CRefUndef], heap |-> Vars,
     polarity |-> [v \in Vars |-> TRUE], ok |-> TRUE]

=============================================================================
