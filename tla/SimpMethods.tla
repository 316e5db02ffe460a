---------------------------- MODULE SimpMethods ----------------------------
(***************************************************************************)
(* The methods of examples/solvers/glucose-3.0/simp/SimpSolver.cc: adding, *)
(* removing and strengthening clauses, backward subsumption, asymmetric    *)
(* branching, variable elimination and the extension of a model.           *)
(*                                                                         *)
(* A solver t has, after those of GlucoseSolver, the fields                *)
(*   useSimp             use_simplification                                *)
(*   occs                occurs: the clauses of a variable, and the        *)
(*                       variables whose list may hold removed clauses     *)
(*   nOcc                how often each literal occurs                     *)
(*   touched             variables with new clauses since the last round   *)
(*   elimHeap            elim_heap, as a set                               *)
(*   queue               subsumption_queue                                 *)
(*   bwdsub              bwdsub_assigns                                    *)
(*   tmpunit             bwdsub_tmpunit, a clause of the arena             *)
(*   frozen, eliminated  sets of variables                                 *)
(*   elim                elimclauses, each with its variable's literal     *)
(*                       first                                             *)
(***************************************************************************)
EXTENDS GlucoseSolver

CONSTANTS UseAsymm, UseElim,         \* use_asymm, use_elim
          Grow,                      \* grow
          ClauseLim, SubsumptionLim  \* clause_lim, subsumption_lim; -1: none

ASSUME SimpMethodsAssumption ==
    /\ {UseAsymm, UseElim} \subseteq BOOLEAN
    /\ Grow \in Nat /\ {ClauseLim, SubsumptionLim} \subseteq Nat \union {-1}

VARIABLE useRCheck   \* use_rcheck

VarsOf(lits) == {Var(lits[i]) : i \in DOMAIN lits}

\* The constructor allocates the temporary unit clause first.
EmptySimpSolver ==
    EmptySolver @@
    [useSimp |-> TRUE,
     occs |-> [list |-> [v \in Vars |-> << >>], dirty |-> {}],
     nOcc |-> [l \in Lits |-> 0], touched |-> {}, elimHeap |-> Vars, queue |-> << >>,
     bwdsub |-> 0, tmpunit |-> 1, frozen |-> {}, eliminated |-> {}, elim |-> << >>]

InitialSimpSolver == [EmptySimpSolver EXCEPT !.arena = <<GlucoseClause(<<1>>, FALSE, 0, 0)>>]

-----------------------------------------------------------------------------
\* Occurrences.

Live(t, refs) == SelectSeq(refs, LAMBDA cr : t.arena[cr].mark # 1)

\* occurs.lookup(v) leaves the list clean.
Lookup(t, v) ==
    IF v \in t.occs.dirty
    THEN [t EXCEPT !.occs.list[v] = Live(t, @), !.occs.dirty = @ \ {v}] ELSE t

CleanUpClauses(t) ==
    [t EXCEPT !.occs.list = [v \in Vars |-> Lookup(t, v).occs.list[v]], !.occs.dirty = {}]

UpdateElimHeap(t, vs) ==
    [t EXCEPT !.elimHeap =
        @ \union {v \in vs : v \notin t.frozen \union t.eliminated /\ ~Assigned(t, v)}]

SetFrozen(t, vs, b) ==
    LET u == [t EXCEPT !.frozen = IF b THEN @ \union vs ELSE @ \ vs]
    IN  IF t.useSimp /\ ~b THEN UpdateElimHeap(u, vs) ELSE u

\* A new clause is entered in every list and in the queue.
Registered(t, cr) ==
    LET lits == t.arena[cr].lits
    IN  [t EXCEPT
            !.queue = Append(@, cr),
            !.occs.list = [v \in Vars |-> IF v \in VarsOf(lits) THEN Append(@[v], cr) ELSE @[v]],
            !.nOcc = [l \in Lits |-> IF l \in ToSet(lits) THEN @[l] + 1 ELSE @[l]],
            !.touched = @ \union VarsOf(lits)]

\* implied: do the negated literals lead to a conflict?  (A true literal ends the
\* test without one.)
RECURSIVE AssumeNegations(_, _)
AssumeNegations(t, ps) ==
    IF ps = << >> THEN [s |-> t, satisfied |-> FALSE]
    ELSE IF IsTrue(t, ps[1]) THEN [s |-> t, satisfied |-> TRUE]
    ELSE AssumeNegations(IF IsFalse(t, ps[1]) THEN t
                         ELSE UncheckedEnqueue(t, Not(ps[1]), CRefUndef), Tail(ps))

Implied(t, ps) ==
    LET a == AssumeNegations(NewDecisionLevel(t), ps)
        r == Propagate(a.s)
    IN  IF a.satisfied THEN [s |-> CancelUntil(a.s, 0), implied |-> FALSE]
        ELSE [s |-> CancelUntil(r.s, 0), implied |-> r.confl # CRefUndef]

SimpAddClause(t, ps) ==
    LET kept(u) == IF u.useSimp /\ u.clauses # t.clauses THEN Registered(u, Len(u.arena)) ELSE u
        tested(test) == IF test.implied THEN test.s ELSE kept(AddClause_(test.s, ps))
    IN  tested(IF useRCheck THEN Implied(t, ps) ELSE [s |-> t, implied |-> FALSE])

RECURSIVE SimpAddClauses(_, _)
SimpAddClauses(t, todo) ==
    IF todo = << >> \/ ~t.ok THEN t ELSE SimpAddClauses(SimpAddClause(t, todo[1]), Tail(todo))

\* Mutant: the occurrences of a removed clause are still counted.
UncountedNone(t, cr) == t

Uncounted(t, cr) ==
    LET lits == t.arena[cr].lits
    IN  UpdateElimHeap([t EXCEPT !.nOcc = [l \in Lits |-> IF l \in ToSet(lits) THEN @[l] - 1
                                                                              ELSE @[l]],
                                 !.occs.dirty = @ \union VarsOf(lits)],
                       VarsOf(lits))

SimpRemoveClause(t, cr) == RemoveClause(IF t.useSimp THEN Uncounted(t, cr) ELSE t, cr)

RECURSIVE SimpRemoveClauses(_, _)
SimpRemoveClauses(t, crs) ==
    IF crs = << >> THEN t ELSE SimpRemoveClauses(SimpRemoveClause(t, crs[1]), Tail(crs))

\* enqueue of a literal and propagation, if it is not false.
PropagateUnit(t, p) ==
    LET r == Propagate(IF IsTrue(t, p) THEN t ELSE UncheckedEnqueue(t, p, CRefUndef))
    IN  IF IsFalse(t, p) THEN [s |-> t, fine |-> FALSE]
        ELSE [s |-> r.s, fine |-> r.confl = CRefUndef]

\* l is taken out of a clause.  A binary clause is removed and its other literal
\* propagated; another one is watched by its first two literals anew.
StrengthenClause(t, cr, l) ==
    LET q     == [t EXCEPT !.queue = Append(@, cr)]
        short == Strengthened(t.arena[cr].lits, l)
        unit  == [SimpRemoveClause(q, cr) EXCEPT !.arena[cr].lits = short]
        other == AttachClause([DetachStrict(q, cr) EXCEPT !.arena[cr].lits = short], cr)
    IN  IF Len(short) = 1 THEN PropagateUnit(unit, short[1])
        ELSE [s |-> UpdateElimHeap(
                        [other EXCEPT !.occs.list[Var(l)] = SelectSeq(@, LAMBDA x : x # cr),
                                      !.nOcc[l] = @ - 1], {Var(l)}),
              fine |-> TRUE]

-----------------------------------------------------------------------------
\* Backward subsumption.

\* The clauses of touched variables join the queue, each once.
GatherTouchedClauses(t) ==
    LET looked(v) == IF v \in t.touched THEN Live(t, t.occs.list[v]) ELSE << >>
        all == FirstVisits(FlattenSeq([v \in Vars |-> looked(v)]))
    IN  [t EXCEPT
            !.queue = @ \o SelectSeq(all, LAMBDA cr : cr \notin ToSet(t.queue)),
            !.touched = {},
            !.occs.list = [v \in Vars |-> IF v \in t.touched \intersect t.occs.dirty
                                          THEN Live(t, @[v]) ELSE @[v]],
            !.occs.dirty = @ \ t.touched]

\* The variable of lits with the fewest occurrences, the first of them.
BestVar(t, lits) ==
    LET size(i) == Len(t.occs.list[Var(lits[i])])
    IN  Var(lits[CHOOSE i \in DOMAIN lits : \A j \in DOMAIN lits :
                    size(i) < size(j) \/ (size(i) = size(j) /\ i <= j)])

Candidate(t, cr, x) ==
    /\ t.arena[x].mark = 0 /\ x # cr
    /\ SubsumptionLim = -1 \/ Len(t.arena[x].lits) < SubsumptionLim

\* Clause cr against the clauses of best from the j-th on, in the list as the
\* loop changes it.
RECURSIVE SubsumeFrom(_, _, _, _)
SubsumeFrom(t, cr, best, j) ==
    LET cs == t.occs.list[best]
        r  == Subsumes(t.arena[cr].lits, t.arena[cs[j]].lits)
        u  == StrengthenClause(t, cs[j], Not(r.lit))
    IN  IF j > Len(cs) \/ t.arena[cr].mark # 0 THEN [s |-> t, fine |-> TRUE]
        ELSE IF ~Candidate(t, cr, cs[j]) \/ r.kind = "none" THEN SubsumeFrom(t, cr, best, j + 1)
        ELSE IF r.kind = "subsumes"
        THEN SubsumeFrom(SimpRemoveClause(t, cs[j]), cr, best, j + 1)
        ELSE IF ~u.fine THEN u
        ELSE SubsumeFrom(u.s, cr, best, IF Var(r.lit) = best THEN j ELSE j + 1)

\* Mutant: of the new literals of level 0 only the first is looked at.
FirstUnitOnly(t) ==
    IF t.queue = << >>
    THEN [t EXCEPT !.arena[t.tmpunit].lits = <<t.trail[t.bwdsub + 1]>>,
                   !.bwdsub = Len(t.trail), !.queue = <<t.tmpunit>>]
    ELSE t

\* One turn of the loop of backwardSubsumptionCheck: the next clause of the
\* queue, or the next literal of level 0 as a unit clause when it is empty.
NextUnit(t) ==
    IF t.queue = << >>
    THEN [t EXCEPT !.arena[t.tmpunit].lits = <<t.trail[t.bwdsub + 1]>>,
                   !.bwdsub = @ + 1, !.queue = <<t.tmpunit>>]
    ELSE t

SubsumeNext(t) ==
    LET u    == NextUnit(t)
        cr   == u.queue[1]
        w    == [u EXCEPT !.queue = Tail(@)]
        best == BestVar(w, w.arena[cr].lits)
    IN  IF w.arena[cr].mark # 0 THEN [s |-> w, fine |-> TRUE]
        ELSE SubsumeFrom(Lookup(w, best), cr, best, 1)

-----------------------------------------------------------------------------
\* Asymmetric branching.

\* Mutant: the literal of v is assumed to be false as well.
RECURSIVE AssumeAll(_, _, _)
AssumeAll(t, v, lits) ==
    IF lits = << >> THEN t
    ELSE AssumeAll(IF IsFalse(t, lits[1]) THEN t
                   ELSE UncheckedEnqueue(t, Not(lits[1]), CRefUndef), v, Tail(lits))

RECURSIVE AssumeOthers(_, _, _)
AssumeOthers(t, v, lits) ==
    IF lits = << >> THEN t
    ELSE AssumeOthers(IF Var(lits[1]) # v /\ ~IsFalse(t, lits[1])
                      THEN UncheckedEnqueue(t, Not(lits[1]), CRefUndef) ELSE t, v, Tail(lits))

\* When the negations of the others conflict, the literal of v goes (or one that
\* is false at level 0 and comes after it).
Asymm(t, v, cr) ==
    LET lits == t.arena[cr].lits
        rest == SelectSeq(lits, LAMBDA l : Var(l) = v \/ IsFalse(t, l))
        r    == Propagate(AssumeOthers(NewDecisionLevel(t), v, lits))
        back == CancelUntil(r.s, 0)
    IN  IF t.arena[cr].mark # 0 \/ Satisfied(t, cr) THEN [s |-> t, fine |-> TRUE]
        ELSE IF r.confl # CRefUndef THEN StrengthenClause(back, cr, rest[Len(rest)])
        ELSE [s |-> back, fine |-> TRUE]

\* The clauses of v from the i-th on; one that loses v makes the loop skip the next.
RECURSIVE AsymmFrom(_, _, _)
AsymmFrom(t, v, i) ==
    LET r == Asymm(t, v, t.occs.list[v][i])
    IN  IF i > Len(t.occs.list[v]) THEN [s |-> t, fine |-> TRUE]
        ELSE IF ~r.fine THEN r ELSE AsymmFrom(r.s, v, i + 1)

-----------------------------------------------------------------------------
\* Variable elimination.

\* merge: the resolvent on v, unless it is always satisfied.
Merge(c, d, v) == {l \in ToSet(c) \union ToSet(d) : Var(l) # v}

Tautology(lits) == \E l \in lits : Not(l) \in lits

MkElimClause(lits, v) ==
    LET i == CHOOSE k \in DOMAIN lits : Var(lits[k]) = v IN Flip(lits, 1, i)

Resolvents(t, pos, neg, v) ==
    SelectSeq(FlattenSeq([i \in DOMAIN pos |-> [j \in DOMAIN neg |->
                  Merge(t.arena[pos[i]].lits, t.arena[neg[j]].lits, v)]]),
              LAMBDA lits : ~Tautology(lits))

\* The clauses of the sign that has fewer are stored, then the literal of the
\* other sign as the value by default.
Stored(t, pos, neg, v) ==
    LET kept  == IF Len(pos) > Len(neg) THEN neg ELSE pos
        other == MkLit(v, Len(pos) <= Len(neg))
    IN  Append([i \in DOMAIN kept |-> MkElimClause(t.arena[kept[i]].lits, v)], <<other>>)

\* eliminateVar up to the subsumption check at its end.  The resolvents are added
\* while the old clauses are still there.
EliminateVar(t0, v) ==
    LET t    == Lookup(t0, v)
        cls  == t.occs.list[v]
        with(l) == SelectSeq(cls, LAMBDA cr : l \in ToSet(t.arena[cr].lits))
        pos  == with(MkLit(v, FALSE))
        neg  == with(MkLit(v, TRUE))
        new  == Resolvents(t, pos, neg, v)
        u    == SimpAddClauses([t EXCEPT !.eliminated = @ \union {v},
                                         !.elim = @ \o Stored(t, pos, neg, v)],
                               [i \in DOMAIN new |-> Sorted(new[i])])
    IN  IF \/ Len(new) > Len(cls) + Grow
           \/ ClauseLim # -1 /\ \E i \in DOMAIN new : Cardinality(new[i]) > ClauseLim
        THEN [s |-> t, fine |-> TRUE, done |-> FALSE]
        ELSE IF ~u.ok THEN [s |-> u, fine |-> FALSE, done |-> FALSE]
        ELSE [s |-> [SimpRemoveClauses(u, cls) EXCEPT !.occs.list[v] = << >>],
              fine |-> TRUE, done |-> TRUE]

\* substitute: x takes the place of v in every clause; v is not to be decided any
\* more.
RECURSIVE SubstituteFrom(_, _, _, _)
SubstituteFrom(t, crs, v, x) ==
    LET lits == t.arena[crs[1]].lits
        new  == [i \in DOMAIN lits |->
                    IF Var(lits[i]) # v THEN lits[i] ELSE IF lits[i] < 0 THEN Not(x) ELSE x]
        u    == SimpAddClause(t, new)
    IN  IF crs = << >> THEN t
        ELSE IF ~u.ok THEN u
        ELSE SubstituteFrom(SimpRemoveClause(u, crs[1]), Tail(crs), v, x)

Substitute(t, v, x) ==
    LET u == Lookup([t EXCEPT !.eliminated = @ \union {v}], v)
    IN  SubstituteFrom(u, u.occs.list[v], v, x)

\* Mutant: the first variable that was eliminated comes first.
LastClause(elim) == 1

FirstToExtend(elim) == Len(elim)

\* extendModel: the stored clauses from the last to the first; the literal in
\* front becomes true when all the others are false.
RECURSIVE ExtendModel(_, _)
ExtendModel(m, elim) ==
    IF elim = << >> THEN m
    ELSE LET k == FirstToExtend(elim)
             c == elim[k]
             x == c[1]
         IN  ExtendModel(IF \A i \in 2 .. Len(c) : Not(c[i]) \in m
                         THEN (m \ {Not(x)}) \union {x} ELSE m,
                         SubSeq(elim, 1, k - 1) \o SubSeq(elim, k + 1, Len(elim)))

-----------------------------------------------------------------------------
\* Garbage collection.

\* relocAll: the occurrences, the queue and the temporary clause come before
\* what Solver::relocAll moves.
SimpGarbageCollect(t0) ==
    LET t       == IF t0.useSimp THEN CleanUpClauses(t0) ELSE t0
        earlier == IF t.useSimp
                   THEN FlattenSeq([v \in Vars |-> t.occs.list[v]]) \o t.queue \o <<t.tmpunit>>
                   ELSE << >>
        visits  == Visits(t, earlier)
        to(cr)  == Forwarded(visits, cr)
    IN  [MovedTo(t, visits) EXCEPT
            !.occs.list = [v \in Vars |-> [i \in DOMAIN @[v] |-> to(@[v][i])]],
            !.queue = [i \in DOMAIN @ |-> to(@[i])],
            !.tmpunit = IF t.useSimp THEN to(@) ELSE @]

\* The two outcomes of checkGarbage, whatever the limit, when something is wasted.
SimpCheckGarbage(t) == IF t.wasted > 0 THEN {t, SimpGarbageCollect(t)} ELSE {t}

\* Everything that simplification needs is freed, and simplify may remove
\* satisfied clauses from now on.
TurnOff(t) ==
    SimpGarbageCollect(RebuildOrderHeap(
        [t EXCEPT !.useSimp = FALSE, !.touched = {}, !.queue = << >>, !.elimHeap = {},
                  !.occs = [list |-> [v \in Vars |-> << >>], dirty |-> {}],
                  !.nOcc = [l \in Lits |-> 0]]))

=============================================================================
