----------------------------- MODULE SolverTypes -----------------------------
(***************************************************************************)
(* Literals, clauses, the clause allocator and the occurrence lists with   *)
(* lazy deletion of the two solvers: core/SolverTypes.h; and what the      *)
(* inline functions of core/Solver.h do to the state of a solver.          *)
(*                                                                         *)
(* A variable v of the code (counted from 0) is v + 1 here and a literal   *)
(* is its signed variable; the index 2v + sign is kept where its order     *)
(* matters.  A clause reference is the position of the clause in the       *)
(* arena, a sequence that grows at its end and is rebuilt by relocation.   *)
(***************************************************************************)
EXTENDS Integers, Sequences, FiniteSets, SequencesExt

CONSTANT NumVars          \* the number of variables given to newVar

ASSUME SolverVarsAssumption == NumVars \in Nat

Vars == 1 .. NumVars

MkLit(v, sign) == IF sign THEN -v ELSE v

Not(l) == -l

Var(l) == IF l > 0 THEN l ELSE -l

Sign(l) == l < 0

Lits == {MkLit(v, sign) : v \in Vars, sign \in BOOLEAN}

\* All literals in the order of their index, and those of a set in it.
LitOrder == [k \in 1 .. 2 * NumVars |-> MkLit((k + 1) \div 2, k % 2 = 0)]

Sorted(lits) == SelectSeq(LitOrder, LAMBDA l : l \in lits)

CRefUndef == 0

-----------------------------------------------------------------------------
\* Clauses and their allocator.

NewClause(lits, learnt) == [lits |-> lits, learnt |-> learnt, mark |-> 0]

\* Words of memory: the header, the literals, and the activity of a learnt
\* clause.
ClauseWords(c) == 1 + Len(c.lits) + (IF c.learnt THEN 1 ELSE 0)

Alloc(arena, lits, learnt) == Append(arena, NewClause(lits, learnt))

Free(arena, cr) == [arena EXCEPT ![cr].mark = 1]

RECURSIVE WordsOf(_, _)
WordsOf(arena, crefs) ==
    IF crefs = {} THEN 0
    ELSE LET cr == CHOOSE x \in crefs : TRUE
         IN  ClauseWords(arena[cr]) + WordsOf(arena, crefs \ {cr})

ArenaSize(arena) == WordsOf(arena, DOMAIN arena)

Wasted(arena) == WordsOf(arena, {cr \in DOMAIN arena : arena[cr].mark = 1})

\* The references in the order in which reloc first sees them.
FirstVisits(refs) ==
    LET first(i) == \A j \in 1 .. i - 1 : refs[j] # refs[i]
        kept == SelectSeq([i \in DOMAIN refs |-> i], first)
    IN  [k \in DOMAIN kept |-> refs[kept[k]]]

\* reloc copies a clause at its first visit and leaves the forwarding
\* reference that every later visit takes.
Relocated(arena, visits) == [k \in DOMAIN visits |-> arena[visits[k]]]

Forwarded(visits, cr) == CHOOSE k \in DOMAIN visits : visits[k] = cr

-----------------------------------------------------------------------------
\* Occurrence lists: a list for each literal and the set of those that may
\* hold watchers of deleted clauses.

NoOccs == [list |-> [l \in Lits |-> << >>], dirty |-> {}]

Push(occs, l, w) == [occs EXCEPT !.list[l] = Append(@, w)]

Smudge(occs, l) == [occs EXCEPT !.dirty = @ \union {l}]

WatcherDeleted(arena, w) == arena[w.cref].mark = 1

\* Clean filters one list, CleanAll all the dirty ones.
Clean(occs, arena, l) ==
    [occs EXCEPT !.list[l] = SelectSeq(@, LAMBDA w : ~WatcherDeleted(arena, w)),
                 !.dirty = @ \ {l}]

CleanAll(occs, arena) ==
    [list |-> [l \in Lits |-> IF l \in occs.dirty THEN Clean(occs, arena, l).list[l]
                                                  ELSE occs.list[l]],
     dirty |-> {}]

-----------------------------------------------------------------------------
\* c.subsumes(d): "subsumes", the literal of c whose negation can be taken
\* out of d, or "none".  The first literal met with the other sign is the one
\* that may be resolved upon.
Subsumes(c, d) ==
    LET flipped == {i \in DOMAIN c : c[i] \notin ToSet(d) /\ Not(c[i]) \in ToSet(d)}
        missing == {i \in DOMAIN c : c[i] \notin ToSet(d) /\ Not(c[i]) \notin ToSet(d)}
    IN  IF Len(d) < Len(c) \/ missing # {} \/ Cardinality(flipped) > 1
        THEN [kind |-> "none", lit |-> 0]
        ELSE IF flipped = {} THEN [kind |-> "subsumes", lit |-> 0]
        ELSE [kind |-> "strengthens", lit |-> c[CHOOSE i \in flipped : TRUE]]

Strengthened(lits, p) == SelectSeq(lits, LAMBDA l : l # p)

-----------------------------------------------------------------------------
(***************************************************************************)
(* What the inline functions of core/Solver.h read of and write to the     *)
(* state of a solver.  The state is a record s with the fields             *)
(*   arena, watches    the clauses and who watches which literal           *)
(*   clauses, learnts  the references of the problem and learnt clauses    *)
(*   trail, lim        the assigned literals, and where each level starts  *)
(*   qhead             how many of them were propagated                    *)
(*   reason            the reference each variable was assigned from       *)
(*   heap              the variables in the branching heap                 *)
(*   polarity          the sign with which a variable is decided           *)
(*   ok                FALSE once the clauses are known to have no model   *)
(* assigns and the levels of vardata are functions of trail and lim.  The  *)
(* reason of an unassigned variable is what its last assignment left.      *)
(***************************************************************************)

DecisionLevel(s) == Len(s.lim)

IsTrue(s, l) == \E i \in DOMAIN s.trail : s.trail[i] = l

IsFalse(s, l) == IsTrue(s, Not(l))

IsUndef(s, l) == ~IsTrue(s, l) /\ ~IsFalse(s, l)

Position(s, v) == CHOOSE i \in DOMAIN s.trail : Var(s.trail[i]) = v

Assigned(s, v) == \E i \in DOMAIN s.trail : Var(s.trail[i]) = v

LevelOf(s, v) == Cardinality({k \in DOMAIN s.lim : s.lim[k] < Position(s, v)})

Satisfied(s, cr) == \E i \in DOMAIN s.arena[cr].lits : IsTrue(s, s.arena[cr].lits[i])

\* Mutant: the heap stays as it is.
HeapAsItIs(heap, vs) == heap

InsertVarOrder(heap, vs) == heap \union vs

NewDecisionLevel(s) == [s EXCEPT !.lim = Append(@, Len(s.trail))]

UncheckedEnqueue(s, p, from) ==
    [s EXCEPT !.trail = Append(@, p), !.reason[Var(p)] = from]

=============================================================================
