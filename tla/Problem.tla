------------------------------ MODULE Problem ------------------------------
(***************************************************************************)
(* What the readers hand over: the clauses of the problem one by one       *)
(* (src/CNFModel.cc), and the permutations of its literals cycle by cycle  *)
(* (src/Permutation.cc, include/cosy/Permutation.h).                       *)
(*                                                                         *)
(* A stored clause is the set of its literals: addClause sorts them and    *)
(* removes duplicates.  The tag of a clause is the clause itself: two      *)
(* clauses with one hash value are not modelled.  A permutation is the     *)
(* record of the members of its class: the literals of all cycles, the     *)
(* ends of the closed cycles, and the two maps, which are functions whose  *)
(* domain grows.                                                           *)
(***************************************************************************)
EXTENDS Literals, SequencesExt, FiniteSets

VARIABLES numVariables,   \* numberOfVariables(): the last variable + 1
          numClauses,     \* _num_clauses, the clauses given to addClause
          clauses,        \* _clauses
          occurences      \* _occurences, a counter for each variable

modelVars == <<numVariables, numClauses, clauses, occurences>>

\* The literals of variable v in clause c.
LiteralsOf(c, v) == {l \in c : Variable(l) = v}

OccurencesIn(c, v) == Cardinality(LiteralsOf(c, v))

ModelInit ==
    /\ numVariables = 1
    /\ numClauses = 0
    /\ clauses = << >>
    /\ occurences = << >>

\* The number of variables once clause c is known: only the last literal of
\* the sorted clause is looked at.
VariablesWith(c) == Max({numVariables} \cup {Variable(l) : l \in c})

\* The counters, resized, with the literals of clause c.
OccurencesWith(c) ==
    [v \in 1 .. VariablesWith(c) |->
        OccurencesIn(c, v) + IF v \in DOMAIN occurences THEN occurences[v] ELSE 0]

\* addClause of a list of literals that is not empty.
AddClause(lits) ==
    LET c == ToSet(lits)
    IN  /\ numVariables' = VariablesWith(c)
        /\ numClauses' = numClauses + 1
        /\ IF c \in ToSet(clauses)
           THEN UNCHANGED <<clauses, occurences>>
           ELSE /\ clauses' = Append(clauses, c)
                /\ occurences' = OccurencesWith(c)

-----------------------------------------------------------------------------
\* A clause given twice is stored and counted once: the counters that the
\* order by occurences sorts are those of the stored clauses, and no stored
\* clause is a copy of another.
OccurencesOfClauses ==
    /\ IsInjective(clauses)
    /\ clauses # << >> => DOMAIN occurences = 1 .. numVariables
    /\ \A v \in DOMAIN occurences :
          occurences[v] = Cardinality({e \in (DOMAIN clauses) \X Literal :
                                          e[2] \in LiteralsOf(clauses[e[1]], v)})

-----------------------------------------------------------------------------
EmptyPermutation == [cycles |-> << >>, cyclesLim |-> << >>,
                     image |-> << >>, inverse |-> << >>]

EndOfCycles(p) == IF p.cyclesLim = << >> THEN 0 ELSE Last(p.cyclesLim)

\* The map f with y at x.
Extended(f, x, y) == [z \in DOMAIN f \cup {x} |-> IF z = x THEN y ELSE f[z]]

WithImage(p, e, i) == [p EXCEPT !.image   = Extended(@, e, i),
                                !.inverse = Extended(@, i, e)]

\* Mutant: the first literal of a cycle is linked to the cycle before.
AddToCycleLinked(p, x) ==
    LET q == [p EXCEPT !.cycles = Append(@, x)]
    IN  IF p.cycles # << >> THEN WithImage(q, Last(p.cycles), x) ELSE q

AddToCurrentCycle(p, x) ==
    LET q == [p EXCEPT !.cycles = Append(@, x)]
    IN  IF Len(p.cycles) # EndOfCycles(p) THEN WithImage(q, Last(p.cycles), x)
                                          ELSE q

NumCycles(p) == Len(p.cyclesLim)

Cycle(p, c) ==
    SubSeq(p.cycles, (IF c = 1 THEN 0 ELSE p.cyclesLim[c - 1]) + 1, p.cyclesLim[c])

CloseCurrentCycle(p) ==
    IF EndOfCycles(p) = Len(p.cycles) THEN p
    ELSE LET q == [p EXCEPT !.cyclesLim = Append(@, Len(p.cycles))]
         IN  WithImage(q, Last(Cycle(q, NumCycles(q))), Cycle(q, NumCycles(q))[1])

IsTrivialImage(p, l) == l \notin DOMAIN p.image

\* The literals moved by the closed cycles.
CycleLiterals(p) == UNION {ToSet(Cycle(p, c)) : c \in 1 .. NumCycles(p)}

-----------------------------------------------------------------------------
\* A permutation is made of literals of the problem.
IsPermutationRecord(p) ==
    /\ p.cycles \in Seq(Literal)
    /\ p.cyclesLim \in Seq(1 .. Len(p.cycles))
    /\ DOMAIN p.image \subseteq Literal /\ DOMAIN p.inverse \subseteq Literal

=============================================================================
