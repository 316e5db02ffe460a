--------------------------- MODULE SymmetryGroup ---------------------------
(***************************************************************************)
(* How the generators come to be: the problem is read clause by clause     *)
(* (CNFModel), its graph is built (src/CNFGraph.cc), the tool reports      *)
(* automorphisms of the graph, on_automorphism of the finders walks the    *)
(* cycles of each, node by node, and adds their literals to a Permutation  *)
(* (src/Permutation.cc), and Group::addPermutation (src/Group.cc) filters  *)
(* and indexes it.                                                         *)
(***************************************************************************)
EXTENDS Problem

CONSTANTS Formulas,        \* the problems, sequences of lists of literals
          MaxAutomorphisms \* how many automorphisms the tool reports at most

\* A clause has literals: the end of the clause is its only sign otherwise.
ASSUME FormulasAssumption == Formulas \subseteq Seq(Seq(Literal) \ {<< >>})

ASSUME MaxAutomorphismsAssumption == MaxAutomorphisms \in Nat

\* CNFModel counts one variable before it has a clause.
ASSUME SomeVariableAssumption == NumVars > 0

VARIABLES input,          \* the clauses not yet read
          phase,          \* where the thread is
          automorphisms,  \* what the tool may report
          reported,       \* how many it has reported
          aut,            \* the automorphism being walked, a map of the nodes
          node,           \* i of on_automorphism
          cursor,         \* j of on_automorphism
          seen,           \* the nodes walked
          permutation,    \* the permutation being built
          permutations,   \* Group::_permutations
          watchers,       \* Group::_watchers
          symmetric,      \* Group::_symmetric
          inverting       \* Group::_inverting

finderVars == <<automorphisms, reported, aut, node, cursor, seen, permutation>>
tableVars  == <<permutations, watchers, symmetric, inverting>>
groupVars  == <<modelVars, input, phase, finderVars, tableVars>>

-----------------------------------------------------------------------------
\* The coloured graph of a CNF problem (src/CNFGraph.cc) and the automorphisms
\* a tool may find in it.  Nodes are numbered as in the code: first the
\* positive literals of the n variables, then the negative ones, then one node
\* for each clause that is not binary.  cs is the sequence of the clauses.
ClauseColor  == 1
LiteralColor == 0

Literal2Node(l, n) == IF l > 0 THEN l - 1 ELSE n + Variable(l) - 1

IsLiteralNode(x, n) == x < 2 * n

\* Only for the nodes of literals: node2Literal gives kNoLiteralIndex for
\* the others.
Node2Literal(x, n) == IF x < n THEN x + 1 ELSE -(x - n + 1)

\* Which of the first k clauses get a node, in the order of their nodes.
NodeClausesUpTo(cs) ==
    LET upTo[k \in 0 .. Len(cs)] ==
            IF k = 0 THEN << >>
            ELSE IF Cardinality(cs[k]) = 2 THEN upTo[k - 1]
            ELSE Append(upTo[k - 1], cs[k])
    IN  upTo

NodeClauses(cs) == NodeClausesUpTo(cs)[Len(cs)]

NumNodes(n, cs) == 2 * n + Len(NodeClauses(cs))

Nodes(n, cs) == 0 .. NumNodes(n, cs) - 1

\* A binary clause is an edge between its literals.
BinaryEdges(n, cs) ==
    {{Literal2Node(l, n) : l \in c} : c \in {d \in ToSet(cs) : Cardinality(d) = 2}}

ClauseEdges(n, cs) ==
    UNION {{{Literal2Node(l, n), 2 * n + i - 1} : l \in NodeClauses(cs)[i]} :
               i \in DOMAIN NodeClauses(cs)}

\* Boolean consistency: a literal and its negation.
ConsistencyEdges(n) ==
    {{Literal2Node(v, n), Literal2Node(-v, n)} : v \in 1 .. n}

\* Parallel edges are one edge here: a tautology of two literals adds a
\* second one, which an automorphism does not see.
Edges(n, cs) == BinaryEdges(n, cs) \cup ClauseEdges(n, cs) \cup ConsistencyEdges(n)

\* The size of the adjacency list of a literal's node: each clause with the
\* literal adds one entry (a tautology of two literals too), and so does the
\* negation.
Degree(l, cs) == 1 + Cardinality({i \in DOMAIN cs : l \in cs[i]})

\* No clause has the variable.
IsFreeVariable(v, cs) == Degree(v, cs) = 1 /\ Degree(-v, cs) = 1

\* A free variable's literals get colours of their own, counted up.
FreeColor(l, n, cs) ==
    ClauseColor + 1 + (IF l > 0 THEN 0 ELSE 1)
        + 2 * Cardinality({v \in 1 .. n : v < Variable(l) /\ IsFreeVariable(v, cs)})

LiteralNodeColor(l, n, cs) ==
    IF IsFreeVariable(Variable(l), cs) THEN FreeColor(l, n, cs) ELSE LiteralColor

Color(x, n, cs) ==
    IF IsLiteralNode(x, n) THEN LiteralNodeColor(Node2Literal(x, n), n, cs)
                           ELSE ClauseColor

\* The permutations of the nodes that keep their colours: the maps of the first
\* k nodes, each extended with another image.
ColorMaps(n, cs) ==
    LET color == [x \in Nodes(n, cs) |-> Color(x, n, cs)]
        free(f, x) == {y \in Nodes(n, cs) : color[y] = color[x] /\ y \notin Range(f)}
        upTo[k \in 0 .. NumNodes(n, cs)] ==
            IF k = 0 THEN {<< >>}
            ELSE UNION {{Extended(f, k - 1, y) : y \in free(f, k - 1)} : f \in upTo[k - 1]}
    IN  upTo

\* External: bliss and saucy report permutations of the nodes that keep the
\* edges and the colours, and no others.
Automorphisms(n, cs) ==
    LET edges == Edges(n, cs)
    IN  {f \in ColorMaps(n, cs)[NumNodes(n, cs)] :
            \A e \in edges : {f[x] : x \in e} \in edges}

-----------------------------------------------------------------------------
\* Mutant: the negation of an element need not go to the negation of its image.
IsSpuriousOneSided(p) ==
    \E l \in CycleLiterals(p) : IsTrivialImage(p, l) \/ IsTrivialImage(p, Negated(l))

\* Group::isPermutationSpurious.
IsPermutationSpurious(p) ==
    \E l \in CycleLiterals(p) :
        \/ IsTrivialImage(p, l)
        \/ IsTrivialImage(p, Negated(l))
        \/ Negated(p.image[l]) # p.image[Negated(l)]

-----------------------------------------------------------------------------
GroupInit ==
    /\ ModelInit
    /\ input \in Formulas
    /\ phase = "load"
    /\ automorphisms = {}
    /\ reported = 0
    /\ aut = << >>
    /\ node = 0
    /\ cursor = 0
    /\ seen = {}
    /\ permutation = EmptyPermutation
    /\ permutations = << >>
    /\ watchers = << >>
    /\ symmetric = {}
    /\ inverting = {}

\* CNFReader::load gives the next clause to the model.
LoadClause ==
    /\ phase = "load"
    /\ input # << >>
    /\ AddClause(Head(input))
    /\ input' = Tail(input)
    /\ UNCHANGED <<phase, finderVars, tableVars>>

\* The finder's constructor builds the graph, and the tool searches it.
FindAutomorphism ==
    /\ phase = "load"
    /\ input = << >>
    /\ automorphisms' = Automorphisms(numVariables, clauses)
    /\ phase' = "search"
    /\ UNCHANGED <<modelVars, input, reported, aut, node, cursor, seen,
                   permutation, tableVars>>

\* The tool reports an automorphism that is not the identity.
OnAutomorphism ==
    /\ phase = "search"
    /\ reported < MaxAutomorphisms
    /\ \E f \in automorphisms :
          /\ \E x \in DOMAIN f : f[x] # x
          /\ aut' = f
    /\ reported' = reported + 1
    /\ node' = 0
    /\ seen' = {}
    /\ permutation' = EmptyPermutation
    /\ phase' = "walk"
    /\ UNCHANGED <<modelVars, input, automorphisms, cursor, tableVars>>

\* The loop goes on past a fixed node or a node of a cycle already walked.
SkipNode ==
    /\ phase = "walk"
    /\ node \in DOMAIN aut
    /\ aut[node] = node \/ node \in seen
    /\ node' = node + 1
    /\ UNCHANGED <<modelVars, input, phase, automorphisms, reported, aut, cursor,
                   seen, permutation, tableVars>>

\* The permutation with a node of the current cycle: the nodes of clauses are
\* left out.
WithNode(p, x) ==
    IF IsLiteralNode(x, numVariables)
    THEN AddToCurrentCycle(p, Node2Literal(x, numVariables))
    ELSE p

\* The outer loop comes to a cycle that has not been walked.
StartCycle ==
    /\ phase = "walk"
    /\ node \in DOMAIN aut
    /\ aut[node] # node /\ node \notin seen
    /\ permutation' = WithNode(permutation, node)
    /\ seen' = seen \cup {node}
    /\ cursor' = aut[node]
    /\ phase' = "cycle"
    /\ UNCHANGED <<modelVars, input, automorphisms, reported, aut, node, tableVars>>

\* One turn of the inner loop.
FollowCycle ==
    /\ phase = "cycle"
    /\ cursor # node
    /\ permutation' = WithNode(permutation, cursor)
    /\ seen' = seen \cup {cursor}
    /\ cursor' = aut[cursor]
    /\ UNCHANGED <<modelVars, input, phase, automorphisms, reported, aut, node,
                   tableVars>>

\* The inner loop is back where it began.
CloseCycle ==
    /\ phase = "cycle"
    /\ cursor = node
    /\ permutation' = CloseCurrentCycle(permutation)
    /\ node' = node + 1
    /\ phase' = "walk"
    /\ UNCHANGED <<modelVars, input, automorphisms, reported, aut, cursor, seen,
                   tableVars>>

\* _watchers after its resize to the number of variables.
ResizedWatchers ==
    [v \in 1 .. numVariables |-> IF v \in DOMAIN watchers THEN watchers[v] ELSE {}]

\* The variables of the permutation watch it under its number, the position it
\* gets in _permutations.
IndexPermutation(p) ==
    LET moved == {Variable(l) : l \in CycleLiterals(p)}
    IN  /\ watchers' = [v \in 1 .. numVariables |->
               ResizedWatchers[v] \cup
                   IF v \in moved THEN {Len(permutations) + 1} ELSE {}]
        /\ symmetric' = symmetric \cup moved
        /\ inverting' = inverting \cup
               {Variable(l) : l \in {m \in CycleLiterals(p) : p.image[m] = Negated(m)}}

\* Mutant: the variables are indexed before the permutation is filtered.
AddPermutationIndexFirst ==
    /\ phase = "walk"
    /\ node \notin DOMAIN aut
    /\ IndexPermutation(permutation)
    /\ permutations' = IF NumCycles(permutation) = 0
                          \/ IsPermutationSpurious(permutation)
                       THEN permutations ELSE Append(permutations, permutation)
    /\ phase' = "search"
    /\ UNCHANGED <<modelVars, input, finderVars>>

\* Group::addPermutation, after the loop.
AddPermutation ==
    /\ phase = "walk"
    /\ node \notin DOMAIN aut
    /\ IF NumCycles(permutation) = 0 \/ IsPermutationSpurious(permutation)
       THEN UNCHANGED tableVars
       ELSE /\ IndexPermutation(permutation)
            /\ permutations' = Append(permutations, permutation)
    /\ phase' = "search"
    /\ UNCHANGED <<modelVars, input, finderVars>>

GroupNext ==
    \/ LoadClause \/ FindAutomorphism \/ OnAutomorphism
    \/ SkipNode \/ StartCycle \/ FollowCycle \/ CloseCycle \/ AddPermutation

GroupSpec == GroupInit /\ [][GroupNext]_groupVars

-----------------------------------------------------------------------------
\* Every variable has its type; the permutation being built and those of the
\* group are made of literals of the problem.
GroupTypeOK ==
    /\ numVariables \in Variables
    /\ numClauses \in Nat
    /\ \A i \in DOMAIN clauses : clauses[i] # {} /\ clauses[i] \subseteq Literal
    /\ phase \in {"load", "search", "walk", "cycle"}
    /\ node \in 0 .. NumNodes(numVariables, clauses)
    /\ seen \subseteq DOMAIN aut
    /\ IsPermutationRecord(permutation)
    /\ \A g \in DOMAIN permutations : IsPermutationRecord(permutations[g])
    /\ symmetric \cup inverting \subseteq Variables

\* A node of a literal never shares a cycle with the node of a clause, so that
\* a cycle is closed with two literals at least: the DCHECK_GE of
\* Permutation.cc:28.
ClosedCyclesMove ==
    \A c \in 1 .. NumCycles(permutation) : Len(Cycle(permutation, c)) >= 2

\* The maps of the permutation are those of the automorphism on the literals
\* walked so far, neither less nor more.
MapsMatchWalk ==
    LET l2n(l) == Literal2Node(l, numVariables)
        walked == {x \in seen : IsLiteralNode(x, numVariables)}
        moved  == {Node2Literal(x, numVariables) : x \in walked}
    IN  /\ DOMAIN permutation.image = moved
        /\ DOMAIN permutation.inverse = moved
        /\ \A l \in moved :
              /\ l2n(permutation.image[l]) = aut[l2n(l)]
              /\ permutation.inverse[permutation.image[l]] = l

\* Between two cycles the permutation being built follows the automorphism it
\* is made from, although it is written link by link and each cycle is closed
\* by closeCurrentCycle.
MapsFollowAutomorphism == ClosedCyclesMove /\ (phase # "cycle" => MapsMatchWalk)

\* The map of all literals that a permutation stands for, inverted: a literal
\* without an image is its own.
InverseMap(p) ==
    [l \in Literal |-> IF l \in DOMAIN p.inverse THEN p.inverse[l] ELSE l]

Satisfies(total, cs) == \A i \in DOMAIN cs : cs[i] \cap total # {}

\* One to one, compatible with negation, and a symmetry of the clauses, taking
\* models to models.
IsSymmetry(inv, cs) ==
    /\ IsInjective(inv)
    /\ \A l \in Literal : inv[Negated(l)] = Negated(inv[l])
    /\ \A total \in TotalAssignments :
          Satisfies(total, cs) <=> Satisfies({l \in Literal : inv[l] \in total}, cs)

\* A variable that is in no clause is in no generator: its literals have
\* colours of their own.
FreeVariablesStay ==
    \A v \in symmetric : \E i \in DOMAIN clauses : LiteralsOf(clauses[i], v) # {}

\* The generators the group accepts are what the rest of the library assumes.
\* The graph alone does not give this: an automorphism may exchange the edges of
\* binary clauses with those between a literal and its negation.
GeneratorsAreSymmetries ==
    /\ \A g \in DOMAIN permutations : IsSymmetry(InverseMap(permutations[g]), clauses)
    /\ FreeVariablesStay

\* The group's tables agree with its generators: a variable is watched by the
\* generators that move it, under the positions they have, is symmetric when
\* there is one, and inverting when one takes it to its negation.  So do the
\* counters of the problem with its clauses.
TablesMatchGenerators ==
    /\ permutations # << >> => DOMAIN watchers = 1 .. numVariables
    /\ \A v \in Variables :
          LET moving == {g \in DOMAIN permutations :
                            InverseMap(permutations[g])[v] # v}
          IN  /\ v \in DOMAIN watchers => watchers[v] = moving
              /\ v \in symmetric <=> moving # {}
              /\ v \in inverting <=>
                    \E g \in moving : InverseMap(permutations[g])[v] = -v
    /\ OccurencesOfClauses

=============================================================================
