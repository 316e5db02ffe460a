--------------------------- MODULE VariableOrder ---------------------------
(***************************************************************************)
(* How the order of the variables is chosen: OrderFactory::create and the  *)
(* constructors of IncreaseOrder, OccurenceOrder and BreakIDOrder          *)
(* (include/cosy/OrderFactory.h, include/cosy/Order.h), with               *)
(* Orbits::assign (src/Orbits.cc).                                         *)
(*                                                                         *)
(* BreakID's order is a chain of stabilizers: it picks a variable, drops   *)
(* the generators that move it, and goes on with the others.  The orbits   *)
(* are visited in the order of a hash table, which is left open.           *)
(***************************************************************************)
EXTENDS Literals, SequencesExt, FiniteSets

CONSTANTS Groups,           \* the groups, sequences of inverse maps
          OccurenceChoices  \* the values of CNFModel::occurences

OrderMode == {"INCREASE", "OCCURENCE", "BREAKID", "AUTO"}

\* enableCosy makes no order for a group without generators, and
\* Group::addPermutation lets no identity in.
ASSUME GroupsAssumption ==
    /\ Groups \subseteq Seq([Literal -> Literal]) \ {<< >>}
    /\ \A gs \in Groups : \A g \in DOMAIN gs :
          /\ IsInjective(gs[g])
          /\ \A l \in Literal : gs[g][Negated(l)] = Negated(gs[g][l])
          /\ \E l \in Literal : gs[g][l] # l

ASSUME OccurencesAssumption == OccurenceChoices \subseteq [Variables -> Nat]

VARIABLES group,        \* Group::_permutations
          counts,       \* CNFModel::_occurences
          mode,         \* the kind of order asked for
          orderPhase,   \* where the constructor is
          queue,        \* Q, the generators that fix what was picked so far
          order         \* Order::_order

orderVars == <<group, counts, mode, orderPhase, queue, order>>

Generators == DOMAIN group

\* The generator's support has the variable.
Moves(g, v) == group[g][v] # v

-----------------------------------------------------------------------------
\* A set of variables that the generators do not leave.
IsClosed(S, gens) == \A g \in gens, v \in S : Variable(group[g][v]) \in S

\* Orbits::assign unites the variables of each cycle (with DisjointSets): what
\* the moved variables fall into is the least sets that the generators do not
\* leave.
OrbitsOf(gens) ==
    LET moved  == {v \in Variables : \E g \in gens : Moves(g, v)}
        closed == {S \in SUBSET moved : IsClosed(S, gens)}
    IN  {S \in closed \ {{}} : \A T \in closed \ {{}} : T \subseteq S => T = S}

\* occurence_generators: how many generators of Q move the variable.
OccurenceInGenerators(v) == Cardinality({g \in queue : Moves(g, v)})

\* The comparison of BreakIDOrder with the variable found so far.
IsBetter(v, next) ==
    \/ next = NoVariable
    \/ OccurenceInGenerators(v) < OccurenceInGenerators(next)
    \/ (OccurenceInGenerators(v) = OccurenceInGenerators(next) /\ v < next)

\* The loop over one orbit.  The variables of an orbit are all compared, so
\* that their order does not matter, and all of them are moved, so that none has
\* a counter of 0.  largest is the size of the orbit that gave the last
\* improvement.
VisitOrbit(found, orbit) ==
    LET best == CHOOSE v \in orbit : \A w \in orbit \ {v} : IsBetter(v, w)
    IN  IF Cardinality(orbit) >= found.largest /\ IsBetter(best, found.next)
        THEN [next |-> best, largest |-> Cardinality(orbit)]
        ELSE found

\* What the loop finds when it visits the orbits in the order of a sequence.
FoundUpTo(visits) ==
    LET found[k \in 0 .. Len(visits)] ==
            IF k = 0 THEN [next |-> NoVariable, largest |-> 0]
                     ELSE VisitOrbit(found[k - 1], visits[k])
    IN  found

NextVariable(visits) == FoundUpTo(visits)[Len(visits)].next

-----------------------------------------------------------------------------
\* Order::add fails its CHECK, and stops the program, on a variable it has.
AddAll(s) ==
    IF IsInjective(order \o s)
    THEN /\ order' = order \o s
         /\ orderPhase' = "ordered"
    ELSE /\ orderPhase' = "aborted"
         /\ UNCHANGED order

OrderInit ==
    /\ group \in Groups
    /\ counts \in OccurenceChoices
    /\ mode \in OrderMode
    /\ orderPhase = "create"
    /\ queue = {}
    /\ order = << >>

Inverting == {v \in Variables : \E g \in Generators : group[g][v] = -v}

\* AUTO takes BreakID when more than a quarter of the variables is inverting.
UsesBreakID ==
    \/ mode = "BREAKID"
    \/ (mode = "AUTO" /\ 4 * Cardinality(Inverting) > NumVars)

CreateIncrease ==
    /\ orderPhase = "create"
    /\ mode = "INCREASE"
    /\ AddAll([v \in Variables |-> v])
    /\ UNCHANGED <<group, counts, mode, queue>>

\* More occurences first, then the smaller variable.
OrderLt(i, j) ==
    IF counts[i] # counts[j] THEN counts[i] > counts[j] ELSE i < j

\* What std::sort makes of the variables.
SortedVariables ==
    {s \in [Variables -> Variables] :
        \A i, j \in Variables : i < j => OrderLt(s[i], s[j])}

CreateOccurence ==
    /\ orderPhase = "create"
    /\ mode \in {"OCCURENCE", "AUTO"}
    /\ ~UsesBreakID
    /\ \E sorted \in SortedVariables : AddAll(sorted)
    /\ UNCHANGED <<group, counts, mode, queue>>

CreateBreakID ==
    /\ orderPhase = "create"
    /\ UsesBreakID
    /\ queue' = Generators
    /\ orderPhase' = "breakid"
    /\ UNCHANGED <<group, counts, mode, order>>

\* Mutant: the generators that move the variable are kept, not dropped.
StillMoving(v) == {g \in queue : Moves(g, v)}

\* The generators that fix the variable.
Filtered(v) == {g \in queue : ~Moves(g, v)}

\* One turn of the loop over Q.
PickNext ==
    /\ orderPhase = "breakid"
    /\ queue # {}
    /\ \E visits \in SetToSeqs(OrbitsOf(queue)) :
          LET next == NextVariable(visits)
          IN  IF next \in ToSet(order)
              THEN /\ orderPhase' = "aborted"
                   /\ UNCHANGED <<order, queue>>
              ELSE /\ order' = Append(order, next)
                   /\ queue' = Filtered(next)
                   /\ UNCHANGED orderPhase
    /\ UNCHANGED <<group, counts, mode>>

\* The first k variables but those that are in the order already, by number.
RemainingUpTo ==
    LET upTo[k \in 0 .. NumVars] ==
            IF k = 0 THEN << >>
            ELSE IF k \in ToSet(order) THEN upTo[k - 1]
            ELSE Append(upTo[k - 1], k)
    IN  upTo

CompleteOrder ==
    /\ orderPhase = "breakid"
    /\ queue = {}
    /\ AddAll(RemainingUpTo[NumVars])
    /\ UNCHANGED <<group, counts, mode, queue>>

OrderNext ==
    \/ CreateIncrease \/ CreateOccurence \/ CreateBreakID
    \/ PickNext \/ CompleteOrder

\* The constructor runs to its end in one thread.
OrderSpec == OrderInit /\ [][OrderNext]_orderVars /\ WF_orderVars(OrderNext)

-----------------------------------------------------------------------------
\* The types of the constructor's variables.
OrderTypeOK ==
    /\ group \in Groups
    /\ counts \in OccurenceChoices
    /\ mode \in OrderMode
    /\ orderPhase \in {"create", "breakid", "ordered", "aborted"}
    /\ queue \subseteq Generators
    /\ order \in Seq(Variables)

\* What the statuses assume of an order (OrderAssumption of StatusRules): each
\* variable once.  In particular the loop always finds a variable, never one it
\* picked before, and no CHECK of Order::add fails.
OrderListsVariables ==
    /\ orderPhase # "aborted"
    /\ NoVariable \notin ToSet(order)
    /\ orderPhase = "ordered" => IsInjective(order) /\ ToSet(order) = Variables

\* BreakID's order is a chain of stabilizers: the generators left are those
\* that fix every variable picked, so that the first variable of the order a
\* generator moves is the one that dropped it.
QueueIsStabilizer ==
    orderPhase = "breakid" =>
        queue = {g \in Generators : \A v \in ToSet(order) : ~Moves(g, v)}

\* What is asked of the order in every state.
OrderIsRight == QueueIsStabilizer /\ OrderListsVariables

\* The constructor ends, whatever the orbits and the hash order: every pick
\* drops a generator.
OrderIsMade == <>(orderPhase = "ordered")

=============================================================================
