------------------------------ MODULE MCLibrary ------------------------------
(***************************************************************************)
(* Instances for TLC of what the library and the solvers are built from:   *)
(* the group, the order, the disjoint sets, the bitsets and the region,    *)
(* which this module extends, and parts that it instantiates.              *)
(* Each has a state of its own and one of them, inUse, takes the steps of  *)
(* a behaviour; the others stay as they were created.                      *)
(***************************************************************************)
EXTENDS SymmetryGroup, VariableOrder, DisjointSets, Bitset, Region

VARIABLES
    inUse,
    \* The readers; the problem is that of the group.
    files, readPhase, stream, header, solverVars, formula, warned, handed,
    \* The containers of the solvers.
    heap, indices, keys, removed,
    buf, first, end,
    elems, firstPlace, lastPlace, sumofqueue, maxsize, queuesize, pushes,
    tables,
    array, original, outside

readVars    == <<files, readPhase, stream, header, solverVars, formula, warned,
                 handed>>
heapVars    == <<heap, indices, keys, removed>>
ringVars    == <<buf, first, end>>
windowVars  == <<elems, firstPlace, lastPlace, sumofqueue, maxsize, queuesize,
                 pushes>>
sortVars    == <<array, original, outside>>

vars == <<inUse, groupVars, readVars, orderVars, setVars, bitsetsVars,
          heapVars, ringVars, windowVars, tables,
          memoryVars, sortVars>>

-----------------------------------------------------------------------------
\* Problem files, character by character but for the words nothing looks into.

Header(v, c) == <<"p", " ", "cnf", " ", v, " ", c, "\n">>
NoSymmetries == <<"[", "\n", "]", "\n">>

\* The literal map of the positive literals' images; the other variables stay.
Map(positive) ==
    LET image(v) == IF v \in DOMAIN positive THEN positive[v] ELSE v
    IN  [l \in Literal |-> IF l > 0 THEN image(l) ELSE -image(-l)]

\* A comment, and blanks.
PlainFile ==
    [cnf |-> <<"c", "x", "\n">> \o Header("3", "2")
             \o <<"1", " ", "2", " ", "0", "\n",
                  "-", "3", " ", " ", "1", " ", "0", "\n">>,
     sym |-> NoSymmetries, generators |-> << >>]

\* A clause over two lines, a comment between two clauses, a clause that comes
\* twice, no end of line at the end, and two generators, one with a cycle of
\* clauses and a number of two digits.
TwoGenerators ==
    [cnf |-> Header("2", "3")
             \o <<"1", "\n", "2", " ", "0", "\n", "c", "1", " ", "0", "\n",
                  "2", " ", "1", " ", "0", "\n", "-", "1", " ", "-", "2", " ",
                  "0">>,
     sym |-> <<"[", "\n",
               "(", "1", ",", "2", ")", "(", "3", ",", "4", ")",
               "(", "5", ",", "6", ",", "1", "0", ")", ",", "\n",
               "(", "1", ",", "4", ",", "6", ")", "(", "3", ",", "2", ")", "\n",
               "]", "\n">>,
     generators |-> <<Map(<<2, 1, 3>>), Map(<<-2, -1, 3>>)>>]

\* Two clauses on one line: the controller reads the first one.
TwoOnALine ==
    [cnf |-> Header("2", "2") \o <<"2", " ", "0", " ", "1", " ", "0", "\n">>,
     sym |-> NoSymmetries, generators |-> << >>]

\* A variable that is in no clause.
FreeVariable ==
    [cnf |-> Header("3", "1") \o <<"1", " ", "2", " ", "0", "\n">>,
     sym |-> NoSymmetries, generators |-> << >>]

\* What no reader takes for a clause.
PercentSign ==
    [cnf |-> Header("1", "2") \o <<"1", " ", "0", "\n", "%", "\n", "0", "\n">>,
     sym |-> NoSymmetries, generators |-> << >>]

\* The empty clause.
EmptyClause ==
    [cnf |-> Header("2", "1")
             \o <<"1", " ", "2", " ", "0", "\n", "0", "\n">>,
     sym |-> NoSymmetries, generators |-> << >>]

MCFiles == {PlainFile, TwoGenerators, TwoOnALine, FreeVariable, PercentSign,
            EmptyClause}

\* Problems for the group.  Each has a feature of the graph: binary clauses
\* only, edges of clauses that look like those of negation, unit clauses,
\* clause nodes that an automorphism exchanges, a variable in no clause, a
\* tautology, repeated literals and clauses.
MCFormulas == {
    << <<1, 2>>, <<2, 3>>, <<3, 1>>, <<2, 1>> >>,
    << <<1, -2>>, <<-1, 2>>, <<3>> >>,
    << <<1, 2, 3>>, <<-1, -2, -3>> >>,
    << <<-1>>, <<2, 2>> >>,
    << <<1, 3>>, <<3, 1, 3>>, <<-1, -3>> >>,
    << <<1, -1>>, <<2, 3>>, <<-2, -3>> >>,
    << <<1, -1, 2>>, <<3, -2>>, <<1, 3>> >>,
    << <<1, 2>>, <<-1, -2>>, <<2, 1>>, <<3>>, <<-2, -1>> >>}

\* Groups over five variables for the order: orbits of different sizes in one
\* generator, generators that share variables, orbits that fall apart when a
\* generator is dropped, and none, one or two inverting variables, less and
\* more than a quarter.
MCGroups == {
    <<Map(<<2, 1, 4, 5, 3>>)>>,
    <<Map(<<2, 1, 3, 4, 5>>), Map(<<1, 2, 4, 3, 5>>),
      Map(<<1, 2, 3, 5, 4>>)>>,
    <<Map(<<2, 1, 3, 4, 5>>), Map(<<1, 3, 2, 4, 5>>),
      Map(<<5, 2, 3, 4, 1>>)>>,
    <<Map(<<-2, -1, 4, 3, 5>>), Map(<<1, -2, 3, 4, 5>>)>>,
    <<Map(<<-1, 2, 5, 4, 3>>), Map(<<1, -2, 3, 4, 5>>),
      Map(<<1, 2, 4, -3, 5>>)>>,
    <<Map(<<2, 3, 1, 5, 4>>), Map(<<1, 2, 3, 5, 4>>)>>}

MCOccurences == {
    [v \in 1 .. 5 |-> 2],
    [v \in 1 .. 5 |-> IF v = 4 THEN 7 ELSE v % 3]}

-----------------------------------------------------------------------------
Reading == INSTANCE ProblemFiles WITH
    Files <- MCFiles, Chunks <- {1, 4}, phase <- readPhase

Order == INSTANCE Heap WITH Elements <- 0 .. 3, Keys <- 0 .. 2

Ring == INSTANCE Queue WITH
    Values <- {"x", "y"}, Unset <- "unset", MaxQueued <- 4

Window == INSTANCE BoundedQueue WITH
    WindowValues <- {1, 2, 5}, WindowSizes <- {2, 3}, MaxPushes <- 7

Table == INSTANCE HashMap WITH
    MapKeys <- {0, 2, 5}, MapData <- {"d1", "d2"}, Primes <- <<2, 3>>,
    Maps <- {"a", "b"}

Sorting == INSTANCE Sort WITH
    Ranks <- 0 .. 3, SortLength <- 6, SmallSort <- 2

ASSUME Order!HeapAssumption

Part == {"readers", "group", "order", "sets", "bitset", "sparse bitset",
         "bit queue", "heap", "queue", "bounded queue", "map", "region",
         "sort"}

-----------------------------------------------------------------------------
Init ==
    /\ inUse \in Part
    /\ IF inUse = "sort" THEN TRUE ELSE array = << >>
    /\ IF inUse = "readers" THEN TRUE ELSE files = PlainFile
    /\ IF inUse = "group" THEN TRUE ELSE input = << <<-1>>, <<2, 2>> >>
    /\ Reading!Init
    /\ inUse # "readers" => stream.chunk = 1
    /\ GroupInit
    /\ OrderInit
    /\ inUse # "order" =>
           mode = "AUTO" /\ Len(group) = 1 /\ counts[1] = 2
    /\ SetsInit
    /\ BitsetsInit
    /\ Order!HeapInit
    /\ Ring!Init
    /\ Window!WindowInit
    /\ Table!MapInit
    /\ RegionInit
    /\ Sorting!Init

\* A step of the part in use.
Next ==
    /\ UNCHANGED inUse
    /\ inUse \notin {"readers", "group"} => UNCHANGED modelVars
    /\ IF inUse = "readers" THEN Reading!Next ELSE UNCHANGED readVars
    /\ IF inUse = "group" THEN GroupNext ELSE UNCHANGED <<input, phase, finderVars, tableVars>>
    /\ IF inUse = "order" THEN OrderNext ELSE UNCHANGED orderVars
    /\ IF inUse = "sets" THEN SetsNext ELSE UNCHANGED setVars
    /\ IF inUse = "bitset" THEN BitsetNext ELSE UNCHANGED bits
    /\ IF inUse = "sparse bitset" THEN SparseNext ELSE UNCHANGED sparseVars
    /\ IF inUse = "bit queue" THEN QueueNext ELSE UNCHANGED queueVars
    /\ IF inUse = "heap" THEN Order!HeapNext ELSE UNCHANGED heapVars
    /\ IF inUse = "queue" THEN Ring!Next ELSE UNCHANGED ringVars
    /\ IF inUse = "bounded queue" THEN Window!WindowNext ELSE UNCHANGED windowVars
    /\ IF inUse = "map" THEN Table!MapNext ELSE UNCHANGED tables
    /\ IF inUse = "region" THEN RegionNext ELSE UNCHANGED memoryVars
    /\ IF inUse = "sort" THEN Sorting!Next ELSE UNCHANGED sortVars

\* The constructor of an order runs to its end in one thread.
Spec == Init /\ [][Next]_vars /\ WF_vars(inUse = "order" /\ Next)

-----------------------------------------------------------------------------
\* Every variable of the part in use has its type.
TypeOK ==
    CASE inUse = "readers" -> Reading!TypeOK
      [] inUse = "group" -> GroupTypeOK
      [] inUse = "order" -> OrderTypeOK
      [] inUse = "sets" -> SetsTypeOK
      [] inUse = "bitset" -> BitsetTypeOK
      [] inUse = "sparse bitset" -> SparseTypeOK
      [] inUse = "bit queue" -> QueueTypeOK
      [] inUse = "heap" -> Order!HeapTypeOK
      [] inUse = "queue" -> Ring!TypeOK
      [] inUse = "bounded queue" -> Window!WindowTypeOK
      [] inUse = "map" -> Table!MapTypeOK
      [] inUse = "region" -> RegionTypeOK
      [] inUse = "sort" -> Sorting!TypeOK

\* The solver's reader and the controller's make the same problem of a file,
\* and the generators are those written in theirs (ProblemFiles).
ReadersAgree ==
    inUse = "readers" =>
        Reading!ReadersAgree /\ Reading!GeneratorsAreThoseWritten

\* A literal that the solver notifies has a place in the assignment of the
\* controller (the assertion at Bitset.h:524, ProblemFiles).
NotifiedLiteralsHavePlaces ==
    inUse = "readers" => Reading!NotifiedLiteralsHavePlaces

\* The constructor of the order ends (VariableOrder).
OrderEnds == inUse = "order" => OrderIsMade

\* The bitsets, the heap of the variables, the queue of the clauses and the
\* hash map implement sets, a priority queue, a queue and a finite map, sorting
\* orders what it is given and keeps within it, the trees of the disjoint sets
\* have short paths, and the windows of the restarts are over the last values
\* (Bitset, Heap, Queue, HashMap, Sort, DisjointSets, BoundedQueue).
ContainersImplement ==
    /\ AsSets!Init /\ Order!AsPriorityQueue!Init
    /\ Ring!Abstract!Init /\ Table!AsFiniteMap!Init
    /\ [][/\ inUse = "bitset" => AsSetsStep
          /\ inUse = "heap" => Order!AsPriorityQueueStep
          /\ inUse = "queue" => Ring!AbstractStep
          /\ inUse = "map" => Table!AsFiniteMapStep
          /\ inUse = "sort" => Sorting!SortStep]_vars
    /\ [](inUse = "sets" => RanksBoundTrees)
    /\ [](inUse = "bounded queue" => Window!SumIsOfLastPushes)

=============================================================================
