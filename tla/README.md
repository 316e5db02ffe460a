# A formal model of cosy and its solvers

cosy, the symmetry library of sat_symmetry, breaks the symmetries of a SAT
problem while a CDCL solver searches. It follows the solver's assignment and, as
soon as that assignment cannot be extended to the smallest assignment of its
orbit (the *lex leader*), hands the solver a clause (an *effective symmetry
breaking predicate*, ESBP) that is a conflict. This directory holds TLA+ modules
for the library, for the two solvers that the repository brings along and for
the library inside Glucose, TLC configurations that check them on small
instances, and TLAPS proofs of results that hold for instances of any size.

## The system

| Component | State | Operations | Meets |
|---|---|---|---|
| `Literal`, `Assignment` | the bitset of true literals | assign, unassign, value tests | read by every status, written by the controller only |
| `Bitset` and its relatives | words and a size | set, clear, ranges, resize, iteration | under the assignment |
| `Order`, `OrderFactory` | the variables' order, the smaller truth value | `leq`, `isMinimalValue`, construction from the group | shared by the statuses |
| `Permutation`, `Group` | cycles, image and inverse maps, watchers of a variable | `addPermutation` (filters), `watch` | tells the manager which statuses hear of a variable |
| `Orbits`, `DisjointSets` | the union-find forest | `add`, `find`, `unite` | the order is made from the orbits |
| `CosyStatus` | lookup order, lookup index, undo stack, state | `updateNotify`, `updateCancel`, clause generation | one for each generator |
| `CosyManager` | the statuses | `defineOrder`, `generateUnits`, `updateNotify` (stops at the first reducer), `updateCancel` | called by the controller, fills the injector |
| `ClauseInjector` | clauses by type and cause | `addClause`, `hasClause`, `getClause`, `removeClause` | between statuses and solver |
| `SymmetryController` | all of the above | constructors, `enableCosy`, `updateNotify`, `updateCancel`, `clauseToInject` | the interface to a solver |
| `CNFModel`, `CNFGraph`, symmetry finders | clauses, coloured graph | build, find automorphisms | fill the group once, before the search |
| readers, `StreamBuffer` | buffer and position | parse DIMACS and saucy files | fill the model and the group |
| Glucose, `core/` | arena of clauses, watch lists, trail, queue, levels, windows | `addClause`, `simplify`, `solve`, `toDimacs`, and the hooks that call the controller | owns the search |
| Glucose, `simp/` | occurrence lists, subsumption queue, eliminated clauses | `eliminate`, `substitute`, `setFrozen`, `solve` | before, between and after searches |
| Minisat, `core/` | as Glucose, older | `addClause`, `simplify`, `solve` | a solver of its own |
| `mtl/` and `core/BoundedQueue.h` | heap, ring, hash table, allocators, window, sort | their methods | under both solvers |

Everything runs in one thread; only an interrupt may come at any time. What is
hard is the *protocol*. Statuses are incremental cursors over an assignment that
changes under them; they miss notifications when the manager stops early, in an
order that a hash table decides; they are put back by cancels that match an entry
by its variable only; clauses wait in a store keyed by a variable that may be
assigned again; and the solver ends propagations early, cancels literals it never
announced, restarts, and solves again with new statuses over old assignments. In
the solvers, references to clauses are kept in five places while a collector
moves the clauses; watches are detached lazily; and elimination, strengthening
and propagation change the same clauses in turns. Whether any of this is right
shows only in long sequences of calls, and a mistake makes the solver answer
wrongly or crash in conflict analysis.

## Modules

### The library

| Module | Models | Correspondence |
|---|---|---|
| `Literals` | `Literal.h`, `Assignment.h` | signed literals; variable `x` of the code is `x + 1`; the assignment is the set of bits set |
| `Problem` | `CNFModel.cc`, `Permutation.cc` | clauses as sets of literals; a permutation is the record of its cycles and its two maps |
| `ProblemFiles` | both buffered streams, the solver's parser, `CNFReader.cc`, `SaucyReader.cc`, the controller's constructors | one action for each line, clause or generator; the buffer's size is open |
| `SymmetryGroup` | the finders' callback, `CNFGraph.cc`, `Group.cc` | nodes numbered as in the code; one action for each clause read, automorphism reported, node visited and permutation added; a finder may report any automorphism |
| `VariableOrder` | `OrderFactory.h`, the orders of `Order.h`, `Orbits.cc` | one action for each constructor and each turn of BreakID's loop; the hash order of the orbits is open |
| `DisjointSets`, `Partition` | `DisjointSets.h` and what it promises | `Add`, `Find`, `Union` with ranks and path compression |
| `BitWords`, `Bitset`, `BoundedSets` | `Bitset.h` with `BitQueue64` and `SparseBitset`, `Bitset.cc`, and what a bitset promises | a word is the set of its bits, `W` their number; one action for each method |
| `StatusRules` | the computations of `CosyStatus.cc` and the comparisons of `Order.cc` | operators on assignment, lookup order, inverse and index (counted from 1); `Order` is any sequence of the variables, `ValueMode` either mode; images, orbits and lex leaders are specification, without code |
| `CosyStatus` | one `CosyStatus` and the calls that reach it | `Notify`, `NotTold` (the manager stopped, or the permutation leaves the variable alone), `Cancel`, `Renew` (a new manager) |
| `SymmetryController` | controller, manager, all the statuses, injector | one action for each call; the store of clauses is a function of type and cause; the visiting order of watchers is open |
| `ControlledStatus` | the manager as the status of one permutation, `Watched`, sees it | the refinement mapping from `SymmetryController` to `CosyStatus` |
| `Glucose` | the hooks in `solve_`, `propagate`, `search`, `cancelUntil`, `learntSymmetryClause` | one action for each step between two calls to the controller; `phase` is the program counter; clauses are open |

### The solvers

| Module | Models | Correspondence |
|---|---|---|
| `SolverTypes` | `core/SolverTypes.h` and the inline functions of `core/Solver.h` | a solver is a record; a clause reference is a position in the arena; watch lists detach lazily |
| `Minisat` | Minisat's `core/Solver.cc` | one action for each method the user calls and each turn of `search`'s loop |
| `GlucoseSolver`, `GlucoseCDCL` | Glucose's `core/Solver.cc` | methods as operators on a solver; the search as actions, as in `Minisat` |
| `SimpMethods`, `SimpSolver` | Glucose's `simp/SimpSolver.cc` | the same for preprocessing; one action for each turn of a loop that looks at the interrupt |
| `SymmetricGlucose` | Glucose with clauses *and* controller, from parsing to the answer | the search of `GlucoseCDCL`, taken apart where it calls the controller: one action for each literal dequeued, each watcher visited, each literal cancelled |
| `Heap`, `PriorityQueue` | `mtl/Heap.h` and what it promises | keys change under the heap, as in the code |
| `Queue`, `Fifo` | `mtl/Queue.h` and what it promises | a ring that grows |
| `HashMap`, `FiniteMap` | `mtl/Map.h` and what it promises | buckets and rehashing |
| `Region` | `mtl/Alloc.h`, `mtl/Vec.h` | capacities with the width of the code as a parameter |
| `BoundedQueue` | `core/BoundedQueue.h` | the windows of the restarts |
| `Sort` | `mtl/Sort.h` | the scans of `sort`, which check no bound |

`MC*` are the instances for TLC. The proofs are in modules of their own, each of
which extends the modules it is about:

| Module | About |
|---|---|
| `StatusRulesProofs` | the operators of `StatusRules`: lookup orders, cursors, undo stacks, what a verdict says of the total extensions, what a clause excludes |
| `CosyStatusProofs` | `CosyStatus` |
| `SymmetryControllerProofs` | `SymmetryController` and `ControlledStatus` |
| `GlucoseProofs` | `Glucose` |
| `SymmetryGroupProofs` | `Problem` and `SymmetryGroup` |
| `OrbitProofs` | `DisjointSets` (with `Partition`) and `VariableOrder` |
| `BitsetProofs` | `BitWords` and `Bitset` (with `BoundedSets`) |
| `ContainerProofs` | `Queue` (with `Fifo`), `Region`, `Heap` (with `PriorityQueue`), `BoundedQueue`, `HashMap` (with `FiniteMap`) |

### How they are composed

- `ControlledStatus` instantiates `CosyStatus` with the variables that the manager
  keeps for one permutation; `StatusKeepsProtocol` states that the manager
  implements it. `Watched` may be any of the permutations, so what is proved of a
  status holds of each of them.
- `Glucose` extends `SymmetryController`: its steps contain the controller's
  actions.
- `SymmetryGroup` and `ProblemFiles` extend `Problem`, which both fill.
- `SymmetricGlucose` extends `GlucoseCDCL` and instantiates `Glucose` with
  expressions of its state (trail, queue and levels of the solver; the conflict's
  literals; the phase from the program counter). `ImplementsGlucose` states that
  each of its steps is one of `Glucose` or leaves the calls alone, from the moment
  the controller is made. So the search with real clauses makes only calls that
  `Glucose` was checked for with any clauses, and what is proved of a status for
  all its behaviours holds of the statuses inside the controller inside Glucose.
  The two inner steps are proved (`ManagerKeepsProtocol`, `GlucoseKeepsProtocol`);
  TLC checks the outer one.
- `SimpSolver` uses the search of `GlucoseSolver`; `Minisat` and `GlucoseSolver`
  share `SolverTypes`.
- `SymmetryGroup` and `VariableOrder` run before the search and are connected
  with it by assumptions: `GeneratorsAreSymmetries` states what
  `InversesAssumption` of `SymmetryController` assumes of the permutations,
  `OrderIsRight` what `OrderAssumption` of `StatusRules` assumes of the order. Both
  are proved. A finder may report any automorphism of the graph, also several that
  do not generate the group, which is more than bliss and saucy do. `VariableOrder`
  takes any group of permutations that commute with negation.
- `Bitset`, `Heap`, `Queue`, `HashMap` and `DisjointSets` are shown to implement
  the abstract types (sets, a priority queue, a queue, a map, a partition) that
  the other modules use in their place.

A definition whose comment begins with "Mutant" is a version with a plausible bug
of the definition that follows it. The specifications do not use it; each property
has one that violates it.

## Runs

All runs are exhaustive. "Vars" is the number of variables.

| Run | Vars | Shows |
|---|---|---|
| `status_involution` | 4 | cursor, undo stack and verdict of one status for the permutation (2 -3)(4 1); cycles of other lengths are in `status_forcing_leader` and in the proofs |
| `controller` | 4 | two callers of the controller, see below: clauses are conflicts when made, never outlive their cause and exclude no lex leader; statuses keep their protocol; the controller follows the queue; no symmetric model is accepted; no enqueued literal is forgotten |
| `symmetric_glucose` | 6 | clauses from statuses are learnt and resolved upon: the least models are kept, no false clause is missed, the calls are those of `Glucose` |
| `glucose_cdcl` | 4 | Glucose alone: no model lost, propagation complete, reasons imply, answers right, `toDimacs` equisatisfiable under the last assumptions, in both modes |
| `minisat_search` | 4 | Minisat: the same, and no reference to a clause dangles |
| `simp_solve` | 4 | preprocessing: models of what is left extend to models of the problem; occurrence lists and counts are exact; watches are ready; answers are right |
| `library` | 5 | readers, group, order, disjoint sets, bitsets and containers, each in every order of its calls |
| `status_forcing_leader` | 4 | violation: forcing loses the leader of a permutation with a literal and its negation in one cycle |
| `glucose_cancel_assert` | 4 | violation: literals are cancelled that the controller has not assigned |
| `simp_interrupt` | 5 | violation: an interrupt in the subsumption check makes a later answer wrong |
| `simp_rcheck` | 4 | violation: with `use_rcheck` an unsatisfiable problem becomes satisfiable |
| `problem_refused` | 5 | violation: a problem the controller's reader refuses leaves an assignment without places |

**`controller`** holds two callers, told apart by the variable `caller`: *any
solver*, which calls as it likes within the protocol, and *Glucose*, whose search
makes the calls. The generators are (4 1)(3 -3) and (2 -2)(4 1) under the order
2 4 1 3, with forcing clauses on; two solves, and no or two literals that are
assigned before the controller exists. In `MCLibrary` the variable `inUse` tells
thirteen parts apart in the same way; the others stay as created.

### Bounds, and why they are enough

- *Status and controller.* With four variables a lookup order has up to four
  positions, so the cursor can pass several in one call, pass none, and be put
  back over several entries of the undo stack. The order is never that of the
  variables' numbers. Permutations that are not their own inverses are in
  `status_forcing_leader` and in the proofs. Two generators with common variables
  are the least for which the early break leaves one behind; `MaxEnables` = 2 gives a new manager
  over old assignments. Nothing bounds conflicts, restarts or notifications.
- *Solvers.* `MaxSolves` = 2 (and `MaxCalls` = 2 for preprocessing) is the least
  with something left over from a call. `LateClauses` bounds how many clauses
  come after the first call, to one. In `SimpSolver` variables are frozen and
  substituted before the first call only, no interrupt comes during the last
  call, and branching takes the variables in their order; `InterruptsSubsumption`
  says whether an interrupt may come in the loop of the subsumption check, which
  is what `simp_interrupt` is about. `RestartFirst`, `ConflictBudget`,
  `FirstReduceDB`, `IncReduceDB`, `LearntDivisor`, `SizeLBDQueue`,
  `LowerBoundForBlockingRestart` and `GarbageDivisor` are small so that restarts,
  reductions and collections happen within a few conflicts. Each problem of an
  `MC` module has the feature its comment names: a minimized learnt clause, a
  backjump over three levels, a clause strengthened twice.
- *The composition.* `MaxSolves` = 1, no assumptions and no interrupt, as `main`
  calls it. Four free variables, and two that are assigned before the controller
  exists or that the clauses tie to the others; (1 -2)(3 4)(5 6) and (1 -1)(2 -2)
  over the order 2 1 3 4 6 5 give unit, binary and longer symmetry clauses.
- *The library.* Word width `W` = 2 with five bits gives ranges inside a word,
  over two and over three words. `Primes` are two capacities, so that the table
  grows once over colliding keys; `MaxInt` = 31, so that a reference counts to 63,
  makes the growth of a region overflow; `SmallSort` = 2 makes `sort` recursive with six elements; the ring
  grows twice while it wraps; `Chunks` puts the end of the buffer at every
  character and at a few. The eight problems for the group each have one feature
  that a graph can be wrong about; a tree of rank 2 with a path to compress needs
  four of the five elements.

Deadlock is checked where something must always be possible: in `controller`
(cancelling is possible only in the order the code relies on, so a trail literal
that could not be cancelled would be one), `symmetric_glucose`, `glucose_cdcl`
and `minisat_search`. It is not checked elsewhere: the actions of `CosyStatus` are
what an environment may do, and a status may never be called again; the calls of
`SimpSolver` (`MaxCalls`) and the parts of `MCLibrary` come to an end.

### Fairness

One thread runs the solver until it stops. `Spec` of `MCController` assumes weak
fairness of the whole next-state relation of the caller *Glucose*, and `MCLibrary`
of the constructor of an order; no fairness of a choice (a decision, a restart,
the end of a propagation) is assumed. `ToldOrCancelled` then says that a literal
in the queue is told to the controller or cancelled, and `OrderEnds` that the
constructor ends. That a search ends is not stated: in the code it rests on the
growing restart intervals and on numeric activities, which are open here.

### Two properties that need a word

`NoConflictIsMissed` of `SymmetricGlucose` asks of the clauses that a status made
only that they are not *false* unnoticed. The stronger statement, that they are
not unit either, does not hold: such a clause is watched by the two literals that
the solver put first, and when these are false at different levels a backjump may
leave the clause unit without a watcher that says so. It is harmless, because
propagation finds the conflict when the last literal becomes false.

`ModelIsMinimal` has a condition on `root`: literals assigned by `simplify` before
the controller exists are never notified. Clauses stay correct, but statuses stop
at their pairs, and models that are no leaders are accepted.

## What was found

Every violation run is a finding in `PROJECT.json`, with the line it contradicts.

- **`simp_interrupt`** (bug). `backwardSubsumptionCheck` answers an interrupt by
  forgetting the literals of level 0 it has not propagated, while a clause may
  have just been attached with these as its watches. A later `solve` gives a
  model that violates the clause. The problem of the run, given to the compiled
  solver with an interrupt at that point, gives the same answer.
- **`simp_rcheck`** (bug, `-rcheck` is off by default). `eliminateVar` adds the
  resolvents before it removes the clauses they come from, so the check for
  implied clauses drops all of them. The compiled solver answers SATISFIABLE for
  the unsatisfiable problem of the run.
- **`problem_refused`** (bug). The solver's parser takes two clauses on one line,
  `CNFReader` does not; the constructor of the controller returns without an
  assignment and the solver goes on to notify it.
- **`glucose_cancel_assert`**. `cancelUntil` cancels literals that were never
  notified, against the assertion of `Assignment::unassignLiteral`. The run
  `controller` shows that nothing else follows: no entry of a status is popped by
  such a call.
- **`status_forcing_leader`**. `FORCE_LEX_LEADER` is right when the permutation is
  its own inverse. In general the pair of a literal and its inverse compares the
  assignment with one image only.

Observations without a run:

- `Bitset64::Resize` says that new bits are set to 0 (`Bitset.h:454`). After a Resize
  to a smaller size inside a word they are what they were: `BoundedSets` keeps the
  numbers that a size has room for. `SparseBitset::Resize` takes the positions from
  the new size on off its list, so after `Set(4)`, `Resize(3)`, `Resize(10)` bit 4 is
  set, and no clearing that goes through the list is sure to reach it. That no other
  call takes a set position off the list is `OnlyResizeUnlists`. The library resizes
  an assignment once, from empty.
- `toDimacs(file, assumps)` does not look at `assumps`: it writes the assumptions that
  the last `solve` left behind (`core/Solver.cc:1371`), so that after a `solve` under
  assumptions the file is not that of the problem alone, whatever is passed.
  Its header is printed before the variables of the assumptions are numbered, so
  that the number of variables in it may be too small.
  `DimacsIsEquisatisfiable` is about the file that is written. Minisat does the same.
- The clause of `generateForceLexLeaderESBP` gives the variable of the unassigned
  literal the value of the assigned literal, also when the unassigned literal is
  negative. The flag for these clauses is off.
- BreakID's order is said to pick from the largest orbit; its loop prefers a
  smaller orbit that it visits first unless the larger one has a rarer variable,
  or one as rare with a smaller number. The order is a heuristic; any order is
  right.
- Automorphisms of the graph need not be symmetries of the problem (the edge of
  a binary clause looks like that of a variable): `GeneratorsAreSymmetries` fails
  without the test of negations in `Group::isPermutationSpurious`.
- Clauses that are satisfied at level 0 are freed also when they are the reason of
  a literal of level 0; the reference stays until the next collection of garbage
  and nothing follows it. `ReasonsImply` asks of such a reason only that it is a
  clause of the arena that holds the literal.

## Proofs

Every result below holds for every number of variables and elements, every order,
value mode and set of permutations, and every choice that the models leave open.

### One status

`IInv` is `TypeOK` and `UndoStackMatchesTrail`, and it is inductive:

1. `TypeCorrect`: the assignment is the set of the notified literals, each
   variable once. Everything else needs it.
2. `UndoStackCorrect`: for each entry of the undo stack, when it was pushed, and
   that the pairs passed by then are equal on what was assigned by then.
   `LookupPrefixEqual` alone is not inductive: a cancel could pop too little. What
   makes it hold is that the entry on top is the one of the literal cancelled
   whenever the prefix depends on that literal, and 2 says that.
3. `LookupPrefixCorrect`: `LookupPrefixEqual`, from 2.
4. `InvolutionsCompareImages`: for a permutation that is its own inverse the
   verdicts (reducer, inactive, forcing) are right about every total assignment
   that extends the current one. The proof takes the first variable of the order
   at which the assignment and its image may differ, shows that it is the first
   variable of the pair at the cursor, and uses 3 for the variables before it.

### The controller, called by any solver

`ControllerIInv` is the types, `StacksMatch` (2 above for every status) and
`InjectorMatches`: an ESBP that waits at a variable has been false since the
literal of that variable was notified, and a forcing clause was unit then. These
are statements about the history of notifications, not about the current
assignment, because backtracking may take later literals away. From it:

- `ControllerTypeCorrect`; `ManagerKeepsProtocol`, the refinement of each
  `CosyStatus`, with the manager's early break and any order of the watchers;
- `ClausesAreConflicts`: a waiting ESBP is false, and a forcing clause is unit
  while its cause is the last literal;
- `ClausesKeepLeaders`, for permutations that are their own inverses: no waiting
  ESBP or unit clause excludes an assignment that no generator makes smaller.

### The search of Glucose

`GlucoseIInv` is `ControllerIInv`, the types, `TrailMatches` (the trail is what
simplify assigned, then what was notified, then the queue), `LevelsMatch` (a
decision is made when all below it was told), `CancelMatchesLevels` (what
`cancelUntil` has left), `QueueMatches` (where the thread is, against the queue)
and `ClauseIsCurrent` (the clause that is analysed). `GlucoseTypeCorrect`,
`GlucoseKeepsProtocol` (each step of the search is a step of the controller's
protocol or leaves it alone, so the three results above carry over:
`SearchClausesAreConflicts`, `SearchKeepsLeaders`), `QueueIsFollowed` and
`ConflictsAreCurrent` follow from it. The last also needs `UnitsAreSettled`: each
unit clause of the controller is on the trail from level 0 or still waits to be
put there, so no later decision contradicts it.

`NoReducerIsMissed` needs one more invariant, `ReducersAreSeen`: while the search
goes on no status is a reducer of what was notified, and after a backjump of what
is left, although statuses that a reducer kept from hearing of a literal have
stale cursors. `ModelsAreMinimal` follows for permutations that are their own
inverses when `root` is empty.

### The group

`GroupIInv` is `ProblemIsRead` (the stored clauses have no empty one and the
counters are theirs), `PhaseIsRight` (only automorphisms of the finished graph are
walked), `WalkIsRight` (the permutation under construction has the automorphism's
maps on exactly the literals walked, and the open cycle is a chain of them) and
`TablesAreRight`. `GroupTypeCorrect`, `WalkFollowsAutomorphism`
and `TablesAgree` are parts of it. `SymmetriesOnly` adds what the graph is for: an
automorphism that keeps colours and edges maps literal nodes to literal nodes and
clause nodes to clause nodes; with the group's test that it commutes with
negation it keeps the models, although an edge of a binary clause looks like that
of a variable.

### Order and disjoint sets

- `OrderIInv` is the types, `OrderIsRight`, that the order lists no variable
  twice, and that it is empty before the constructor begins. BreakID's loop never
  picks a variable twice: while `Q` is not empty its generators move something, so
  an orbit exists and among the orbits a best one; the variable picked from it is
  moved by a generator of `Q`, which fixes all that is in the order.
  `OrderTypeCorrect` and `OrderCorrect` follow.
- `SetsIInv` is that the parents form a forest in which ranks grow, and that
  `numSets` counts its roots. With growing ranks a path to the root has no node
  twice, so by counting elements it ends (`FindEnds`). `SetsImplementPartition`
  uses that roots are determined by two facts, that they do not change along
  parents and are themselves at roots: both are simple to show of a compressed or
  a linked forest.

### The containers of the solvers

*The ring.* `RingIInv` says that the ring has a place for every index and that
`first` and `end` are places. The queue is the places from `first` on, around the
end: an insertion that fills the last free place replaces the ring by a larger one,
and the proof of `RingImplementsFifo` shows that the sequence read off it stays.
`MaxQueued` may be any number.

*The allocators.* `RegionIInv` is `BlockInv`, that the regions given out are apart
and end at `sz` at the latest, that `sz` is at most `cap`, and that the units
wasted and the units given out add up to `sz`, and `VectorInv`, that a vector has
room for its elements. The growth of a capacity is a recursive function of the
number of turns; whether it ends with enough, wraps around below where it began or
never ends, what it returns is enough or the allocation throws
(`CapacityIsEnough`). `RegionTypeCorrect` and `RegionsStayApart`
(`RegionsAreApart`) follow, for every width of an int.

*The heap.* `HeapIInv` says that the elements are at the places that `indices`
tells, each once, and that none has a smaller key than its parent. It is broken
inside every method, so the proof follows the loops:

1. While an element is percolated the array has a hole. The array with the element
   put into its hole is the heap of the argument: a turn of a loop exchanges two
   elements of it (`MovedIsExchanged`), so the elements and their indices stay right.
2. The order is broken at most between the hole and its parent on the way up, or
   its children on the way down, and the parent of the hole is in order with these
   children (`UpKeepsOrder`, `DownKeepsOrder`). Each way ends where nothing is broken.
3. The loops are functions of the number of turns; the first turn at which a loop
   ends exists because the hole moves towards one end of the array (`Iteration`,
   from well-founded minima, as no induction over functions is needed).
4. `build` puts the nodes from the last inner one up in order. The root has the least
   key since a least element whose parent is not least would be a parent's child in
   disorder (`FirstIsLeast`).

`HeapTypeCorrect` and `HeapImplementsPriorityQueue` follow: each method changes the
set of elements as the priority queue's does, also `update`, which takes an element
that may not be in the heap, and `removeMin` takes one with the least key.

*The windows.* `WindowIInv` says that the places from `last` on, around the end,
hold the last pushes in the order of the pushes, and that the sum is theirs. A push
to a full window drops the first of them; that `last` follows `first` to place 0
when `first` wraps around matters at that moment. `WindowsSumLastPushes`
(`SumIsOfLastPushes`) adds that the average of a full window lies between its least
and its greatest element.

*The hash table.* `MapIInv` says that there is a function from the keys to data, or
to none, such that each bucket has the keys of its remainder, each once, with their
data, and that the size counts the keys with data (`IsTable`, `IsMap`).

1. What `has`, `peek` and `[]` find is then that function: the pairs with a key are
   one pair or none (`LookupFinds`), so the first and the last match agree.
2. A rehashed table is followed pair by pair. After some buckets, and some pairs of
   the next, the new table holds the function on the keys seen (`Taken`, `Merged`),
   and no key is stored twice since each is in one bucket of the old table.
3. A removal moves the last pair of a bucket to the gap; a pair of the shorter bucket
   comes from one place of the longer one (`RemovalKeeps`).

`MapTypeCorrect` and `HashMapImplementsFiniteMap` follow. The list of capacities may
be any list of positive numbers: at its end the table stops growing and the buckets
get longer, which the theorem covers.

### The bitsets

`BitsetsInv` is the types, and that `top` is the last position set in the queue.
`BitsetTypeCorrect`, `BitsetsImplementSets` (each method changes the bitset as it
would change a set of numbers) and `BitsetsAnswer` (`BitsetsAnswerTheSet`: tests,
ranges, counts, the iterator, the list of the sparse bitset) follow from it. A bit
may lie past the size: the abstract sets of `BoundedSets` have room for the numbers
of the last word (`Room`), so that nothing about sizes is assumed of the caller, and
the iterator visits these positions as well. The argument:

1. A position is a word and a bit of it, and positions are ordered as these pairs.
   This is arithmetic for each width from 2 to 64 and the only place where the
   proof looks at the width, besides 3.
2. A mask is the interval of the bits it leaves; a range of positions is the end of
   one word, whole words, and the beginning of another (`RangeParts`), in that
   order or within one word.
3. The scans for the least and the most significant bit halve the width in each of
   six turns and keep the bit looked for in the half they go on with.
4. The iterator stops at the first word that is not empty, and drops from it the
   bit it returns.

### Assumptions

| Assumption | Of | Established by |
|---|---|---|
| `NumVarsAssumption`, `SomeVariableAssumption` | a natural number of variables, at least one for a group | `CNFModel` counts one variable before the first clause |
| `OrderAssumption` | the order lists each variable once | `OrderCorrect` |
| `ValueModeAssumption` | one of two modes | `OrderFactory` |
| `InverseAssumption`, `InversesAssumption` | one-to-one maps of the literals that commute with negation | `SymmetriesOnly` |
| `LookupOrderAssumption` | the moved variables in the order's order | `CosyManager::defineOrder`; lemma `LookupOfIsLookup` for the ones the controller builds |
| `WatchedAssumption` | one of the permutations | a choice of the theorem's reader |
| `RootChoicesAssumption` | literals of different variables | the solver's trail |
| `EsbpForcingAssumption`, `MaxEnablesAssumption`, `MaxAutomorphismsAssumption` | a flag, two bounds | bounds of the models; any number |
| `FormulasAssumption` | clauses that are not empty | `CNFModel::addClause` asserts it |
| `GroupsAssumption` | one-to-one, commuting with negation, not the identity | `SymmetriesOnly`, `Group::addPermutation` |
| `OccurencesAssumption` | a count for each variable | `TablesAgree` |
| `WordAssumption`, `BitsetAssumption` | the width of a word is a power of 2 up to 64; a natural bound of the sizes | the templates of `Bitset.h`; any number |
| `RegionAssumption` | the largest int is odd; an allocation is of a positive int, a vector grows to less than the largest int | two's complement; the assertion of `alloc`, the parameter of `growTo` |
| `HeapAssumption` | finitely many variables, which are natural numbers; integers for keys | `Var` of the solvers; activities and counts |
| `WindowAssumption` | natural numbers are pushed; a window has room for one | block distances and trail sizes; the options of the restarts |
| `MapAssumption` | finitely many keys, natural numbers; "none" is no datum; positive capacities, at least one | `CRef` is unsigned and hashed to itself; `primes` of `Map.h` |

"For permutations that are their own inverses" is a hypothesis of
`InvolutionsCompareImages`, `ClausesKeepLeaders`, `SearchKeepsLeaders` and
`ModelsAreMinimal` only; `status_forcing_leader` shows that the statement about
forcing does not hold without it.

### Only model-checked

- The solvers (`Minisat`, `GlucoseCDCL`, `SimpSolver`, `SymmetricGlucose` with
  `ImplementsGlucose`), the readers and `Sort`: their modules use recursive
  operators, which the prover's arithmetic backend does not accept.
- The other half of `RanksBoundTrees`, that a tree of rank r has 2^r elements: the
  installed provers know no recursion law of exponentiation.
- Lex leaders of groups: orbits are a closure, recursive over data. The proofs
  compare an assignment with its images under the generators.
- Liveness (`ToldOrCancelled`, `OrderEnds`).

## Not modelled

- **Minisat with the library.** The hooks in Minisat's sources call an older
  interface (`updateNotify` with a level, a map of reasons) that the library no
  longer has; they are not built with it, so there is nothing to translate.
- **Minisat's `simp/` and its `mtl/`** are the text of Glucose's up to names and
  statistics; `SimpMethods`, `SimpSolver` and the container modules stand for both.
- **Heuristics.** Activities, decay, the averages that trigger a restart, the
  allowance of `simplify` and which learnt clauses are least active are numbers
  that decide *when* something is done: any of these may be done at any time in
  the models that search (`SimpSolver` branches in one order, to keep it small).
- **bliss and saucy** are external and the code that hands them the graph builds no
  state of its own; `SymmetryGroup` takes any automorphism.
- **Numbers too large for an `int`** in a problem file are undefined behaviour in
  both readers; the files of the model have short numbers.
- **Equal hash values** in `CNFModel`, which takes them for duplicates: 64 bits of
  hash are not enumerated; clauses are compared as sets.
- **Statistics, printing, logging, options and the solvers' signal handlers** do
  not change what a search does; an interrupt is modelled by the flag it sets.

Assertions. `ProblemFiles` takes the assertions of the readers as compiled in: the
program stops at a character none of them expects. The makefile's default build
has `-DNDEBUG` and would read on. In `Bitset`, `Heap`, `Queue`, `HashMap` and
`Region` what a method asserts of its arguments (a position below the size, an
element that is or is not there, a queue that is not empty, a positive size) is the
caller's to keep, and a guard. In the modules of the library's own steps and of the
solvers an assertion is no guard: it is implied by a property that holds, or a run
shows it violated, or it is a condition that the property names
(`DimacsIsEquisatisfiable`: no assumption is false at level 0). `LOG(FATAL)` prints
a message and does not stop the program.

## Plan

Done: everything above. What is left, in this order:

1. `OrbitProofs`: the orbits that `VariableOrder` uses are those that
   `DisjointSets` computes from the generators' cycles.
2. A fair `GlucoseCDCL` with activities abstracted to a bounded number of
   reductions, from which the end of a search could be stated.
3. `Minisat` with recursive functions in place of its recursive operators and of
   `SelectSeq`, so that the provers reach it, and then the invariant behind its four
   properties: the order of the trail and its levels, two watchers for each clause
   also while a list is being visited, a reason's other literals false before it.
