-------------------------------- MODULE Heap --------------------------------
(***************************************************************************)
(* The heap of mtl/Heap.h, which holds the variables to decide on and      *)
(* those to eliminate.  heap is an array from 0; indices has the place of  *)
(* each element in it, -1 for none.  The caller changes a key and calls    *)
(* decrease, increase or update at once.                                   *)
(***************************************************************************)
EXTENDS Integers, SequencesExt, FiniteSets

CONSTANTS Elements,   \* the variables, from 0
          Keys        \* what lt compares

HeapAssumption ==
    /\ IsFiniteSet(Elements) /\ Elements \subseteq Nat
    /\ Keys \subseteq Int /\ Keys # {}

NoElement == -1

VARIABLES heap,      \* heap
          indices,   \* indices
          keys,      \* the activity, or the cost, of each variable
          removed    \* the result of the last call of removeMin

heapVars == <<heap, indices, keys, removed>>

HeapSize(h) == Cardinality(DOMAIN h)

Left(i)   == 2 * i + 1
Right(i)  == 2 * (i + 1)
Parent(i) == (i - 1) \div 2

Lt(k, x, y) == k[x] < k[y]

InHeap(n) == n \in DOMAIN indices /\ indices[n] >= 0

\* The state of a percolation: the element that looks for its place is to fill
\* the hole.
Hole(h, idx, i) == [heap |-> h, indices |-> idx, hole |-> i]

\* The element at i fills the hole and leaves one there.
Moved(s, i) ==
    Hole([s.heap EXCEPT ![s.hole] = s.heap[i]],
         [s.indices EXCEPT ![s.heap[i]] = s.hole], i)

Placed(s, x) ==
    [heap |-> [s.heap EXCEPT ![s.hole] = x], indices |-> [s.indices EXCEPT ![x] = s.hole]]

GoesUp(s, k, x) == s.hole # 0 /\ Lt(k, x, s.heap[Parent(s.hole)])

UpTurn(s, k, x) == IF GoesUp(s, k, x) THEN Moved(s, Parent(s.hole)) ELSE s

\* The element at start looks for its place upwards.
PercolateUp(h, idx, k, start) ==
    LET up[t \in 0 .. start] ==
            IF t = 0 THEN Hole(h, idx, start) ELSE UpTurn(up[t - 1], k, h[start])
    IN  Placed(up[start], h[start])

SmallerChild(h, k, i) ==
    IF Right(i) < HeapSize(h) /\ Lt(k, h[Right(i)], h[Left(i)]) THEN Right(i) ELSE Left(i)

GoesDown(s, k, x) ==
    /\ Left(s.hole) < HeapSize(s.heap)
    /\ Lt(k, s.heap[SmallerChild(s.heap, k, s.hole)], x)

DownTurn(s, k, x) ==
    IF GoesDown(s, k, x) THEN Moved(s, SmallerChild(s.heap, k, s.hole)) ELSE s

PercolateDown(h, idx, k, start) ==
    LET turns == HeapSize(h) - start
        down[t \in 0 .. turns] ==
            IF t = 0 THEN Hole(h, idx, start) ELSE DownTurn(down[t - 1], k, h[start])
    IN  Placed(down[turns], h[start])

HeapBecomes(s) == heap' = s.heap /\ indices' = s.indices

-----------------------------------------------------------------------------
HeapInit ==
    /\ heap = [i \in {} |-> 0]
    /\ indices = [n \in {} |-> -1]
    /\ keys = [n \in Elements |-> CHOOSE k \in Keys : TRUE]
    /\ removed = NoElement

\* vec::growTo(n + 1, -1).
Grown(idx, n) ==
    [m \in 0 .. Max({n} \cup DOMAIN idx) |-> IF m \in DOMAIN idx THEN idx[m] ELSE -1]

Inserted(n, k) ==
    LET last == HeapSize(heap)
    IN  PercolateUp([i \in 0 .. last |-> IF i = last THEN n ELSE heap[i]],
                    [Grown(indices, n) EXCEPT ![n] = last], k, last)

HeapInsert(n, newKey) ==
    /\ ~InHeap(n)
    /\ keys' = [keys EXCEPT ![n] = newKey]
    /\ HeapBecomes(Inserted(n, keys'))
    /\ removed' = NoElement

Decrease(n, newKey) ==
    /\ InHeap(n)
    /\ newKey < keys[n]
    /\ keys' = [keys EXCEPT ![n] = newKey]
    /\ HeapBecomes(PercolateUp(heap, indices, keys', indices[n]))
    /\ removed' = NoElement

Increase(n, newKey) ==
    /\ InHeap(n)
    /\ newKey > keys[n]
    /\ keys' = [keys EXCEPT ![n] = newKey]
    /\ HeapBecomes(PercolateDown(heap, indices, keys', indices[n]))
    /\ removed' = NoElement

\* An element of the heap moves up, and then down from where it is.
Update(n, newKey) ==
    /\ keys' = [keys EXCEPT ![n] = newKey]
    /\ IF InHeap(n)
       THEN LET up == PercolateUp(heap, indices, keys', indices[n])
            IN  HeapBecomes(PercolateDown(up.heap, up.indices, keys', up.indices[n]))
       ELSE HeapBecomes(Inserted(n, keys'))
    /\ removed' = NoElement

\* Mutant: the first element is forgotten before the last one takes its place.
RemoveMinForgetFirst ==
    /\ HeapSize(heap) > 0
    /\ LET x     == heap[0]
           last  == heap[HeapSize(heap) - 1]
           moved == [[indices EXCEPT ![x] = -1] EXCEPT ![last] = 0]
           rest  == [i \in 0 .. HeapSize(heap) - 2 |-> IF i = 0 THEN last ELSE heap[i]]
       IN  /\ removed' = x
           /\ IF HeapSize(rest) > 1 THEN HeapBecomes(PercolateDown(rest, moved, keys, 0))
              ELSE HeapBecomes([heap |-> rest, indices |-> moved])
    /\ UNCHANGED keys

\* The last element takes the place of the first, which may be itself: the place
\* of the first is forgotten after that.
RemoveMin ==
    /\ HeapSize(heap) > 0
    /\ LET x     == heap[0]
           last  == heap[HeapSize(heap) - 1]
           moved == [[indices EXCEPT ![last] = 0] EXCEPT ![x] = -1]
           rest  == [i \in 0 .. HeapSize(heap) - 2 |-> IF i = 0 THEN last ELSE heap[i]]
       IN  /\ removed' = x
           /\ IF HeapSize(rest) > 1 THEN HeapBecomes(PercolateDown(rest, moved, keys, 0))
              ELSE HeapBecomes([heap |-> rest, indices |-> moved])
    /\ UNCHANGED keys

Forgotten ==
    [n \in DOMAIN indices |-> IF \E i \in DOMAIN heap : heap[i] = n THEN -1 ELSE indices[n]]

\* The elements given, in their order and not yet a heap.
Listed(ns) ==
    [heap |-> [i \in 0 .. Len(ns) - 1 |-> ns[i + 1]],
     indices |-> [n \in DOMAIN indices |->
                     IF n \in ToSet(ns) THEN CHOOSE i \in 0 .. Len(ns) - 1 : ns[i + 1] = n
                                        ELSE Forgotten[n]]]

\* A heap of the elements given: the inner nodes go down, the last one first.
\* The caller has had each of them in the heap before, so that it has an index.
Build(ns) ==
    LET inner == Len(ns) \div 2
        built[t \in 0 .. inner] ==
            IF t = 0 THEN Listed(ns)
            ELSE PercolateDown(built[t - 1].heap, built[t - 1].indices, keys, inner - t)
    IN  /\ ToSet(ns) \subseteq DOMAIN indices
        /\ HeapBecomes(built[inner])
        /\ removed' = NoElement
        /\ UNCHANGED keys

HeapClear ==
    /\ heap' = [i \in {} |-> 0]
    /\ indices' = Forgotten
    /\ removed' = NoElement
    /\ UNCHANGED keys

\* rebuildOrderHeap gives the variables in their order.
Ascending(ns) == \A i, j \in DOMAIN ns : i < j => ns[i] < ns[j]

HeapNext ==
    \/ RemoveMin \/ HeapClear
    \/ \E S \in SUBSET Elements : \E ns \in [1 .. Cardinality(S) -> S] :
          Ascending(ns) /\ Build(ns)
    \/ \E n \in Elements, k \in Keys :
          HeapInsert(n, k) \/ Decrease(n, k) \/ Increase(n, k) \/ Update(n, k)

HeapSpec == HeapInit /\ [][HeapNext]_heapVars

-----------------------------------------------------------------------------
\* The types, and the indices are the places of the elements: an element whose
\* index is lost would never be decided on again.
HeapTypeOK ==
    /\ keys \in [Elements -> Keys]
    /\ heap \in [0 .. HeapSize(heap) - 1 -> Elements]
    /\ removed \in Elements \cup {NoElement}
    /\ \A n \in Elements :
          \/ ~InHeap(n) /\ \A i \in DOMAIN heap : heap[i] # n
          \/ InHeap(n) /\ indices[n] \in DOMAIN heap /\ heap[indices[n]] = n

\* The elements with their keys, and what was taken last.
AsPriorityQueue == INSTANCE PriorityQueue WITH
    None <- NoElement, members <- {n \in Elements : InHeap(n)}, key <- keys,
    count <- HeapSize(heap), taken <- removed

\* A step of this module, seen as one of the abstract specification.
AsPriorityQueueStep == [AsPriorityQueue!Next]_(AsPriorityQueue!vars)

\* The heap implements a priority queue: no call loses an element or has one
\* twice, and removeMin returns one whose key is least, after any sequence of
\* keys changed up and down.
ImplementsPriorityQueue == AsPriorityQueue!Spec

=============================================================================
