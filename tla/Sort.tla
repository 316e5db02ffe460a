-------------------------------- MODULE Sort --------------------------------
(***************************************************************************)
(* The sort of mtl/Sort.h, which reduceDB and the occurrence lists use: by *)
(* selection when there are few elements, and quicksort whose two scans    *)
(* check no bound.  Elements with the same rank are equal for lt.          *)
(***************************************************************************)
EXTENDS Integers, SequencesExt

CONSTANTS Ranks,        \* what lt compares
          SortLength,   \* the largest size
          SmallSort     \* 15 in the code, the size up to which selection sorts

VARIABLES array,    \* the array, from 1 here
          original,    \* the array the caller gave
          outside   \* a scan has left the array

vars == <<array, original, outside>>

\* An element is its rank and where it was.
Lt(x, y) == x.rank < y.rank

Swapped(a, i, j) == [a EXCEPT ![i] = a[j], ![j] = a[i]]

\* The first element that no later one is less than: the inner loop keeps the
\* one it has unless the next is less.
Best(a, i, last) ==
    LET RECURSIVE Scan(_, _)
        Scan(best, j) ==
            IF j > last THEN best ELSE Scan(IF Lt(a[j], a[best]) THEN j ELSE best, j + 1)
    IN  Scan(i, i + 1)

SelectionSort(a, first, last) ==
    LET RECURSIVE From(_, _)
        From(b, i) == IF i >= last THEN b ELSE From(Swapped(b, i, Best(b, i, last)), i + 1)
    IN  From(a, first)

StaysLow(x, pivot) == Lt(x, pivot)

\* Where the scans stop, 0 when one leaves the array.
ScanUp(a, i, last, pivot) ==
    LET stops == {k \in i + 1 .. last : ~StaysLow(a[k], pivot)}
    IN  IF stops = {} THEN 0 ELSE Min(stops)

ScanDown(a, j, first, pivot) ==
    LET stops == {k \in first .. j - 1 : ~Lt(pivot, a[k])}
    IN  IF stops = {} THEN 0 ELSE Max(stops)

\* The exchange of the elements on the wrong sides: where the scans met.
Partition(a, first, last) ==
    LET pivot == a[first + (last - first + 1) \div 2]
        RECURSIVE Exchange(_, _, _)
        Exchange(b, i, j) ==
            LET up   == ScanUp(b, i, last, pivot)
                down == ScanDown(b, j, first, pivot)
            IN  IF up = 0 \/ down = 0 THEN [array |-> b, met |-> 0]
                ELSE IF up >= down THEN [array |-> b, met |-> up]
                ELSE Exchange(Swapped(b, up, down), up, down)
    IN  Exchange(a, first - 1, last + 1)

\* sort of the part from first to last.  An empty first part would make the
\* second one the whole, without end.
Sorted(a, first, last) ==
    LET RECURSIVE Part(_, _, _)
        Part(s, lo, hi) ==
            IF s.outside THEN s
            ELSE IF hi - lo + 1 <= SmallSort
            THEN [s EXCEPT !.array = SelectionSort(@, lo, hi)]
            ELSE LET p == Partition(s.array, lo, hi)
                 IN  IF p.met \in {0, lo}
                     THEN [s EXCEPT !.outside = TRUE]
                     ELSE Part(Part([s EXCEPT !.array = p.array], lo, p.met - 1),
                               p.met, hi)
    IN  Part([array |-> a, outside |-> FALSE], first, last)

\* The arrays of n elements.
Arrays(n) == {[i \in 1 .. n |-> [rank |-> f[i], at |-> i]] : f \in [1 .. n -> Ranks]}

Init ==
    /\ \E n \in 0 .. SortLength : array \in Arrays(n)
    /\ original = array
    /\ outside = FALSE

\* The array is sorted, again when the caller calls again.
SortArray ==
    LET s == Sorted(array, 1, Len(array))
    IN  /\ array' = s.array
        /\ outside' = s.outside
        /\ UNCHANGED original

Next == ~outside /\ SortArray

Spec == Init /\ [][Next]_vars

-----------------------------------------------------------------------------
\* The elements are those of the caller's array in number and type.
TypeOK ==
    /\ array \in Seq([rank : Ranks, at : 1 .. SortLength])
    /\ Len(array) = Len(original)
    /\ outside \in BOOLEAN

IsOrdered(a) == \A i, j \in DOMAIN a : i < j => ~Lt(a[j], a[i])

\* What a call does to the array.
SortStep ==
    /\ ~outside'
    /\ IsOrdered(array')
    /\ \A x \in ToSet(original) : \E i \in DOMAIN array' : array'[i] = x

\* Sorting orders the array and loses or repeats no element, and no scan of the
\* partition leaves the part it works on although it checks no bound: the pivot,
\* and then the elements exchanged, stop it.
SortOrders == [][SortStep]_vars

=============================================================================
