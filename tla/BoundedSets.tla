---------------------------- MODULE BoundedSets ----------------------------
(***************************************************************************)
(* What the operations of Bitset64 (include/cosy/Bitset.h) do to a set of  *)
(* numbers.  A set has room for the numbers up to its size, rounded up to  *)
(* whole words: a number left past the size stays until its word goes, and *)
(* is below the size again when that grows.                                *)
(***************************************************************************)
EXTENDS Integers

CONSTANTS Names, Bound, Width

VARIABLES size, members

vars == <<size, members>>

Below(n) == 0 .. n - 1

\* The numbers that the words of a size have room for.
Room(n) == Below(Width * ((n + Width - 1) \div Width))

Init ==
    /\ size = [x \in Names |-> 0]
    /\ members = [x \in Names |-> {}]

Resized(x, n, set) ==
    /\ size' = [size EXCEPT ![x] = n]
    /\ members' = [members EXCEPT ![x] = set]

Changed(x, set) == Resized(x, size[x], set)

\* The numbers that share a word, or a pair, with i.
Group(i, width) == {j \in Room(Bound) : j \div width = i \div width}

Change(x) ==
    \/ Resized(x, size[x] + 1, members[x] \ {size[x]})
    \/ Resized(x, size[x] + 1, members[x] \cup {size[x]})
    \/ \E n \in 0 .. Bound : Resized(x, n, {}) \/ Resized(x, n, members[x] \cap Room(n))
    \/ \E i \in Room(size[x]) :
          \/ Changed(x, members[x] \cup {i})
          \/ \E width \in {1, 2, Width} : Changed(x, members[x] \ Group(i, width))

\* The members of y that x has room for.
Shared(x, y) == members[y] \cap Room(size[x])

\* A copy takes the numbers below the size of y, the others whole words.
Combine(x, y) ==
    \/ Changed(x, (Shared(x, y) \cap Below(size[y])) \cup (members[x] \ Below(size[y])))
    \/ Changed(x, members[x] \cap members[y])
    \/ Changed(x, members[x] \cup Shared(x, y))
    \/ \E i \in Below(Bound) :
          Changed(x, (members[x] \ Group(i, Width)) \cup (Shared(x, y) \cap Group(i, Width)))

\* A number put in or out by two others: those are Change as well.
Next == \E x \in Names : Change(x) \/ \E y \in Names : Combine(x, y)

Spec == Init /\ [][Next]_vars

=============================================================================
