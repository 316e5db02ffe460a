--------------------------- MODULE PriorityQueue ---------------------------
(***************************************************************************)
(* What the heap of the decision variables promises: a set of elements     *)
(* with keys, of which a least one is taken.                               *)
(***************************************************************************)
EXTENDS Integers, FiniteSets

CONSTANTS Elements, Keys, None

VARIABLES members,   \* the elements in the queue
          key,       \* the key of every element
          count,     \* how many elements the queue says it has
          taken      \* what the last call took out, or None

vars == <<members, key, count, taken>>

Init ==
    /\ members = {}
    /\ key \in [Elements -> Keys]
    /\ count = 0
    /\ taken = None

Put(n) ==
    /\ \E k \in Keys : key' = [key EXCEPT ![n] = k]
    /\ members' = members \cup {n}
    /\ taken' = None

Take(n) ==
    /\ n \in members
    /\ \A m \in members : key[n] <= key[m]
    /\ members' = members \ {n}
    /\ taken' = n
    /\ UNCHANGED key

Replace(set) ==
    /\ members' = set
    /\ taken' = None
    /\ UNCHANGED key

Next ==
    /\ \/ \E n \in Elements : Put(n) \/ Take(n)
       \/ \E set \in SUBSET Elements : Replace(set)
    /\ count' = Cardinality(members')

Spec == Init /\ [][Next]_vars

=============================================================================
