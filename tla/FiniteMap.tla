----------------------------- MODULE FiniteMap -----------------------------
(***************************************************************************)
(* What mtl/Map.h promises: maps from some keys to data, and their sizes.  *)
(***************************************************************************)
EXTENDS Integers, FiniteSets

CONSTANTS Keys, Data, None, Names

VARIABLES value,   \* the data of each key of each map, or None
          elems    \* elems()

vars == <<value, elems>>

Nothing == [k \in Keys |-> None]

Init ==
    /\ value = [m \in Names |-> Nothing]
    /\ elems = [m \in Names |-> 0]

Next ==
    /\ \E m \in Names :
          \/ \E k \in Keys, d \in Data \cup {None} : value' = [value EXCEPT ![m][k] = d]
          \/ \E other \in Names \ {m} :
                value' = [value EXCEPT ![other] = value[m], ![m] = Nothing]
          \/ value' = [value EXCEPT ![m] = Nothing]
    /\ elems' = [m \in Names |-> Cardinality({k \in Keys : value'[m][k] # None})]

Spec == Init /\ [][Next]_vars

=============================================================================
