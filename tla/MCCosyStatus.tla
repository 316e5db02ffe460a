---------------------------- MODULE MCCosyStatus ----------------------------
(***************************************************************************)
(* Instances of CosyStatus for TLC: four variables, an order that is not   *)
(* the one of their numbers, and two permutations.                       *)
(***************************************************************************)
EXTENDS CosyStatus

MCOrder == <<2, 4, 1, 3>>

\* The literal map of a map of the variables' positive literals.
Permutation(map) ==
    [l \in Literal |-> IF l > 0 THEN map[l] ELSE -map[-l]]

\* (2 -3) (4 1), with the negated cycles: its own inverse.
Involution == Permutation(<<4, -3, -2, 1>>)
InvolutionLookup == <<2, 4, 1, 3>>

\* (2 -4 1 -2 4 -1): a literal and its negation in one cycle, 3 stays.
SixCycle == Permutation(<<-4, -1, 3, -2>>)
SixCycleLookup == <<2, 4, 1>>

=============================================================================
