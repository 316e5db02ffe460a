------------------------- MODULE MCSymmetricGlucose -------------------------
(***************************************************************************)
(* Instances of SymmetricGlucose for TLC: problems over six variables that *)
(* have two symmetries in common.  The second inverts the variable that is *)
(* first in the order, which gives a unit clause.  In most of the problems *)
(* two variables are assigned before the controller is made.               *)
(***************************************************************************)
EXTENDS SymmetricGlucose

\* The literal map of a map of the variables' positive literals.
Map(n, positive) ==
    [l \in {x \in -n .. n : x # 0} |-> IF l > 0 THEN positive[l] ELSE -positive[-l]]

MCOrder == <<2, 1, 3, 4, 6, 5>>

\* (1 -2)(3 4)(5 6) and (1 -1)(2 -2).
MCInverses == <<Map(6, <<-2, -1, 4, 3, 6, 5>>), Map(6, <<-1, -2, 3, 4, 5, 6>>)>>

\* No model; learnt clauses mix with binary ones.
Binary ==
    << <<5>>, <<6>>, <<-2, -4, -3>>, <<-2, 4>>, <<1, -4, -3>>, <<1, 3>>,
       <<-4, -3, -1>>, <<-4, -3, 2>>, <<3, -1>>, <<4, 2>> >>

\* No model, with longer clauses.
Ternary ==
    << <<5>>, <<6>>, <<-2, -3>>, <<-2, 3, 4>>, <<1, -4>>, <<1, 3, 4>>,
       <<-4, -1>>, <<-3, 2>>, <<3, 4, -1>>, <<3, 4, 2>> >>

\* Four models of variables 1 to 4.
FourModels ==
    << <<5>>, <<6>>, <<-2, 1, 3>>, <<-2, 1, 4>>, <<-2, 3, -1>>,
       <<-2, 4, -1>>, <<1, 3, 2>>, <<1, 4, 2>>, <<3, -1, 2>>,
       <<4, -1, 2>> >>

\* Six of them.
SixModels ==
    << <<5>>, <<6>>, <<-2, 1, -4, 3>>, <<-2, 1, -3, 4>>, <<-2, 3, -1>>,
       <<-2, 4, -1>>, <<1, 3, 2>>, <<1, 4, 2>>, <<-4, 3, -1, 2>>,
       <<-3, 4, -1, 2>> >>

\* Eight of them, and no clause but long ones.
Equal ==
    << <<5>>, <<6>>, <<3, 4, -1, -2>>, <<3, 4, 1, 2>>, <<3, 4, -1, 2>>,
       <<3, 4, 1, -2>>, <<-3, -4, -1, 2>>, <<-3, -4, -1, -2>>,
       <<-3, -4, 1, 2>>, <<-3, -4, 1, -2>> >>

\* A literal of level 0 and two that one decision makes differ, in one clause of a
\* status: it is unit later on, and no watcher says so.
Split ==
    << <<5, -3>>, <<5, 4>>, <<6, -4>>, <<6, 3>>, <<5, 6>> >>

MCProblems == {Binary, Ternary, FourModels, SixModels, Equal, Split}

MCAssumptions == {<< >>}

=============================================================================
