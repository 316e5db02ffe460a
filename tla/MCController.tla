---------------------------- MODULE MCController ----------------------------
(***************************************************************************)
(* An instance of the controller for TLC, whose caller is one of           *)
(*   - "any solver": a solver that may call as it likes within the         *)
(*     protocol of SymmetryController;                                     *)
(*   - "Glucose": the search of Glucose, by a thread that runs until it    *)
(*     stops.                                                              *)
(* The order is not the one of the variables' numbers.  The two            *)
(* permutations share variables, so that one of them can keep the other    *)
(* from hearing of a literal; one inverts a variable after a pair of       *)
(* others, the other inverts the first variable of the order, which gives  *)
(* a unit clause.                                                          *)
(***************************************************************************)
EXTENDS Glucose, ControlledStatus

VARIABLE caller

vars == <<caller, glucoseVars>>

\* The literal map of a map of the variables' positive literals.
Map(positive) == [l \in Literal |-> IF l > 0 THEN positive[l] ELSE -positive[-l]]

\* (4 1)(3 -3) and (2 -2)(4 1).
MCInverses == <<Map(<<4, 2, -3, 1>>), Map(<<4, -2, 3, 1>>)>>

MCOrder == <<2, 4, 1, 3>>

\* Both permutations keep the set of the literals 1 and 4, so simplify may find
\* both of them or none.
MCRoots == {<< >>, <<4, 1>>}

Init ==
    \/ caller = "any solver" /\ GlucoseInit /\ root = << >>
    \/ caller = "Glucose" /\ GlucoseInit

Next ==
    /\ UNCHANGED caller
    /\ \/ caller = "any solver" /\ ControllerNext /\ UNCHANGED solverVars
       \/ caller = "Glucose" /\ GlucoseNext

\* One thread runs the solver until it stops.
Spec ==
    /\ Init
    /\ [][Next]_vars
    /\ WF_vars(caller = "Glucose" /\ UNCHANGED caller /\ GlucoseNext)

=============================================================================
