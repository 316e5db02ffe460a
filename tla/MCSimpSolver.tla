---------------------------- MODULE MCSimpSolver ----------------------------
(***************************************************************************)
(* Instances of SimpSolver for TLC.                                        *)
(***************************************************************************)
EXTENDS SimpSolver

\* Subsumption, resolution on two variables, a clause that comes late.
Chain == << <<1, 2, 3>>, <<-1, 2>>, <<-2, 3, 4>>, <<1, -4>>, <<-3, 4>> >>

\* No model once the last clause is there; the third is implied by the first two.
Unsatisfiable == << <<1, 2>>, <<1, -2>>, <<1, 3, 4>>, <<-1, 3>>, <<-1, -3, 4>>, <<-3, -4>> >>

\* Without simplification a clause of two variables is learnt, and both may be
\* eliminated in the next call.
Learning == << <<4>>, <<1, 2, 3>>, <<1, 2, -3>>, <<-1, 3, -4>>, <<-2, -1, -3>> >>

\* Two literals of level 0 are found while a clause of five that has their
\* negations is still to be strengthened, twice.
LateUnits == << <<1, 2, -3, -4, 5>>, <<3, 4>>, <<3, -4>>, <<4, -3>>, <<-1, 5>>, <<-2, 5>> >>

\* The same with one literal less.
TwoUnits == << <<1, -2, -3, 4>>, <<2, 3>>, <<2, -3>>, <<3, -2>>, <<-1, 4>> >>

MCCheckedProblems == {Unsatisfiable}

MCLateUnits == {LateUnits}

MCNoAssumptions == {<< >>}

MCProblems == {Chain, Unsatisfiable, Learning, TwoUnits}

MCAssumptions == {<< >>, <<3, -1>>}

MCMayFreeze == {4}

MCSubstitutions == {<<4, -2>>}

MCNoLimit == -1
=============================================================================
