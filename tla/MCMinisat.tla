------------------------------ MODULE MCMinisat ------------------------------
(***************************************************************************)
(* Instances of Minisat for TLC.                                           *)
(***************************************************************************)
EXTENDS Minisat

\* All eight signs of three variables: no model, whatever is decided first.
Unsatisfiable == << <<1, 2, 3>>, <<1, 2, -3>>, <<1, -2, 3>>, <<1, -2, -3>>,
                    <<-1, 2>>, <<-1, -2, 3>>, <<-2, -3>> >>

\* A learnt clause that is minimized; a unit clause comes last.
Chains == << <<1, 2, 3, -4>>, <<1, 2, 3, 4>>, <<2, -3>>, <<-1, -2, -4>>, <<4, -1>>, <<-1>> >>

\* A learnt clause over three levels, and a second conflict that comes back to
\* the middle one.
Ternary == << <<1, 2, 3, 4>>, <<1, 2, 3, -4>>, <<1, -3, 4>>, <<1, -3, -4>>, <<-1, -2>> >>

MCProblems == {Unsatisfiable, Chains, Ternary}

MCAssumptions == {<< >>, <<-4, -1, -2>>}
=============================================================================
