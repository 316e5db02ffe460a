---------------------------- MODULE MCGlucoseCDCL ----------------------------
(***************************************************************************)
(* Instances of GlucoseCDCL for TLC.                                       *)
(***************************************************************************)
EXTENDS GlucoseCDCL

\* No model; every conflict passes through binary clauses in both directions.
Unsatisfiable == << <<1, 2, 3>>, <<1, 2, -3>>, <<1, -2, 3>>, <<1, -2, -3>>,
                    <<-1, 2>>, <<-1, -2, 3>>, <<-2, -3>> >>

\* A learnt clause over three levels, and a second conflict that comes back to
\* the middle one.
Ternary == << <<1, 2, 3, 4>>, <<1, 2, 3, -4>>, <<1, -3, 4>>, <<1, -3, -4>>, <<-1, -2>> >>

\* A learnt clause that is minimized, another that a binary clause shortens; a
\* unit clause comes last.
Chains == << <<1, 2, 3, -4>>, <<1, 2, 3, 4>>, <<2, -3>>, <<-1, -2, -4>>, <<4, -1>>, <<-1>> >>

\* A learnt clause whose literals are later false at one level.
Protected == << <<1, 2, 3, 4>>, <<1, 2, 3, -4>>, <<-1, 4>>, <<-2, 4>>, <<-3, 4>> >>

MCProblems == {Unsatisfiable, Ternary, Chains, Protected}

MCAssumptions == {<< >>, <<-4, -1, -2>>}

MCSelectors == {4}
=============================================================================
