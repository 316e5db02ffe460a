-------------------------------- MODULE Fifo --------------------------------
(***************************************************************************)
(* What the queue of the clauses to subsume with promises: first in, first *)
(* out.                                                                    *)
(***************************************************************************)
EXTENDS Sequences

CONSTANT Values

VARIABLE content

vars == <<content>>

Init == content = << >>

Next ==
    \/ \E v \in Values : content' = Append(content, v)
    \/ content # << >> /\ content' = Tail(content)
    \/ content' = << >>

Spec == Init /\ [][Next]_vars

=============================================================================
