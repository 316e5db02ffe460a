------------------------------ MODULE Partition ------------------------------
(***************************************************************************)
(* What DisjointSets promises: it keeps a partition of the elements added, *)
(* in which Union merges two blocks, and Find and adding an element again  *)
(* change nothing.                                                         *)
(***************************************************************************)
CONSTANT Elements

VARIABLE blocks   \* the partition, a set of blocks

BlockOf(x) == UNION {B \in blocks : x \in B}

vars == <<blocks>>

Init == blocks = {}

Add(x) ==
    /\ x \notin UNION blocks
    /\ blocks' = blocks \cup {{x}}

Union(x, y) ==
    /\ x \in UNION blocks /\ y \in UNION blocks
    /\ blocks' = {B \in blocks : x \notin B /\ y \notin B}
                     \cup {BlockOf(x) \cup BlockOf(y)}

Next == \E x, y \in Elements : Add(x) \/ Union(x, y)

Spec == Init /\ [][Next]_vars

=============================================================================
