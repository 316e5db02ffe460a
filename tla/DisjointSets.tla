---------------------------- MODULE DisjointSets ----------------------------
(***************************************************************************)
(* The union-find structure of include/cosy/DisjointSets.h: a forest with  *)
(* union by rank and path compression.  A root is its own parent here, a   *)
(* null parent in the code.                                                *)
(***************************************************************************)
EXTENDS Integers, FiniteSets

CONSTANT Elements

VARIABLES parent,    \* Node::parent of the elements added
          rank,      \* Node::rank
          numSets    \* _num_sets

setVars == <<parent, rank, numSets>>

Added == DOMAIN parent

\* Where k steps up from an element end.
Ancestor(p, x, k) ==
    LET up[i \in 0 .. Cardinality(DOMAIN p)] ==
            IF i = 0 THEN x ELSE p[up[i - 1]]
    IN  up[k]

Root(p, x) == Ancestor(p, x, Cardinality(DOMAIN p))

PathToRoot(p, x) == {Ancestor(p, x, k) : k \in 0 .. Cardinality(DOMAIN p)}

\* The forest after Find(x): every node of the path points at the root.
Compressed(p, x) ==
    [y \in DOMAIN p |-> IF y \in PathToRoot(p, x) THEN Root(p, x) ELSE p[y]]

-----------------------------------------------------------------------------
SetsInit ==
    /\ parent = << >>
    /\ rank = << >>
    /\ numSets = 0

Add(x) ==
    /\ x \notin Added
    /\ parent' = [y \in Added \cup {x} |-> IF y = x THEN x ELSE parent[y]]
    /\ rank' = [y \in Added \cup {x} |-> IF y = x THEN 0 ELSE rank[y]]
    /\ numSets' = numSets + 1

Find(x) ==
    /\ x \in Added
    /\ parent' = Compressed(parent, x)
    /\ UNCHANGED <<rank, numSets>>

\* Mutant: the roots are not looked up.
FoundIsNode(found, x) == x

\* The root of an element whose path has just been compressed.
FoundRoot(found, x) == found[x]

\* The root of lower rank gets the other one as its parent, the second one when
\* the ranks are equal.
Linked(p, rx, ry) ==
    IF rank[rx] < rank[ry] THEN [p EXCEPT ![rx] = ry] ELSE [p EXCEPT ![ry] = rx]

Raised(rx, ry) ==
    IF rx # ry /\ rank[rx] = rank[ry] THEN [rank EXCEPT ![rx] = @ + 1] ELSE rank

SetsLeft(rx, ry) == IF rx = ry THEN numSets ELSE numSets - 1

\* Both elements are found first, which compresses their paths.
Union(x, y) ==
    /\ x \in Added /\ y \in Added
    /\ LET found == Compressed(Compressed(parent, x), y)
           rx    == FoundRoot(found, x)
           ry    == FoundRoot(found, y)
       IN  /\ parent' = Linked(found, rx, ry)
           /\ rank' = Raised(rx, ry)
           /\ numSets' = SetsLeft(rx, ry)

SetsNext ==
    \E x, y \in Elements : Add(x) \/ Find(x) \/ Union(x, y)

SetsSpec == SetsInit /\ [][SetsNext]_setVars

-----------------------------------------------------------------------------
IsRoot(x) == parent[x] = x

Tree(r) == {x \in Added : Root(parent, x) = r}

\* The forest's types, and its roots are as many as numSets says.
SetsTypeOK ==
    /\ Added \subseteq Elements
    /\ parent \in [Added -> Added]
    /\ rank \in [Added -> Nat]
    /\ numSets = Cardinality({x \in Added : IsRoot(x)})

\* Union by rank: ranks grow on the way to the root, so that Find ends, and a
\* root of rank k has at least 2^k elements below it, so that paths stay
\* logarithmic, whatever compressions came in between.
RanksBoundTrees ==
    \A x \in Added :
        /\ ~IsRoot(x) => rank[x] < rank[parent[x]]
        /\ IsRoot(x) => 2 ^ rank[x] <= Cardinality(Tree(x))

\* The trees are the blocks of the abstract partition.
AsPartition ==
    INSTANCE Partition WITH blocks <- {Tree(r) : r \in {x \in Added : IsRoot(x)}}

\* The forest implements the partition: linking merges exactly the two trees of
\* the elements, compression and repeated calls leave the partition alone.
ImplementsPartition == AsPartition!Spec

=============================================================================
