------------------------------ MODULE HashMap ------------------------------
(***************************************************************************)
(* The hash table of mtl/Map.h, which CMap (core/SolverTypes.h) keeps data *)
(* of clauses in, and two tables to move between.  A bucket is a sequence  *)
(* of pairs.  The constant Primes stands for the capacities of the code.   *)
(***************************************************************************)
EXTENDS Integers, SequencesExt, FiniteSets

CONSTANTS MapKeys,    \* the keys, numbers: hash(k) is k
          MapData,    \* the data
          Primes,     \* primes
          Maps        \* the tables

NoData == "none"

\* The keys are finitely many numbers, and capacities are positive.
MapAssumption ==
    /\ IsFiniteSet(MapKeys) /\ MapKeys \subseteq Nat
    /\ NoData \notin MapData
    /\ Primes \in Seq(Nat \ {0}) /\ Primes # << >>

VARIABLES tables   \* table, cap and size of each map

mapVars == <<tables>>

Cap(m)      == tables[m].cap
MapSize(m)  == tables[m].size
Bucket(m, k) == tables[m].table[k % Cap(m)]

NoPairs(cap) == [i \in 0 .. cap - 1 |-> << >>]

EmptyMap == [table |-> NoPairs(0), cap |-> 0, size |-> 0]

MapInit == tables = [m \in Maps |-> EmptyMap]

\* The capacities are tried in turn; the last one stays.
NextCap(cap) ==
    LET larger == {i \in DOMAIN Primes : Primes[i] > cap}
    IN  IF larger = {} THEN Last(Primes) ELSE Primes[Min(larger)]

\* _insert.
Stored(table, cap, pair) == [table EXCEPT ![pair.key % cap] = Append(@, pair)]

\* Every pair of a bucket goes to the bucket of its key.
Filled(table, cap, bucket) ==
    LET upTo[j \in 0 .. Len(bucket)] ==
            IF j = 0 THEN table ELSE Stored(upTo[j - 1], cap, bucket[j])
    IN  upTo[Len(bucket)]

\* The new table is filled bucket by bucket.
Refilled(t, cap) ==
    LET upTo[i \in 0 .. t.cap] ==
            IF i = 0 THEN NoPairs(cap) ELSE Filled(upTo[i - 1], cap, t.table[i - 1])
    IN  upTo[t.cap]

Rehashed(t) ==
    LET cap == NextCap(t.cap) IN [t EXCEPT !.cap = cap, !.table = Refilled(t, cap)]

\* The pairs of the bucket with the key.
Matches(m, k) == {j \in DOMAIN Bucket(m, k) : Bucket(m, k)[j].key = k}

Has(m, k) == MapSize(m) # 0 /\ Matches(m, k) # {}

Peek(m, k) == IF Has(m, k) THEN Bucket(m, k)[Min(Matches(m, k))].data ELSE NoData

\* The operator [] returns the last match.
At(m, k) == Bucket(m, k)[Max(Matches(m, k))].data

InsertKey(m, k, d) ==
    /\ ~Has(m, k)
    /\ LET t == IF MapSize(m) + 1 > Cap(m) THEN Rehashed(tables[m]) ELSE tables[m]
       IN  tables' = [tables EXCEPT ![m] =
               [t EXCEPT !.table = Stored(t.table, t.cap, [key |-> k, data |-> d]),
                         !.size = @ + 1]]

\* The reference that [] returns is written to.
Assign(m, k, d) ==
    /\ Has(m, k)
    /\ tables' = [tables EXCEPT ![m].table[k % Cap(m)][Max(Matches(m, k))].data = d]

\* The last pair of the bucket takes the place of the one removed.
RemovedFrom(bucket, j) == Front([bucket EXCEPT ![j] = Last(bucket)])

RemoveKey(m, k) ==
    /\ Has(m, k)
    /\ tables' = [tables EXCEPT ![m].table[k % Cap(m)] = RemovedFrom(@, Min(Matches(m, k))),
                                ![m].size = @ - 1]

ClearMap(m) == tables' = [tables EXCEPT ![m] = EmptyMap]

MoveTo(m, other) ==
    /\ m # other
    /\ tables' = [tables EXCEPT ![other] = tables[m], ![m] = EmptyMap]

MapNext ==
    \E m \in Maps :
        \/ ClearMap(m) \/ \E other \in Maps : MoveTo(m, other)
        \/ \E k \in MapKeys :
              RemoveKey(m, k) \/ \E d \in MapData : InsertKey(m, k, d) \/ Assign(m, k, d)

MapSpec == MapInit /\ [][MapNext]_mapVars

-----------------------------------------------------------------------------
\* The tables, their capacities and sizes.
MapTypeOK ==
    \A m \in Maps :
        /\ Cap(m) \in ToSet(Primes) \cup {0}
        /\ tables[m].table \in [0 .. Cap(m) - 1 -> Seq([key : MapKeys, data : MapData])]
        /\ MapSize(m) \in 0 .. Cardinality(MapKeys)

\* The map: a key that has would say is there and peek would not is both.
AsFiniteMap == INSTANCE FiniteMap WITH
    Keys <- MapKeys, Data <- MapData, None <- NoData, Names <- Maps,
    value <- [m \in Maps |-> [k \in MapKeys |->
                 IF Has(m, k) /\ At(m, k) # Peek(m, k) THEN "both" ELSE Peek(m, k)]],
    elems <- [m \in Maps |-> MapSize(m)]

\* A step of this module, seen as one of the abstract specification.
AsFiniteMapStep == [AsFiniteMap!Next]_(AsFiniteMap!vars)

\* The table implements a finite map: what has, peek and [] say of a key is what
\* was inserted or assigned under it last, however the table grew, collided,
\* was emptied bucket by bucket and moved; the size is the number of keys, for
\* has and peek look at no bucket of a map of size 0.
ImplementsFiniteMap == AsFiniteMap!Spec

=============================================================================
