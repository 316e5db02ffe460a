------------------------------- MODULE Queue -------------------------------
(***************************************************************************)
(* The queue of mtl/Queue.h: a ring that is replaced by a larger one when  *)
(* its last place is taken.                                                *)
(***************************************************************************)
EXTENDS Integers, Sequences, FiniteSets

CONSTANTS Values,     \* what is queued
          Unset,      \* the value of a place never written
          MaxQueued   \* the longest queue

VARIABLES buf,     \* buf, from 0
          first,   \* first
          end      \* end

vars == <<buf, first, end>>

Places == Cardinality(DOMAIN buf)

Blank(n) == [i \in 0 .. n - 1 |-> Unset]

Init ==
    /\ buf = Blank(1)
    /\ first = 0
    /\ end = 0

Size == IF end >= first THEN end - first ELSE end - first + Places

\* The place after i.
Next1(i) == IF i + 1 = Places THEN 0 ELSE i + 1

Clear ==
    /\ buf' = Blank(1)
    /\ first' = 0
    /\ end' = 0

Pop ==
    /\ first # end
    /\ first' = Next1(first)
    /\ UNCHANGED <<buf, end>>

\* Mutant: the new ring takes the old one as it lies, not from its first place.
UnrolledInPlace(b) ==
    [i \in 0 .. (Places * 3 + 1) \div 2 - 1 |-> IF i < Places THEN b[i] ELSE Unset]

\* The larger ring: the elements from the first place on, then those before it.
Unrolled(b) ==
    [i \in 0 .. (Places * 3 + 1) \div 2 - 1 |->
        IF i < Places THEN b[(first + i) % Places] ELSE Unset]

\* The place at end is always unused: the ring grows when an element takes the
\* last one.
Insert(v) ==
    LET stored == [buf EXCEPT ![end] = v]
    IN  /\ Size < MaxQueued
        /\ IF Next1(end) = first
           THEN /\ buf' = Unrolled(stored)
                /\ first' = 0
                /\ end' = Places
           ELSE /\ buf' = stored
                /\ end' = Next1(end)
                /\ UNCHANGED first

Next == Pop \/ Clear \/ \E v \in Values : Insert(v)

Spec == Init /\ [][Next]_vars

-----------------------------------------------------------------------------
\* The ring and its ends.
TypeOK ==
    /\ buf \in [0 .. Places - 1 -> Values \cup {Unset}]
    /\ first \in 0 .. Places - 1
    /\ end \in 0 .. Places - 1

\* What is queued, oldest first.
Abstract == INSTANCE Fifo WITH
    content <- [i \in 1 .. Size |-> buf[(first + i - 1) % Places]]

\* A step of this module, seen as one of the abstract specification.
AbstractStep == [Abstract!Next]_(Abstract!vars)

\* The ring implements a first-in-first-out queue, whether it wraps around or
\* not and when it grows with elements on both sides of its end.
ImplementsFifo == Abstract!Spec

=============================================================================
