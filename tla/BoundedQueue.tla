---------------------------- MODULE BoundedQueue ----------------------------
(***************************************************************************)
(* bqueue of core/BoundedQueue.h, the windows over the last conflicts from *)
(* which the restarts are decided.  The solver calls initSize once, push,  *)
(* getavg and fastclear; pop, which nobody calls, is left out: push would  *)
(* forget what it did when it wraps around.                                *)
(***************************************************************************)
EXTENDS Integers, SequencesExt

CONSTANTS WindowValues,   \* what is pushed: block distances, trail sizes
          WindowSizes,    \* sizeLBDQueue, sizeTrailQueue
          MaxPushes       \* the most pushes between two calls of fastclear

\* Numbers are pushed; a window has room for one.
WindowAssumption ==
    /\ WindowValues \subseteq Nat /\ WindowSizes \subseteq Nat \ {0}
    /\ MaxPushes \in Nat

VARIABLES elems,        \* elems, from 0
          firstPlace,   \* first
          lastPlace,    \* last
          sumofqueue,   \* sumofqueue
          maxsize,      \* maxsize
          queuesize,    \* queuesize
          pushes        \* what was pushed since the last fastclear

windowVars == <<elems, firstPlace, lastPlace, sumofqueue, maxsize, queuesize, pushes>>

WindowInit ==
    /\ elems = [i \in {} |-> 0]
    /\ firstPlace = 0 /\ lastPlace = 0
    /\ sumofqueue = 0
    /\ maxsize = 0
    /\ queuesize = 0
    /\ pushes = << >>

\* initSize calls growTo.
InitSize(n) ==
    /\ maxsize = 0
    /\ elems' = [i \in 0 .. n - 1 |-> 0]
    /\ maxsize' = n
    /\ firstPlace' = 0 /\ lastPlace' = 0 /\ queuesize' = 0
    /\ UNCHANGED <<sumofqueue, pushes>>

\* The oldest element leaves the sum of a full window.
SumWith(x) ==
    IF queuesize = maxsize THEN sumofqueue - elems[lastPlace] + x ELSE sumofqueue + x

PlaceAfter(i) == IF i + 1 = maxsize THEN 0 ELSE i + 1

\* When first wraps around, so does last.
Push(x) ==
    /\ maxsize > 0
    /\ Len(pushes) < MaxPushes
    /\ sumofqueue' = SumWith(x)
    /\ elems' = [elems EXCEPT ![firstPlace] = x]
    /\ firstPlace' = PlaceAfter(firstPlace)
    /\ lastPlace' = IF firstPlace' = 0 THEN 0
                    ELSE IF queuesize = maxsize THEN PlaceAfter(lastPlace) ELSE lastPlace
    /\ queuesize' = IF queuesize = maxsize THEN queuesize ELSE queuesize + 1
    /\ pushes' = Append(pushes, x)
    /\ UNCHANGED maxsize

FastClear ==
    /\ firstPlace' = 0 /\ lastPlace' = 0
    /\ queuesize' = 0
    /\ sumofqueue' = 0
    /\ pushes' = << >>
    /\ UNCHANGED <<elems, maxsize>>

IsValid == queuesize = maxsize

Getavg == sumofqueue \div queuesize

WindowNext ==
    \/ \E n \in WindowSizes : InitSize(n)
    \/ \E x \in WindowValues : Push(x)
    \/ FastClear

WindowSpec == WindowInit /\ [][WindowNext]_windowVars

-----------------------------------------------------------------------------
\* The window.
WindowTypeOK ==
    /\ maxsize \in WindowSizes \cup {0}
    /\ queuesize \in 0 .. maxsize
    /\ elems \in [0 .. maxsize - 1 -> WindowValues \cup {0}]

\* The sum of a sequence of numbers.
Total(seq) ==
    LET upTo[i \in 0 .. Len(seq)] == IF i = 0 THEN 0 ELSE upTo[i - 1] + seq[i]
    IN  upTo[Len(seq)]

\* What a window of the size covers.
LastPushes == SubSeq(pushes, Max({1, Len(pushes) - maxsize + 1}), Len(pushes))

\* The window is over the last pushes, and over as many as it has room for: a
\* sum that kept what left the window, or lost what is in it, would move every
\* restart after it, and so would an average over a window not yet full.
SumIsOfLastPushes ==
    /\ maxsize > 0 => queuesize = Min({Len(pushes), maxsize})
    /\ sumofqueue = Total(LastPushes)
    /\ (queuesize = maxsize /\ maxsize > 0) =>
          Getavg \in Min(ToSet(LastPushes)) .. Max(ToSet(LastPushes))

=============================================================================
