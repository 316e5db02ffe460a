---------------------------- MODULE GlucoseProofs ----------------------------
(***************************************************************************)
(* Proofs about the solver integration of Glucose: for every number of     *)
(* variables, order, value mode and set of permutations, and whatever the  *)
(* clause database decides.                                                *)
(*                                                                         *)
(* The invariant relates three things that the code keeps apart: the trail *)
(* of the solver with its levels and its queue, the literals the           *)
(* controller was told of, and the clauses that wait in the injector.      *)
(***************************************************************************)
EXTENDS Glucose, SymmetryControllerProofs, FiniteSetTheorems

USE NumVarsAssumption

-----------------------------------------------------------------------------
\* How many literals of the trail the controller knows of or never will: the
\* root and what was notified.
Told == Len(root) + Len(notified)

\* The trail begins with the root, the literals told of follow it, and every
\* decision was made when all the literals below it had been told.
TrailMatches ==
    /\ Len(root) <= Len(trail)
    /\ \A i \in 1 .. Len(root) : trail[i] = root[i]
    /\ Told <= Len(trail)
    /\ \A i \in 1 .. Len(notified) : notified[i] = trail[Len(root) + i]

\* Each level has a decision, and the literals below it were told.
LevelsMatch ==
    /\ \A j, k \in 1 .. Level : j < k => trailLim[j] < trailLim[k]
    /\ \A k \in 1 .. Level : Len(root) <= trailLim[k]
    /\ phase # "cancel" => \A k \in 1 .. Level : trailLim[k] < Len(trail)
                                                 /\ trailLim[k] <= Told
    /\ phase \in {"notified", "watches", "conflict"} =>
          \A k \in 1 .. Level : trailLim[k] < Told

\* What cancelUntil has left to do.  The literal to enqueue is of a variable
\* that is cancelled on the way.
CancelMatchesLevels ==
    phase = "cancel" =>
        /\ after.level < Level
        /\ trailLim[after.level + 1] <= Len(trail)
        /\ trailLim[after.level + 1] <= Told
        /\ after.phase \in {"propagate", "idle"}
        /\ after.phase = "idle" => after.level = 0
        /\ after.enqueue = << >> \/ \E l \in Literal :
              /\ after.enqueue = << l >>
              /\ \A i \in 1 .. trailLim[after.level + 1] : Variable(trail[i]) # Variable(l)

\* Where the thread can be, and where the queue is then.
QueueMatches ==
    /\ ~ok => phase \in {"idle", "units"}
    /\ phase # "idle" => Enabled
    /\ phase \in {"idle", "units"} => Level = 0
    /\ ok /\ phase \notin {"conflict", "cancel"} => qhead = Told
    /\ phase \in {"notified", "watches", "conflict"} => notified # << >>

GlucoseIInv ==
    /\ ControllerIInv
    /\ GlucoseTypeOK
    /\ TrailMatches
    /\ LevelsMatch
    /\ CancelMatchesLevels
    /\ QueueMatches
    /\ ClauseIsCurrent

-----------------------------------------------------------------------------
\* Trails.

LEMMA TrailFacts ==
    ASSUME NEW s, IsTrail(s)
    PROVE  /\ s \in Seq(Literal)
           /\ Len(s) \in Nat
           /\ DOMAIN s = 1 .. Len(s)
           /\ \A i \in 1 .. Len(s) : s[i] \in Literal
           /\ \A i, j \in 1 .. Len(s) : Variable(s[i]) = Variable(s[j]) => i = j
  BY SeqFacts DEF IsTrail

\* A literal whose variable is not on the trail is pushed.
IsPushed(s, l, s2) ==
    /\ IsTrail(s)
    /\ l \in Literal
    /\ \A i \in 1 .. Len(s) : Variable(s[i]) # Variable(l)
    /\ s2 = Append(s, l)

LEMMA PushFacts ==
    ASSUME NEW s, NEW l, NEW s2, IsPushed(s, l, s2)
    PROVE  /\ IsTrail(s2)
           /\ Len(s2) = Len(s) + 1
           /\ \A i \in 1 .. Len(s) : s2[i] = s[i]
           /\ s2[Len(s) + 1] = l
<1>1. /\ s \in Seq(Literal) /\ Len(s) \in Nat
      /\ \A i, j \in 1 .. Len(s) : Variable(s[i]) = Variable(s[j]) => i = j
  BY TrailFacts DEF IsPushed
<1>2. /\ s2 \in Seq(Literal)
      /\ Len(s2) = Len(s) + 1
      /\ DOMAIN s2 = 1 .. Len(s) + 1
      /\ \A i \in 1 .. Len(s) : s2[i] = s[i]
      /\ s2[Len(s) + 1] = l
  BY <1>1, AppendFacts DEF IsPushed
<1>3. ASSUME NEW i \in DOMAIN s2, NEW j \in DOMAIN s2, Variable(s2[i]) = Variable(s2[j])
      PROVE  i = j
  <2>1. (i \in 1 .. Len(s) \/ i = Len(s) + 1) /\ (j \in 1 .. Len(s) \/ j = Len(s) + 1)
    BY <1>1, <1>2
  <2> QED
    BY <1>1, <1>2, <1>3, <2>1 DEF IsPushed
<1> QED
  BY <1>2, <1>3 DEF IsTrail

\* The last literal of the trail is popped.
LEMMA PopFacts ==
    ASSUME NEW s, IsTrail(s), s # << >>, NEW s2, s2 = Front(s)
    PROVE  /\ IsTrail(s2)
           /\ Len(s) \in Nat \ {0}
           /\ Len(s2) = Len(s) - 1
           /\ \A i \in 1 .. Len(s) - 1 : s2[i] = s[i]
           /\ Last(s) = s[Len(s)]
           /\ Last(s) \in Literal
<1>1. s \in Seq(Literal) /\ \A i, j \in 1 .. Len(s) : Variable(s[i]) = Variable(s[j]) => i = j
  BY TrailFacts
<1>2. /\ s2 \in Seq(Literal)
      /\ Len(s) \in Nat \ {0}
      /\ Last(s) = s[Len(s)]
      /\ Last(s) \in Literal
      /\ Len(s2) = Len(s) - 1
      /\ DOMAIN s2 = 1 .. Len(s) - 1
      /\ \A i \in 1 .. Len(s) - 1 : s2[i] = s[i]
  BY <1>1, FrontFacts
<1>3. \A i \in 1 .. Len(s) - 1 : i \in 1 .. Len(s)
  BY <1>2
<1>4. IsTrail(s2)
  BY <1>1, <1>2, <1>3 DEF IsTrail
<1> QED
  BY <1>2, <1>4

\* The parts of the invariant as the provers need them.
LEMMA StateFacts ==
    ASSUME GlucoseIInv
    PROVE  /\ IsTrail(trail) /\ IsTrail(root)
           /\ Len(trail) \in Nat /\ Len(root) \in Nat /\ Len(notified) \in Nat
           /\ Level \in Nat /\ qhead \in Nat
           /\ \A i \in 1 .. Len(trail) : trail[i] \in Literal
           /\ \A k \in 1 .. Level : trailLim[k] \in Nat
           /\ \A i \in 1 .. Len(notified) : notified[i] \in Literal
           /\ Told = Len(root) + Len(notified)
           /\ phase \in Phase
           /\ IsHistory(asg, notified)
<1>1. /\ IsTrail(trail) /\ IsTrail(root) /\ qhead \in Nat /\ trailLim \in Seq(Nat)
      /\ phase \in Phase
      /\ IsHistory(asg, notified)
  BY DEF GlucoseIInv, GlucoseTypeOK, ControllerTypeOK
<1>2. /\ Len(trail) \in Nat /\ Len(root) \in Nat
      /\ \A i \in 1 .. Len(trail) : trail[i] \in Literal
  BY <1>1, TrailFacts
<1>3. Len(notified) \in Nat /\ \A i \in 1 .. Len(notified) : notified[i] \in Literal
  BY <1>1, HistoryFacts
<1>4. Len(trailLim) \in Nat /\ \A k \in 1 .. Len(trailLim) : trailLim[k] \in Nat
  BY <1>1, SeqFacts
<1> QED
  BY <1>1, <1>2, <1>3, <1>4 DEF Level, Told

\* A literal that is unassigned is of no variable of the trail.
LEMMA UnassignedFacts ==
    ASSUME IsTrail(trail), NEW l \in Literal
    PROVE  Unassigned(l) <=> \A i \in 1 .. Len(trail) : Variable(trail[i]) # Variable(l)
<1>1. DOMAIN trail = 1 .. Len(trail) /\ \A i \in 1 .. Len(trail) : trail[i] \in Literal
  BY TrailFacts
<1>2. \A i \in 1 .. Len(trail) :
          Variable(trail[i]) = Variable(l) <=> trail[i] = l \/ trail[i] = Negated(l)
  BY <1>1, LiteralFacts
<1> QED
  BY <1>1, <1>2 DEF Unassigned, Value

\* The literal dequeued last is the one notified last.
LEMMA LastIsDequeued ==
    ASSUME GlucoseIInv, phase \in {"notified", "watches"}
    PROVE  /\ qhead = Told /\ qhead \in 1 .. Len(trail)
           /\ trail[qhead] = Last(notified) /\ trail[qhead] \in Literal
           /\ Len(notified) \in DOMAIN notified
           /\ Last(notified) = notified[Len(notified)]
<1>1. ok /\ notified # << >>
  BY DEF GlucoseIInv, QueueMatches
<1>2. qhead = Told
  BY <1>1 DEF GlucoseIInv, QueueMatches
<1>3. Len(notified) \in Nat \ {0} /\ Last(notified) = notified[Len(notified)]
      /\ DOMAIN notified = 1 .. Len(notified)
  BY <1>1, StateFacts, HistoryFacts, FrontLastProperties
<1>4. Told <= Len(trail) /\ notified[Len(notified)] = trail[Len(root) + Len(notified)]
  BY <1>3 DEF GlucoseIInv, TrailMatches
<1> QED
  BY <1>2, <1>3, <1>4, StateFacts

-----------------------------------------------------------------------------
\* What the controller is asked, and what the invariant says of the rest.

GlucoseRest ==
    /\ IsTrail(root) /\ IsTrail(trail) /\ qhead \in Nat
    /\ phase # "cancel" => qhead <= Len(trail)
    /\ trailLim \in Seq(Nat) /\ ok \in BOOLEAN /\ phase \in Phase
    /\ conflict \in Clause
    /\ after \in [level : Nat, enqueue : Seq(Literal), phase : Phase]
    /\ TrailMatches
    /\ LevelsMatch
    /\ CancelMatchesLevels
    /\ QueueMatches
    /\ ClauseIsCurrent

LEMMA IInvParts == GlucoseIInv <=> ControllerIInv /\ GlucoseRest
  BY DEF GlucoseIInv, GlucoseRest, GlucoseTypeOK, ControllerIInv

\* Every step of the search is a step of the controller or leaves it alone.
LEMMA SearchCallsController ==
    ASSUME GlucoseIInv, GlucoseNext
    PROVE  ControllerNext \/ UNCHANGED controllerVars
<1>1. CASE SolveStart
  BY <1>1 DEF SolveStart, ControllerNext
<1>2. CASE DrainUnit
  <2>1. NoVariable \in Cause /\ "UNITS" \in ClauseType
    BY CauseFacts DEF ClauseType
  <2> QED
    BY <1>2, <2>1 DEF DrainUnit, ControllerNext
<1>3. CASE Dequeue
  <2>1. qhead + 1 \in 1 .. Len(trail)
    BY <1>3, StateFacts DEF Dequeue
  <2>2. trail[qhead + 1] \in Literal
    BY <2>1, StateFacts
  <2> QED
    BY <1>3, <2>2 DEF Dequeue, ControllerNext
<1>4. CASE LearnSymmetryClause
  <2>1. trail[qhead] \in Literal
    BY <1>4, LastIsDequeued DEF LearnSymmetryClause
  <2>2. Variable(trail[qhead]) \in Cause /\ "ESBP" \in ClauseType
    BY <2>1, LiteralFacts, CauseFacts DEF ClauseType
  <2> QED
    BY <1>4, <2>2 DEF LearnSymmetryClause, ControllerNext
<1>5. CASE CancelLiteral
  <2>1. trail # << >>
    <3>1. after.level + 1 \in 1 .. Level
      <4>1. after.level < Level /\ after.level \in Nat
        BY <1>5 DEF GlucoseIInv, GlucoseTypeOK, CancelMatchesLevels, CancelLiteral
      <4> QED
        BY <4>1, StateFacts
    <3>2. trailLim[after.level + 1] \in Nat /\ Len(trail) > trailLim[after.level + 1]
      BY <1>5, <3>1, StateFacts DEF CancelLiteral
    <3>3. Len(trail) # 0
      BY <3>2, StateFacts
    <3> QED
      BY <3>3, EmptySeq
  <2>2. Last(trail) \in Literal
    BY <2>1, StateFacts, PopFacts
  <2> QED
    BY <1>5, <2>2 DEF CancelLiteral, ControllerNext
<1>6. CASE SearchStart \/ NoSymmetryClause \/ WatchesDone \/ RootConflict
           \/ CancelDone \/ Finished
  BY <1>6 DEF SearchStart, NoSymmetryClause, WatchesDone, RootConflict, CancelDone,
              Finished
<1>7. ASSUME NEW l, Imply(l) \/ Decide(l) PROVE UNCHANGED controllerVars
  BY <1>7 DEF Imply, Decide
<1>8. ASSUME NEW binary, ClauseConflict(binary) PROVE UNCHANGED controllerVars
  BY <1>8 DEF ClauseConflict
<1>9. ASSUME NEW level, NEW l, Analyze(level, l) PROVE UNCHANGED controllerVars
  BY <1>9 DEF Analyze, CancelUntil
<1>10. ASSUME NEW next, Restart(next) PROVE UNCHANGED controllerVars
  BY <1>10 DEF Restart, CancelUntil
<1> QED
  BY <1>1, <1>2, <1>3, <1>4, <1>5, <1>6, <1>7, <1>8, <1>9, <1>10 DEF GlucoseNext

-----------------------------------------------------------------------------
\* Each step keeps what the invariant says of the search.

\* Steps that leave the trail, the levels and what was notified alone.
SameTrail == UNCHANGED <<root, trail, trailLim, notified>>

LEMMA SameTrailFacts ==
    ASSUME GlucoseIInv, SameTrail
    PROVE  /\ TrailMatches'
           /\ Told' = Told /\ Level' = Level
           /\ IsTrail(root)' /\ IsTrail(trail)' /\ (trailLim \in Seq(Nat))'
           /\ \A k : trailLim'[k] = trailLim[k]
<1>1. Told' = Told /\ Level' = Level
  BY DEF SameTrail, Told, Level
<1>2. TrailMatches'
  BY <1>1 DEF SameTrail, GlucoseIInv, TrailMatches
<1> QED
  BY <1>1, <1>2 DEF SameTrail, GlucoseIInv, GlucoseTypeOK, IsTrail

LEMMA GlucoseInitRest == GlucoseInit => GlucoseRest
<1> SUFFICES ASSUME GlucoseInit PROVE GlucoseRest
  OBVIOUS
<1>1. /\ trail = root /\ qhead = Len(root) /\ trailLim = << >> /\ ok = TRUE
      /\ phase = "idle" /\ conflict = {} /\ after = NoCancel
      /\ notified = << >> /\ root \in RootChoices
  BY DEF GlucoseInit, ControllerInit
<1>2. IsTrail(root) /\ IsTrail(trail)
  BY <1>1, RootChoicesAssumption
<1>3. Len(root) \in Nat /\ Len(notified) = 0 /\ Level = 0 /\ trailLim \in Seq(Nat)
      /\ notified \in Seq(Literal)
  BY <1>1, <1>2, TrailFacts, EmptySeq DEF Level
<1>4. Told = Len(root)
  BY <1>3 DEF Told
<1>5. TrailMatches
  BY <1>1, <1>3, <1>4 DEF TrailMatches
<1>6. LevelsMatch /\ CancelMatchesLevels /\ QueueMatches /\ ClauseIsCurrent
  BY <1>1, <1>3, <1>4 DEF LevelsMatch, CancelMatchesLevels, QueueMatches, ClauseIsCurrent
<1>7. after \in [level : Nat, enqueue : Seq(Literal), phase : Phase]
  BY <1>1, EmptySeq DEF NoCancel, Phase
<1> QED
  BY <1>1, <1>2, <1>3, <1>5, <1>6, <1>7 DEF GlucoseRest, Phase, Clause

LEMMA SolveStartKeepsRest == ASSUME GlucoseIInv, SolveStart PROVE GlucoseRest'
<1>1. /\ phase = "idle" /\ phase' = "units" /\ enables' = enables + 1
      /\ UNCHANGED <<root, trail, qhead, trailLim, ok, conflict, after, notified>>
  BY DEF SolveStart, EnableCosy, Goto
<1>2. SameTrail
  BY <1>1 DEF SameTrail
<1>3. Enabled'
  BY <1>1, MaxEnablesAssumption DEF Enabled, GlucoseIInv, GlucoseTypeOK, ControllerTypeOK
<1>4. LevelsMatch' /\ CancelMatchesLevels' /\ QueueMatches' /\ ClauseIsCurrent'
  BY <1>1, <1>2, <1>3, SameTrailFacts
     DEF GlucoseIInv, LevelsMatch, CancelMatchesLevels, QueueMatches, ClauseIsCurrent
<1> QED
  BY <1>1, <1>2, <1>4, SameTrailFacts DEF GlucoseRest, GlucoseIInv, GlucoseTypeOK, Phase

LEMMA SearchStartKeepsRest == ASSUME GlucoseIInv, SearchStart PROVE GlucoseRest'
<1>1. /\ phase = "units" /\ phase' = IF ok THEN "propagate" ELSE "idle"
      /\ UNCHANGED <<root, trail, qhead, trailLim, ok, conflict, after, notified, enables>>
  BY DEF SearchStart, Goto, controllerVars
<1>2. SameTrail /\ Enabled' = Enabled
  BY <1>1 DEF SameTrail, Enabled
<1>3. LevelsMatch' /\ CancelMatchesLevels' /\ QueueMatches' /\ ClauseIsCurrent'
  BY <1>1, <1>2, SameTrailFacts
     DEF GlucoseIInv, LevelsMatch, CancelMatchesLevels, QueueMatches, ClauseIsCurrent
<1> QED
  BY <1>1, <1>2, <1>3, SameTrailFacts DEF GlucoseRest, GlucoseIInv, GlucoseTypeOK, Phase

LEMMA NoSymmetryClauseKeepsRest ==
    ASSUME GlucoseIInv, NoSymmetryClause \/ WatchesDone PROVE GlucoseRest'
<1>1. /\ \/ phase = "notified" /\ phase' = "watches"
         \/ phase = "watches" /\ phase' = "propagate"
      /\ UNCHANGED <<root, trail, qhead, trailLim, ok, conflict, after, notified, enables>>
  BY DEF NoSymmetryClause, WatchesDone, Goto, controllerVars
<1>2. SameTrail /\ Enabled' = Enabled
  BY <1>1 DEF SameTrail, Enabled
<1>3. LevelsMatch' /\ CancelMatchesLevels' /\ QueueMatches' /\ ClauseIsCurrent'
  BY <1>1, <1>2, SameTrailFacts
     DEF GlucoseIInv, LevelsMatch, CancelMatchesLevels, QueueMatches, ClauseIsCurrent
<1> QED
  BY <1>1, <1>2, <1>3, SameTrailFacts DEF GlucoseRest, GlucoseIInv, GlucoseTypeOK, Phase

LEMMA RootConflictKeepsRest == ASSUME GlucoseIInv, RootConflict PROVE GlucoseRest'
<1>1. /\ phase = "conflict" /\ phase' = "idle" /\ Level = 0 /\ ok' = FALSE
      /\ UNCHANGED <<root, trail, qhead, trailLim, conflict, after, notified, enables>>
  BY DEF RootConflict, Goto, controllerVars
<1>2. SameTrail /\ Enabled' = Enabled
  BY <1>1 DEF SameTrail, Enabled
<1>3. LevelsMatch' /\ CancelMatchesLevels' /\ QueueMatches' /\ ClauseIsCurrent'
  BY <1>1, <1>2, SameTrailFacts
     DEF GlucoseIInv, LevelsMatch, CancelMatchesLevels, QueueMatches, ClauseIsCurrent
<1> QED
  BY <1>1, <1>2, <1>3, SameTrailFacts DEF GlucoseRest, GlucoseIInv, GlucoseTypeOK, Phase

\* A literal is pushed that the trail has no literal of the variable of.
LEMMA PushKeepsTrail ==
    ASSUME GlucoseIInv, NEW l \in Literal, Unassigned(l), trail' = Append(trail, l),
           UNCHANGED <<root, notified>>
    PROVE  /\ IsTrail(trail)' /\ IsTrail(root)'
           /\ Len(trail') = Len(trail) + 1
           /\ \A i \in 1 .. Len(trail) : trail'[i] = trail[i]
           /\ Told' = Told
           /\ TrailMatches'
<1>1. IsTrail(trail) /\ \A i \in 1 .. Len(trail) : Variable(trail[i]) # Variable(l)
  BY StateFacts, UnassignedFacts
<1>2. /\ IsTrail(trail') /\ Len(trail') = Len(trail) + 1
      /\ \A i \in 1 .. Len(trail) : trail'[i] = trail[i]
  <2>1. IsPushed(trail, l, trail')
    BY <1>1 DEF IsPushed
  <2> QED
    BY <2>1, PushFacts
<1>3. IsTrail(trail)'
  BY <1>2 DEF IsTrail
<1>4. Told' = Told
  BY DEF Told
<1>5. TrailMatches'
  <2>1. /\ Len(trail) \in Nat /\ Len(root) \in Nat /\ Len(notified) \in Nat
        /\ Told = Len(root) + Len(notified)
    BY StateFacts
  <2>2. TrailMatches
    BY DEF GlucoseIInv
  <2>3. \A i \in 1 .. Len(root) : i \in 1 .. Len(trail)
    BY <2>1, <2>2 DEF TrailMatches
  <2>4. \A i \in 1 .. Len(notified) : Len(root) + i \in 1 .. Len(trail)
    BY <2>1, <2>2 DEF TrailMatches
  <2> QED
    BY <1>2, <1>4, <2>1, <2>2, <2>3, <2>4 DEF TrailMatches
<1> QED
  BY <1>2, <1>3, <1>4, <1>5, StateFacts DEF IsTrail

LEMMA DrainUnitKeepsRest == ASSUME GlucoseIInv, DrainUnit PROVE GlucoseRest'
<1>1. /\ phase = "units"
      /\ HasClause(clauses, "UNITS", NoVariable)
      /\ \E l \in TakenClause(clauses, "UNITS", NoVariable) :
             trail' = IF Unassigned(l) THEN Append(trail, l) ELSE trail
      /\ UNCHANGED <<root, qhead, trailLim, ok, phase, conflict, after, notified, enables>>
  BY DEF DrainUnit, ClauseToInject
<1>2. TakenClause(clauses, "UNITS", NoVariable) \subseteq Literal
  <2>1. clauses["UNITS"][NoVariable] \in Seq(Clause)
    BY CauseFacts DEF GlucoseIInv, GlucoseTypeOK, ControllerTypeOK, ClauseType
  <2>2. TakenClause(clauses, "UNITS", NoVariable) \in Clause
    BY <1>1, <2>1, FrontLastProperties DEF HasClause, TakenClause
  <2> QED
    BY <2>2 DEF Clause
<1>3. PICK l \in Literal : trail' = IF Unassigned(l) THEN Append(trail, l) ELSE trail
  BY <1>1, <1>2
<1>4. /\ IsTrail(trail)' /\ IsTrail(root)' /\ TrailMatches' /\ Told' = Told
      /\ Len(trail') \in Nat /\ Len(trail') >= Len(trail)
  <2>1. CASE Unassigned(l)
    <3>1. trail' = Append(trail, l) /\ UNCHANGED <<root, notified>>
      BY <1>1, <1>3, <2>1
    <3>2. /\ IsTrail(trail)' /\ IsTrail(root)' /\ TrailMatches' /\ Told' = Told
          /\ Len(trail') = Len(trail) + 1
      BY <2>1, <3>1, PushKeepsTrail
    <3>3. Len(trail) \in Nat
      BY StateFacts
    <3> QED
      BY <3>2, <3>3
  <2>2. CASE ~Unassigned(l)
    <3>1. SameTrail
      BY <1>1, <1>3, <2>2 DEF SameTrail
    <3> QED
      BY <1>3, <2>2, <3>1, SameTrailFacts, StateFacts
  <2> QED
    BY <2>1, <2>2
<1>5. Level = 0 /\ Level' = Level /\ Enabled' = Enabled
  BY <1>1 DEF GlucoseIInv, QueueMatches, Level, Enabled
<1>6. LevelsMatch' /\ CancelMatchesLevels' /\ QueueMatches' /\ ClauseIsCurrent'
  BY <1>1, <1>4, <1>5
     DEF GlucoseIInv, LevelsMatch, CancelMatchesLevels, QueueMatches, ClauseIsCurrent
<1>7. qhead' <= Len(trail')
  BY <1>1, <1>4, StateFacts DEF GlucoseIInv, GlucoseTypeOK
<1> QED
  BY <1>1, <1>4, <1>6, <1>7 DEF GlucoseRest, GlucoseIInv, GlucoseTypeOK, Phase

LEMMA ImplyKeepsRest ==
    ASSUME GlucoseIInv, NEW l \in Literal, Imply(l) PROVE GlucoseRest'
<1>1. /\ phase = "watches" /\ Unassigned(l) /\ trail' = Append(trail, l)
      /\ UNCHANGED <<root, qhead, trailLim, ok, phase, conflict, after, notified, enables>>
  BY DEF Imply, controllerVars
<1>2. /\ IsTrail(trail)' /\ IsTrail(root)' /\ TrailMatches' /\ Told' = Told
      /\ Len(trail') = Len(trail) + 1
  BY <1>1, PushKeepsTrail
<1>3. Level' = Level /\ Enabled' = Enabled /\ \A k : trailLim'[k] = trailLim[k]
  BY <1>1 DEF Level, Enabled
<1>4. CancelMatchesLevels' /\ QueueMatches' /\ ClauseIsCurrent'
  BY <1>1, <1>2, <1>3
     DEF GlucoseIInv, CancelMatchesLevels, QueueMatches, ClauseIsCurrent
<1>5. LevelsMatch'
  <2>1. \A k \in 1 .. Level : trailLim[k] < Len(trail) + 1
    BY <1>1, StateFacts DEF GlucoseIInv, LevelsMatch
  <2> QED
    BY <1>1, <1>2, <1>3, <2>1 DEF GlucoseIInv, LevelsMatch
<1>6. qhead' <= Len(trail')
  BY <1>1, <1>2, StateFacts DEF GlucoseIInv, GlucoseTypeOK
<1> QED
  BY <1>1, <1>2, <1>4, <1>5, <1>6 DEF GlucoseRest, GlucoseIInv, GlucoseTypeOK, Phase

LEMMA DecideKeepsRest ==
    ASSUME GlucoseIInv, NEW l \in Literal, Decide(l) PROVE GlucoseRest'
<1>1. /\ phase = "propagate" /\ qhead = Len(trail)
      /\ Unassigned(l) /\ trail' = Append(trail, l)
      /\ trailLim' = Append(trailLim, Len(trail))
      /\ UNCHANGED <<root, qhead, ok, phase, conflict, after, notified, enables>>
  BY DEF Decide, PropagateDone, controllerVars
<1>2. /\ IsTrail(trail)' /\ IsTrail(root)' /\ TrailMatches' /\ Told' = Told
      /\ Len(trail') = Len(trail) + 1
  BY <1>1, PushKeepsTrail
<1>3. ok /\ qhead = Told /\ Told = Len(trail) /\ Len(root) <= Len(trail)
  BY <1>1 DEF GlucoseIInv, QueueMatches, TrailMatches
<1>4. /\ trailLim' \in Seq(Nat)
      /\ Level' = Level + 1
      /\ \A k \in 1 .. Level : trailLim'[k] = trailLim[k]
      /\ trailLim'[Level + 1] = Len(trail)
  BY <1>1, StateFacts, AppendProperties DEF Level, GlucoseIInv, GlucoseTypeOK
<1>5. LevelsMatch'
  <2>1. \A k \in 1 .. Level : /\ trailLim[k] \in Nat
                              /\ trailLim[k] < Len(trail) /\ Len(root) <= trailLim[k]
    BY <1>1, StateFacts DEF GlucoseIInv, LevelsMatch
  <2>2. \A k \in 1 .. Level' : k \in 1 .. Level \/ k = Level + 1
    BY <1>4, StateFacts
  <2>3. ASSUME NEW k \in 1 .. Level'
        PROVE  /\ trailLim'[k] \in Nat
               /\ trailLim'[k] <= Len(trail) /\ Len(root) <= trailLim'[k]
    <3>1. CASE k \in 1 .. Level
      <4>1. trailLim'[k] = trailLim[k]
        BY <1>4, <3>1
      <4>2. Len(trail) \in Nat
        BY StateFacts
      <4> QED
        BY <2>1, <3>1, <4>1, <4>2
    <3>2. CASE k = Level + 1
      <4>1. trailLim'[k] = Len(trail)
        BY <1>4, <3>2
      <4>2. Len(trail) \in Nat
        BY StateFacts
      <4> QED
        BY <1>3, <4>1, <4>2
    <3> QED
      BY <2>2, <3>1, <3>2
  <2>4. ASSUME NEW j \in 1 .. Level', NEW k \in 1 .. Level', j < k
        PROVE  trailLim'[j] < trailLim'[k]
    <3>1. Level \in Nat /\ j \in 1 .. Level
      BY <1>4, <2>4, StateFacts
    <3>2. CASE k \in 1 .. Level
      BY <1>4, <2>4, <3>1, <3>2 DEF GlucoseIInv, LevelsMatch
    <3>3. CASE k = Level + 1
      BY <1>4, <2>1, <3>1, <3>3
    <3> QED
      BY <2>2, <3>2, <3>3
  <2>5. \A k \in 1 .. Level' : trailLim'[k] < Len(trail') /\ trailLim'[k] <= Told'
    BY <1>2, <1>3, <2>3, StateFacts
  <2>6. phase' = "propagate" /\ root' = root
    BY <1>1
  <2>7. \A k \in 1 .. Level' : Len(root') <= trailLim'[k]
    BY <2>3, <2>6
  <2> QED
    BY <2>4, <2>5, <2>6, <2>7 DEF LevelsMatch
<1>6. CancelMatchesLevels' /\ QueueMatches' /\ ClauseIsCurrent'
  BY <1>1, <1>2, <1>3
     DEF GlucoseIInv, CancelMatchesLevels, QueueMatches, ClauseIsCurrent, Enabled
<1>7. qhead' <= Len(trail')
  BY <1>1, <1>2, StateFacts
<1> QED
  BY <1>1, <1>2, <1>4, <1>5, <1>6, <1>7 DEF GlucoseRest, GlucoseIInv, GlucoseTypeOK, Phase

\* UpdateNotify appends the literal to what was notified.
LEMMA NotifyFacts ==
    ASSUME NEW l \in Literal, UpdateNotify(l)
    PROVE  /\ notified' = Append(notified, l)
           /\ asg' = asg \cup {l}
           /\ ~LiteralIsAssigned(asg, l)
           /\ enables' = enables
  BY DEF UpdateNotify, NotifyDisabled, NotifyAll, NotifyReducer, Assign,
         AssignFromTrueLiteral

LEMMA DequeueKeepsRest == ASSUME GlucoseIInv, Dequeue PROVE GlucoseRest'
<1> DEFINE l == trail[qhead + 1]
<1>1. /\ phase = "propagate" /\ phase' = "notified"
      /\ qhead < Len(trail) /\ qhead' = qhead + 1
      /\ UpdateNotify(l)
      /\ UNCHANGED <<root, trail, trailLim, ok, conflict, after>>
  BY DEF Dequeue, Goto
<1>2. ok /\ qhead = Told
  BY <1>1 DEF GlucoseIInv, QueueMatches
<1>3. l \in Literal
  <2>1. qhead + 1 \in 1 .. Len(trail)
    BY <1>1, StateFacts
  <2> QED
    BY <2>1, StateFacts
<1>4. notified' = Append(notified, l) /\ enables' = enables
  BY <1>1, <1>3, NotifyFacts
<1>5. /\ Len(notified') = Len(notified) + 1
      /\ \A i \in 1 .. Len(notified) : notified'[i] = notified[i]
      /\ notified'[Len(notified) + 1] = l
  <2>1. notified \in Seq(Literal)
    BY StateFacts, HistoryFacts
  <2> QED
    BY <1>3, <1>4, <2>1, AppendFacts
<1>6. Told' = Told + 1 /\ qhead = Len(root) + Len(notified)
  BY <1>1, <1>2, <1>5, StateFacts DEF Told
<1> HIDE DEF l
<1>7. TrailMatches'
  <2>1. \A i \in 1 .. Len(notified) : notified[i] = trail[Len(root) + i]
    BY DEF GlucoseIInv, TrailMatches
  <2>2. l = trail[Len(root) + (Len(notified) + 1)]
    BY <1>6, StateFacts DEF l
  <2>3. ASSUME NEW i \in 1 .. Len(notified') PROVE notified'[i] = trail[Len(root) + i]
    <3>1. i \in 1 .. Len(notified) \/ i = Len(notified) + 1
      BY <1>5, StateFacts
    <3> QED
      BY <1>5, <2>1, <2>2, <3>1
  <2>4. Told' <= Len(trail)
    BY <1>1, <1>2, <1>6, StateFacts
  <2> QED
    BY <1>1, <2>3, <2>4 DEF GlucoseIInv, TrailMatches
<1>8. Level' = Level /\ Enabled' = Enabled /\ notified' # << >>
  <2>1. notified' # << >>
    BY <1>5, StateFacts, EmptySeq
  <2> QED
    BY <1>1, <1>4, <2>1 DEF Level, Enabled
<1>9. LevelsMatch'
  <2>1. \A k \in 1 .. Level : trailLim[k] < Told + 1 /\ trailLim[k] <= Told + 1
    <3>1. \A k \in 1 .. Level : trailLim[k] \in Nat /\ trailLim[k] <= Told
      BY <1>1, StateFacts DEF GlucoseIInv, LevelsMatch
    <3> QED
      BY <3>1, StateFacts
  <2> QED
    BY <1>1, <1>6, <1>8, <2>1 DEF GlucoseIInv, LevelsMatch
<1>10. CancelMatchesLevels' /\ QueueMatches' /\ ClauseIsCurrent'
  BY <1>1, <1>2, <1>6, <1>8
     DEF GlucoseIInv, CancelMatchesLevels, QueueMatches, ClauseIsCurrent
<1>11. qhead' <= Len(trail') /\ qhead' \in Nat
  BY <1>1, StateFacts
<1> QED
  BY <1>1, <1>7, <1>9, <1>10, <1>11
     DEF GlucoseRest, GlucoseIInv, GlucoseTypeOK, Phase, IsTrail

\* The literal dequeued last is true, and was assigned at the current level.
LEMMA DequeuedIsCurrent ==
    ASSUME GlucoseIInv, phase \in {"notified", "watches"}
    PROVE  trail[qhead] \in CurrentLevel /\ Value(trail[qhead])
<1>1. qhead = Told /\ qhead \in 1 .. Len(trail)
  BY LastIsDequeued
<1>2. DOMAIN trail = 1 .. Len(trail)
  BY StateFacts, TrailFacts
<1>3. CASE Level = 0
  BY <1>1, <1>2, <1>3 DEF CurrentLevel, Value
<1>4. CASE Level # 0
  <2>1. Level \in 1 .. Level /\ trailLim[Level] \in Nat /\ Last(trailLim) = trailLim[Level]
    BY <1>4, StateFacts DEF Last, Level
  <2>2. trailLim[Level] < Told
    BY <2>1 DEF GlucoseIInv, LevelsMatch
  <2>3. qhead \in Last(trailLim) + 1 .. Len(trail)
    BY <1>1, <2>1, <2>2, StateFacts
  <2> QED
    BY <1>1, <1>2, <1>4, <2>3 DEF CurrentLevel, Value
<1> QED
  BY <1>3, <1>4

\* A clause is in conflict that is false and was not at the level before.
LEMMA ConflictKeepsRest ==
    ASSUME GlucoseIInv, phase \in {"notified", "watches"}, phase' = "conflict",
           SameTrail, UNCHANGED <<ok, after, enables>>,
           qhead' \in Nat, qhead' <= Len(trail), conflict' \in Clause,
           \A l \in conflict' : Value(Negated(l)),
           \E l \in conflict' : Negated(l) = trail[qhead]
    PROVE  GlucoseRest'
<1>1. ok /\ Enabled /\ notified # << >>
  BY DEF GlucoseIInv, QueueMatches
<1>2. /\ Enabled' = Enabled /\ CurrentLevel' = CurrentLevel
      /\ \A l : Value(l)' = Value(l)
      /\ trail' = trail /\ root' = root /\ notified' = notified
  BY DEF Enabled, SameTrail, CurrentLevel, Value, Level
<1>3. ClauseIsCurrent'
  BY <1>2, DequeuedIsCurrent DEF ClauseIsCurrent, Value, SameTrail
<1>4. LevelsMatch'
  BY <1>2, SameTrailFacts DEF GlucoseIInv, LevelsMatch
<1>5. CancelMatchesLevels' /\ QueueMatches'
  BY <1>1, <1>2, SameTrailFacts DEF CancelMatchesLevels, QueueMatches
<1> QED
  BY <1>2, <1>3, <1>4, <1>5, SameTrailFacts DEF GlucoseRest, GlucoseIInv, GlucoseTypeOK, Phase

LEMMA LearnSymmetryClauseKeepsRest ==
    ASSUME GlucoseIInv, LearnSymmetryClause PROVE GlucoseRest'
<1> DEFINE v == Variable(trail[qhead])
           clause == TakenClause(clauses, "ESBP", v)
<1>1. /\ phase = "notified" /\ phase' = "conflict"
      /\ HasClause(clauses, "ESBP", v)
      /\ conflict' = clause
      /\ UNCHANGED <<root, trail, qhead, trailLim, ok, after, notified, enables>>
  BY DEF LearnSymmetryClause, ClauseToInject, Goto
<1>2. /\ qhead = Told /\ qhead \in 1 .. Len(trail)
      /\ trail[qhead] = Last(notified) /\ trail[qhead] \in Literal
      /\ Len(notified) \in DOMAIN notified
      /\ Last(notified) = notified[Len(notified)]
  BY <1>1, LastIsDequeued
<1>3. v \in Variables
  BY <1>2, LiteralFacts
<1>4. clause \in Clause
  <2>1. clauses["ESBP"][v] \in Seq(Clause)
    BY <1>3, CauseFacts DEF GlucoseIInv, GlucoseTypeOK, ControllerTypeOK, ClauseType
  <2> QED
    BY <1>1, <2>1, FrontLastProperties DEF HasClause, TakenClause
<1>5. PICK i \in DOMAIN notified :
          /\ Variable(notified[i]) = v
          /\ Negated(notified[i]) \in clause
          /\ \A l \in clause : \E j \in 1 .. i : notified[j] = Negated(l)
  BY <1>1, <1>3, IInvImpliesConflict DEF GlucoseIInv, PendingClauseIsConflict, EsbpIsConflict
<1> HIDE DEF v, clause
<1>6. i = Len(notified)
  BY <1>2, <1>5, StateFacts DEF v, IsHistory
<1>7. /\ notified[i] \in Literal /\ Negated(Negated(notified[i])) = notified[i]
      /\ DOMAIN notified = 1 .. Len(notified) /\ DOMAIN trail = 1 .. Len(trail)
  BY <1>2, <1>6, LiteralFacts, StateFacts, HistoryFacts, TrailFacts
<1>8. ASSUME NEW l \in clause PROVE Value(Negated(l))
  <2>1. PICK j \in 1 .. Len(notified) : notified[j] = Negated(l)
    BY <1>5, <1>6
  <2>2. notified[j] = trail[Len(root) + j] /\ Told <= Len(trail)
    BY <2>1 DEF GlucoseIInv, TrailMatches
  <2>3. Len(root) + j \in 1 .. Len(trail)
    BY <2>1, <2>2, StateFacts
  <2> QED
    BY <1>7, <2>1, <2>2, <2>3 DEF Value
<1>9. \E l \in clause : Negated(l) = trail[qhead]
  BY <1>2, <1>5, <1>6, <1>7
<1>10. SameTrail /\ qhead' \in Nat /\ qhead' <= Len(trail)
  BY <1>1, <1>2, StateFacts DEF SameTrail
<1> QED
  BY <1>1, <1>4, <1>8, <1>9, <1>10, ConflictKeepsRest

LEMMA ClauseConflictKeepsRest ==
    ASSUME GlucoseIInv, NEW binary \in BOOLEAN, ClauseConflict(binary) PROVE GlucoseRest'
<1>1. /\ phase = "watches" /\ phase' = "conflict"
      /\ conflict' = {Negated(trail[qhead])}
      /\ qhead' = IF binary THEN qhead ELSE Len(trail)
      /\ UNCHANGED <<root, trail, trailLim, ok, after, notified, enables>>
  BY DEF ClauseConflict, controllerVars, Goto
<1>2. qhead \in 1 .. Len(trail) /\ trail[qhead] \in Literal
  BY <1>1, LastIsDequeued
<1>3. Negated(Negated(trail[qhead])) = trail[qhead] /\ Negated(trail[qhead]) \in Literal
  BY <1>2, LiteralFacts
<1>4. Value(trail[qhead])
  BY <1>1, DequeuedIsCurrent
<1>5. SameTrail /\ qhead' \in Nat /\ qhead' <= Len(trail)
  BY <1>1, <1>2, StateFacts DEF SameTrail
<1> QED
  BY <1>1, <1>3, <1>4, <1>5, ConflictKeepsRest DEF Clause

LEMMA AnalyzeKeepsRest ==
    ASSUME GlucoseIInv, NEW level \in 0 .. Level - 1, NEW l \in CurrentLevel,
           Analyze(level, l)
    PROVE  GlucoseRest'
<1>1. /\ phase = "conflict" /\ phase' = "cancel"
      /\ after' = [level |-> level, enqueue |-> <<Negated(l)>>, phase |-> "propagate"]
      /\ UNCHANGED <<root, trail, qhead, trailLim, ok, conflict, notified, enables>>
  BY DEF Analyze, CancelUntil, controllerVars
<1>2. SameTrail /\ Enabled' = Enabled /\ ok /\ Enabled
  BY <1>1 DEF SameTrail, Enabled, GlucoseIInv, QueueMatches
<1>3. level \in Nat /\ level < Level /\ level + 1 \in 1 .. Level /\ Level \in 1 .. Level
      /\ Level \in Nat /\ Level # 0
  BY StateFacts
<1>4. /\ trailLim[level + 1] \in Nat /\ trailLim[level + 1] <= trailLim[Level]
      /\ trailLim[Level] \in Nat
      /\ trailLim[level + 1] < Len(trail) /\ trailLim[level + 1] <= Told
      /\ Last(trailLim) = trailLim[Level]
  <2>1. trailLim[level + 1] \in Nat /\ trailLim[Level] \in Nat
    BY <1>3, StateFacts
  <2>2. level + 1 < Level \/ level + 1 = Level
    BY <1>3
  <2>3. trailLim[level + 1] <= trailLim[Level]
    BY <1>3, <2>1, <2>2 DEF GlucoseIInv, LevelsMatch
  <2>4. trailLim[level + 1] < Len(trail) /\ trailLim[level + 1] <= Told
    BY <1>1, <1>3 DEF GlucoseIInv, LevelsMatch
  <2> QED
    BY <2>1, <2>3, <2>4 DEF Last, Level
<1>5. PICK n \in trailLim[Level] + 1 .. Len(trail) : l = trail[n]
  BY <1>3, <1>4 DEF CurrentLevel
<1>6. n \in 1 .. Len(trail) /\ l \in Literal /\ n > trailLim[level + 1]
  <2>1. Len(trail) \in Nat
    BY StateFacts
  <2>2. n \in 1 .. Len(trail) /\ n > trailLim[level + 1]
    BY <1>4, <1>5, <2>1
  <2> QED
    BY <1>5, <2>2, StateFacts
<1>7. Negated(l) \in Literal /\ Variable(Negated(l)) = Variable(l)
  BY <1>6, LiteralFacts
<1>8. ASSUME NEW i \in 1 .. trailLim[level + 1]
      PROVE  Variable(trail[i]) # Variable(Negated(l))
  <2>1. i \in 1 .. Len(trail) /\ i # n
    BY <1>4, <1>6, StateFacts
  <2> QED
    BY <1>5, <1>6, <1>7, <2>1, StateFacts, TrailFacts
<1>9. /\ after'.level = level /\ after'.enqueue = <<Negated(l)>>
      /\ after'.phase = "propagate"
      /\ after' \in [level : Nat, enqueue : Seq(Literal), phase : Phase]
  BY <1>1, <1>3, <1>7 DEF Phase
<1>10. CancelMatchesLevels'
  <2>1. \E m \in Literal : /\ after'.enqueue = <<m>>
                           /\ \A i \in 1 .. trailLim[level + 1] :
                                  Variable(trail[i]) # Variable(m)
    BY <1>7, <1>8, <1>9
  <2>2. Level' = Level /\ Told' = Told
    BY <1>2, SameTrailFacts
  <2>3. trailLim' = trailLim /\ trail' = trail
    BY <1>1
  <2>4. trailLim[level + 1] <= Len(trail)
    BY <1>4, StateFacts
  <2> QED
    BY <1>3, <1>4, <1>9, <2>1, <2>2, <2>3, <2>4 DEF CancelMatchesLevels
<1>11. LevelsMatch' /\ QueueMatches' /\ ClauseIsCurrent'
  BY <1>1, <1>2, SameTrailFacts
     DEF GlucoseIInv, LevelsMatch, QueueMatches, ClauseIsCurrent
<1> QED
  BY <1>1, <1>2, <1>9, <1>10, <1>11, SameTrailFacts
     DEF GlucoseRest, GlucoseIInv, GlucoseTypeOK, Phase

LEMMA RestartKeepsRest ==
    ASSUME GlucoseIInv, NEW next \in {"propagate", "idle"}, Restart(next)
    PROVE  GlucoseRest'
<1>1. /\ phase = "propagate" /\ qhead = Len(trail)
      /\ UNCHANGED <<root, trail, qhead, trailLim, ok, conflict, notified, enables>>
  BY DEF Restart, PropagateDone, CancelUntil, controllerVars
<1>2. SameTrail /\ Enabled' = Enabled /\ ok /\ Enabled /\ qhead = Told
  BY <1>1 DEF SameTrail, Enabled, GlucoseIInv, QueueMatches
<1>3. CASE Level > 0
  <2>1. /\ phase' = "cancel"
        /\ after' = [level |-> 0, enqueue |-> << >>, phase |-> next]
    BY <1>3 DEF Restart, CancelUntil
  <2>2. /\ 0 < Level /\ 1 \in 1 .. Level /\ 0 + 1 = 1
        /\ after'.level = 0 /\ after'.enqueue = << >> /\ after'.phase = next
    BY <1>3, <2>1, StateFacts
  <2>3. trailLim[1] \in Nat /\ trailLim[1] < Len(trail) /\ trailLim[1] <= Told
    BY <1>1, <2>2, StateFacts DEF GlucoseIInv, LevelsMatch
  <2>4. after' \in [level : Nat, enqueue : Seq(Literal), phase : Phase]
    BY <2>1, EmptySeq DEF Phase
  <2>5. CancelMatchesLevels'
    <3>1. trailLim[1] <= Len(trail)
      BY <2>3, StateFacts
    <3> QED
      BY <1>1, <1>2, <2>2, <2>3, <3>1, SameTrailFacts DEF CancelMatchesLevels
  <2>6. LevelsMatch' /\ QueueMatches' /\ ClauseIsCurrent'
    BY <1>1, <1>2, <2>1, SameTrailFacts
       DEF GlucoseIInv, LevelsMatch, QueueMatches, ClauseIsCurrent
  <2> QED
    BY <1>1, <1>2, <2>1, <2>4, <2>5, <2>6, SameTrailFacts
       DEF GlucoseRest, GlucoseIInv, GlucoseTypeOK, Phase
<1>4. CASE ~(Level > 0)
  <2>1. phase' = next /\ after' = after
    BY <1>4 DEF Restart, Goto
  <2>2. Level = 0
    BY <1>4, StateFacts
  <2>3. LevelsMatch' /\ CancelMatchesLevels' /\ QueueMatches' /\ ClauseIsCurrent'
    BY <1>1, <1>2, <2>1, <2>2, SameTrailFacts
       DEF GlucoseIInv, LevelsMatch, CancelMatchesLevels, QueueMatches, ClauseIsCurrent
  <2> QED
    BY <1>1, <1>2, <2>1, <2>3, SameTrailFacts
       DEF GlucoseRest, GlucoseIInv, GlucoseTypeOK, Phase
<1> QED
  BY <1>3, <1>4

\* What cancelUntil has left to do, as the provers need it.
LEMMA CancelFacts ==
    ASSUME GlucoseIInv, phase = "cancel"
    PROVE  /\ after.level \in Nat /\ after.level < Level
           /\ after.level + 1 \in 1 .. Level
           /\ trailLim[after.level + 1] \in Nat
           /\ Len(root) <= trailLim[after.level + 1]
           /\ trailLim[after.level + 1] <= Len(trail)
           /\ trailLim[after.level + 1] <= Told
           /\ Told <= Len(trail)
           /\ ok /\ Enabled
<1>1. after.level \in Nat /\ after.level < Level
  BY DEF GlucoseIInv, GlucoseTypeOK, CancelMatchesLevels
<1>2. after.level + 1 \in 1 .. Level
  BY <1>1, StateFacts
<1> QED
  BY <1>1, <1>2, StateFacts
     DEF GlucoseIInv, CancelMatchesLevels, LevelsMatch, TrailMatches, QueueMatches

\* The literal that is cancelled was notified last, or it was not notified.
LEMMA CancelledFacts ==
    ASSUME GlucoseIInv, CancelLiteral
    PROVE  /\ IF LiteralIsAssigned(asg, Last(trail))
              THEN /\ notified # << >> /\ Last(notified) = Last(trail)
                   /\ Told = Len(trail)
                   /\ notified' = Front(notified)
              ELSE Told < Len(trail) /\ notified' = notified
<1> DEFINE n == Len(trail)
           l == Last(trail)
<1>1. phase = "cancel" /\ n > trailLim[after.level + 1] /\ UpdateCancel(l)
  BY DEF CancelLiteral
<1>2. n \in Nat \ {0} /\ l = trail[n] /\ l \in Literal /\ n \in 1 .. n
  <2>1. n \in Nat \ {0}
    BY <1>1, CancelFacts, StateFacts
  <2>2. trail # << >>
    BY <2>1, EmptySeq
  <2> QED
    BY <2>1, <2>2, StateFacts, PopFacts
<1>3. /\ Len(root) \in Nat /\ Len(notified) \in Nat /\ Told = Len(root) + Len(notified)
      /\ Told <= n /\ Len(root) < n
      /\ \A i \in 1 .. Len(notified) : notified[i] = trail[Len(root) + i]
  <2>1. Len(root) < n
    BY <1>1, CancelFacts, StateFacts
  <2> QED
    BY <2>1, StateFacts DEF GlucoseIInv, TrailMatches
<1>4. notified \in Seq(Literal) /\ DOMAIN notified = 1 .. Len(notified)
      /\ \A i \in 1 .. Len(notified) : notified[i] \in asg
  BY StateFacts, HistoryFacts
<1> HIDE DEF n, l
<1>5. CASE LiteralIsAssigned(asg, l)
  <2>1. l = Last(notified) /\ notified' = Front(notified)
    BY <1>1, <1>5 DEF UpdateCancel
  <2>2. PICK i \in 1 .. Len(notified) : Variable(notified[i]) = Variable(l)
    <3>1. l \in asg \/ Negated(l) \in asg
      BY <1>5 DEF LiteralIsAssigned, LiteralIsTrue, LiteralIsFalse
    <3>2. \E i \in DOMAIN notified : notified[i] = l \/ notified[i] = Negated(l)
      BY <1>2, <3>1, LiteralFacts, StateFacts DEF IsHistory
    <3> QED
      BY <1>2, <1>4, <3>2, LiteralFacts
  <2>3. Len(root) + i \in 1 .. n
    BY <1>2, <1>3
  <2>4. Len(root) + i = n
    <3>1. Variable(trail[Len(root) + i]) = Variable(trail[n])
      BY <1>2, <1>3, <2>2
    <3> QED
      BY <1>2, <2>3, <3>1, StateFacts, TrailFacts DEF n
  <2>5. Told = n /\ notified # << >>
    BY <1>2, <1>3, <1>4, <2>2, <2>4, EmptySeq
  <2> QED
    BY <1>5, <2>1, <2>5 DEF n, l
<1>6. CASE ~LiteralIsAssigned(asg, l)
  <2>1. notified' = notified
    BY <1>1, <1>6 DEF UpdateCancel
  <2>2. Told # n
    <3>1. SUFFICES ASSUME Told = n PROVE FALSE
      OBVIOUS
    <3>2. Len(notified) \in 1 .. Len(notified) /\ Len(root) + Len(notified) = n
      BY <1>2, <1>3, <3>1
    <3>3. l \in asg
      BY <1>2, <1>3, <1>4, <3>2
    <3> QED
      BY <1>6, <3>3 DEF LiteralIsAssigned, LiteralIsTrue
  <2> QED
    BY <1>2, <1>3, <1>6, <2>1, <2>2 DEF n, l
<1> QED
  BY <1>5, <1>6 DEF l

LEMMA CancelLiteralKeepsRest == ASSUME GlucoseIInv, CancelLiteral PROVE GlucoseRest'
<1> DEFINE T == trailLim[after.level + 1]
<1>1. /\ phase = "cancel" /\ phase' = "cancel" /\ Len(trail) > T
      /\ trail' = Front(trail)
      /\ UNCHANGED <<root, qhead, trailLim, ok, conflict, after, enables>>
  BY DEF CancelLiteral, UpdateCancel
<1>2. /\ T \in Nat /\ Len(root) <= T /\ T <= Told /\ Told <= Len(trail)
      /\ Len(trail) \in Nat /\ Len(root) \in Nat /\ Len(notified) \in Nat
      /\ Told = Len(root) + Len(notified) /\ ok /\ Enabled
  BY <1>1, CancelFacts, StateFacts
<1>3. /\ IsTrail(trail') /\ Len(trail') = Len(trail) - 1
      /\ \A i \in 1 .. Len(trail) - 1 : trail'[i] = trail[i]
  <2>1. trail # << >>
    BY <1>1, <1>2, EmptySeq
  <2> QED
    BY <1>1, <2>1, StateFacts, PopFacts
<1> HIDE DEF T
<1>4. /\ Len(notified') \in Nat /\ Len(notified') <= Len(notified)
      /\ \A i \in 1 .. Len(notified') : notified'[i] = notified[i]
      /\ Len(root) + Len(notified') <= Len(trail) - 1
      /\ T <= Len(root) + Len(notified')
  <2>1. CASE LiteralIsAssigned(asg, Last(trail))
    <3>1. notified # << >> /\ Told = Len(trail) /\ notified' = Front(notified)
      BY <2>1, CancelledFacts
    <3>2. notified \in Seq(Literal)
      BY StateFacts, HistoryFacts
    <3>3. /\ Len(notified') = Len(notified) - 1 /\ Len(notified) # 0
          /\ \A i \in 1 .. Len(notified) - 1 : notified'[i] = notified[i]
      BY <3>1, <3>2, FrontFacts
    <3> QED
      BY <1>1, <1>2, <3>1, <3>3 DEF T
  <2>2. CASE ~LiteralIsAssigned(asg, Last(trail))
    <3>1. Told < Len(trail) /\ notified' = notified
      BY <2>2, CancelledFacts
    <3> QED
      BY <1>2, <3>1
  <2> QED
    BY <2>1, <2>2
<1>5. Told' = Len(root) + Len(notified')
  BY <1>1 DEF Told
<1>6. TrailMatches'
  <2>1. Len(root) <= Len(trail) - 1
    BY <1>2, <1>4
  <2>2. \A i \in 1 .. Len(root) : trail'[i] = root[i]
    <3>1. \A i \in 1 .. Len(root) : trail[i] = root[i]
      BY DEF GlucoseIInv, TrailMatches
    <3>2. \A i \in 1 .. Len(root) : i \in 1 .. Len(trail) - 1
      BY <1>2, <2>1
    <3> QED
      BY <1>3, <3>1, <3>2
  <2>3. ASSUME NEW i \in 1 .. Len(notified') PROVE notified'[i] = trail'[Len(root) + i]
    <3>1. i \in 1 .. Len(notified) /\ Len(root) + i \in 1 .. Len(trail) - 1
      BY <1>2, <1>4
    <3>2. notified[i] = trail[Len(root) + i]
      BY <3>1 DEF GlucoseIInv, TrailMatches
    <3> QED
      BY <1>3, <1>4, <3>1, <3>2
  <2> QED
    BY <1>1, <1>3, <1>4, <1>5, <2>1, <2>2, <2>3 DEF TrailMatches
<1>7. Level' = Level /\ Enabled' = Enabled
  BY <1>1 DEF Level, Enabled
<1>8. LevelsMatch' /\ QueueMatches' /\ ClauseIsCurrent'
  BY <1>1, <1>2, <1>7 DEF GlucoseIInv, LevelsMatch, QueueMatches, ClauseIsCurrent
<1>9. CancelMatchesLevels'
  <2>1. \A i \in 1 .. T : trail'[i] = trail[i]
    <3>1. \A i \in 1 .. T : i \in 1 .. Len(trail) - 1
      BY <1>1, <1>2 DEF T
    <3> QED
      BY <1>3, <3>1
  <2>2. T <= Len(trail')
    BY <1>1, <1>2, <1>3 DEF T
  <2> QED
    BY <1>1, <1>4, <1>5, <1>7, <2>1, <2>2 DEF GlucoseIInv, CancelMatchesLevels, T
<1> QED
  BY <1>1, <1>3, <1>6, <1>8, <1>9
     DEF GlucoseRest, GlucoseIInv, GlucoseTypeOK, Phase, IsTrail

\* What is enqueued when the trail is as long as it was at the level.
LEMMA EnqueueFacts ==
    ASSUME GlucoseIInv, phase = "cancel", Len(trail) = trailLim[after.level + 1]
    PROVE  LET trail2 == trail \o after.enqueue
           IN  /\ IsTrail(trail2)
               /\ Len(trail2) \in Nat /\ Len(trail) <= Len(trail2)
               /\ \A i \in 1 .. Len(trail) : trail2[i] = trail[i]
<1>1. IsTrail(trail) /\ trail \in Seq(Literal) /\ Len(trail) \in Nat
  BY StateFacts, TrailFacts
<1>2. CASE after.enqueue = << >>
  <2>1. trail \o after.enqueue = trail
    BY <1>1, <1>2, ConcatEmptySeq
  <2> QED
    BY <1>1, <2>1
<1>3. CASE after.enqueue # << >>
  <2>1. PICK l \in Literal :
            /\ after.enqueue = << l >>
            /\ \A i \in 1 .. trailLim[after.level + 1] : Variable(trail[i]) # Variable(l)
    BY <1>3 DEF GlucoseIInv, CancelMatchesLevels
  <2>2. trail \o after.enqueue = Append(trail, l)
    BY <1>1, <2>1, AppendIsConcat
  <2>3. IsPushed(trail, l, Append(trail, l))
    BY <1>1, <2>1 DEF IsPushed
  <2>4. LET trail2 == Append(trail, l)
        IN  /\ IsTrail(trail2)
            /\ Len(trail2) = Len(trail) + 1
            /\ \A i \in 1 .. Len(trail) : trail2[i] = trail[i]
    BY <2>3, PushFacts
  <2> QED
    BY <1>1, <2>2, <2>4
<1> QED
  BY <1>2, <1>3

\* The levels above the one that cancelUntil goes back to are gone.
LEMMA CancelDoneLevels ==
    ASSUME GlucoseIInv, CancelDone
    PROVE  /\ trailLim' \in Seq(Nat) /\ Level' = after.level
           /\ \A k \in 1 .. after.level : trailLim'[k] = trailLim[k]
<1> DEFINE n == after.level
<1>1. phase = "cancel" /\ trailLim' = SubSeq(trailLim, 1, n)
  BY DEF CancelDone
<1>2. n \in Nat /\ \A i \in 1 .. n : i \in 1 .. Level
  BY <1>1, CancelFacts, StateFacts
<1>3. n \in Int /\ \A i \in 1 .. n : trailLim[i] \in Nat
  BY <1>2, StateFacts
<1> HIDE DEF n
<1>4. n - 1 + 1 = n /\ (~(1 <= n) => n = 0)
  BY <1>2
<1>5. /\ SubSeq(trailLim, 1, n) \in Seq(Nat)
      /\ Len(SubSeq(trailLim, 1, n)) = IF 1 <= n THEN n - 1 + 1 ELSE 0
      /\ \A i \in 1 .. n - 1 + 1 : SubSeq(trailLim, 1, n)[i] = trailLim[1 + i - 1]
  BY <1>3, SubSeqProperties
<1>6. \A i \in 1 .. n : 1 + i - 1 = i
  OBVIOUS
<1>7. \A i \in 1 .. n : SubSeq(trailLim, 1, n)[i] = trailLim[i]
  BY <1>4, <1>5, <1>6
<1> QED
  BY <1>1, <1>4, <1>5, <1>7 DEF n, Level

LEMMA CancelDoneKeepsRest == ASSUME GlucoseIInv, CancelDone PROVE GlucoseRest'
<1> DEFINE T == trailLim[after.level + 1]
<1>1. /\ phase = "cancel" /\ phase' = after.phase /\ Len(trail) = T
      /\ qhead' = Len(trail)
      /\ trailLim' = SubSeq(trailLim, 1, after.level)
      /\ trail' = trail \o after.enqueue
      /\ after' = NoCancel /\ conflict' = {}
      /\ UNCHANGED <<root, ok, notified, enables>>
  BY DEF CancelDone, controllerVars, Goto
<1>2. /\ T \in Nat /\ Len(root) <= T /\ T <= Told /\ Told <= Len(trail)
      /\ after.level \in Nat /\ after.level < Level /\ after.level + 1 \in 1 .. Level
      /\ ok /\ Enabled
  BY <1>1, CancelFacts
<1>3. /\ Len(trail) \in Nat /\ Len(root) \in Nat /\ Len(notified) \in Nat /\ Level \in Nat
      /\ Told = Len(root) + Len(notified)
  BY StateFacts
<1>4. /\ IsTrail(trail') /\ Len(trail') \in Nat /\ Len(trail) <= Len(trail')
      /\ \A i \in 1 .. Len(trail) : trail'[i] = trail[i]
  BY <1>1, EnqueueFacts
<1> HIDE DEF T
<1>5. Told = Len(trail) /\ Told' = Told /\ Enabled' = Enabled
  <2>1. Told' = Told /\ Enabled' = Enabled
    BY <1>1 DEF Told, Enabled
  <2>2. Len(trail) = T
    BY <1>1 DEF T
  <2>3. Told = Len(trail)
    BY <1>2, <1>3, <2>2
  <2> QED
    BY <2>1, <2>3
<1>6. /\ trailLim' \in Seq(Nat) /\ Level' = after.level
      /\ \A k \in 1 .. after.level : trailLim'[k] = trailLim[k]
  BY CancelDoneLevels
<1>7. TrailMatches'
  <2>1. TrailMatches
    BY DEF GlucoseIInv
  <2>2. \A i \in 1 .. Len(root) : i \in 1 .. Len(trail)
    BY <1>1, <1>2, <1>3 DEF T
  <2>3. \A i \in 1 .. Len(notified) : Len(root) + i \in 1 .. Len(trail)
    BY <1>3, <1>5
  <2>4. Len(root) <= Len(trail') /\ Told <= Len(trail')
    BY <1>1, <1>2, <1>3, <1>4, <1>5 DEF T
  <2> QED
    BY <1>1, <1>4, <1>5, <2>1, <2>2, <2>3, <2>4 DEF TrailMatches
<1>8. phase' \in {"propagate", "idle"} /\ (phase' = "idle" => Level' = 0)
  BY <1>1, <1>6 DEF GlucoseIInv, CancelMatchesLevels
<1>9. LevelsMatch'
  <2>1. ASSUME NEW k \in 1 .. after.level
        PROVE  /\ trailLim'[k] < Len(trail') /\ trailLim'[k] <= Told
               /\ Len(root) <= trailLim'[k]
    <3>1. k \in 1 .. Level /\ k < after.level + 1
      BY <1>2, <1>3
    <3>2. trailLim[k] \in Nat /\ trailLim[k] < T /\ Len(root) <= trailLim[k]
      BY <1>2, <3>1, StateFacts DEF GlucoseIInv, LevelsMatch, T
    <3> QED
      BY <1>1, <1>2, <1>3, <1>4, <1>5, <1>6, <3>2 DEF T
  <2>2. \A j, k \in 1 .. after.level : j < k => trailLim'[j] < trailLim'[k]
    <3>1. \A k \in 1 .. after.level : k \in 1 .. Level
      BY <1>2, <1>3
    <3> QED
      BY <1>6, <3>1 DEF GlucoseIInv, LevelsMatch
  <2> QED
    BY <1>1, <1>5, <1>6, <1>8, <2>1, <2>2 DEF LevelsMatch
<1>10. CancelMatchesLevels' /\ QueueMatches' /\ ClauseIsCurrent'
  <2>1. CASE phase' = "idle"
    BY <1>1, <1>2, <1>5, <1>8, <2>1 DEF CancelMatchesLevels, QueueMatches, ClauseIsCurrent
  <2>2. CASE phase' = "propagate"
    BY <1>1, <1>2, <1>5, <1>8, <2>2 DEF CancelMatchesLevels, QueueMatches, ClauseIsCurrent
  <2> QED
    BY <1>8, <2>1, <2>2
<1>11. after' \in [level : Nat, enqueue : Seq(Literal), phase : Phase]
  BY <1>1, EmptySeq DEF NoCancel, Phase
<1>12. IsTrail(root)' /\ IsTrail(trail)'
  BY <1>1, <1>4 DEF GlucoseIInv, GlucoseTypeOK, IsTrail
<1>13. qhead' \in Nat /\ qhead' <= Len(trail')
  BY <1>1, <1>3, <1>4
<1>14. phase' \in Phase /\ ok' \in BOOLEAN /\ conflict' \in Clause
  BY <1>1, <1>8 DEF GlucoseIInv, GlucoseTypeOK, Phase, Clause
<1> QED
  BY <1>6, <1>7, <1>9, <1>10, <1>11, <1>12, <1>13, <1>14 DEF GlucoseRest

\* The program stops, or nothing happens.
LEMMA StutterKeepsRest ==
    ASSUME GlucoseIInv, UNCHANGED glucoseVars PROVE GlucoseRest'
<1>1. UNCHANGED <<root, trail, qhead, trailLim, ok, phase, conflict, after, notified,
                  enables>>
  BY DEF glucoseVars, controllerVars, solverVars
<1>2. SameTrail /\ Enabled' = Enabled /\ \A l : Value(l)' = Value(l)
      /\ CurrentLevel' = CurrentLevel
  BY <1>1 DEF SameTrail, Enabled, Value, CurrentLevel, Level
<1>3. LevelsMatch' /\ CancelMatchesLevels' /\ QueueMatches' /\ ClauseIsCurrent'
  BY <1>1, <1>2, SameTrailFacts
     DEF GlucoseIInv, LevelsMatch, CancelMatchesLevels, QueueMatches, ClauseIsCurrent
<1> QED
  BY <1>1, <1>2, <1>3, SameTrailFacts DEF GlucoseRest, GlucoseIInv, GlucoseTypeOK, Phase

LEMMA GlucoseNextKeepsIInv ==
    ASSUME GlucoseIInv, [GlucoseNext]_glucoseVars PROVE GlucoseIInv'
<1>1. [ControllerNext]_controllerVars
  BY SearchCallsController DEF glucoseVars
<1>2. ControllerIInv'
  BY <1>1, ControllerNextKeepsIInv DEF GlucoseIInv
<1>3. ASSUME GlucoseNext PROVE GlucoseRest'
  <2>1. CASE SolveStart \/ DrainUnit \/ SearchStart
    BY <2>1, SolveStartKeepsRest, DrainUnitKeepsRest, SearchStartKeepsRest
  <2>2. CASE Dequeue \/ LearnSymmetryClause \/ NoSymmetryClause \/ WatchesDone
    BY <2>2, DequeueKeepsRest, LearnSymmetryClauseKeepsRest, NoSymmetryClauseKeepsRest
  <2>3. ASSUME NEW l \in Literal, Imply(l) \/ Decide(l) PROVE GlucoseRest'
    BY <2>3, ImplyKeepsRest, DecideKeepsRest
  <2>4. ASSUME NEW binary \in BOOLEAN, ClauseConflict(binary) PROVE GlucoseRest'
    BY <2>4, ClauseConflictKeepsRest
  <2>5. CASE RootConflict
    BY <2>5, RootConflictKeepsRest
  <2>6. ASSUME NEW level \in 0 .. Level - 1, NEW l \in CurrentLevel, Analyze(level, l)
        PROVE  GlucoseRest'
    BY <2>6, AnalyzeKeepsRest
  <2>7. ASSUME NEW next \in {"propagate", "idle"}, Restart(next) PROVE GlucoseRest'
    BY <2>7, RestartKeepsRest
  <2>8. CASE CancelLiteral \/ CancelDone
    BY <2>8, CancelLiteralKeepsRest, CancelDoneKeepsRest
  <2>9. CASE Finished
    BY <2>9, StutterKeepsRest DEF Finished, glucoseVars
  <2> QED
    BY <1>3, <2>1, <2>2, <2>3, <2>4, <2>5, <2>6, <2>7, <2>8, <2>9 DEF GlucoseNext
<1>4. GlucoseRest'
  BY <1>3, StutterKeepsRest
<1> QED
  BY <1>2, <1>4 DEF GlucoseIInv, GlucoseRest, GlucoseTypeOK, ControllerIInv

LEMMA GlucoseInitIInv == GlucoseInit => GlucoseIInv
  BY GlucoseInitRest, ControllerInitIInv, IInvParts DEF GlucoseInit

LEMMA GlucoseIInvCorrect == GlucoseSpec => []GlucoseIInv
  BY GlucoseInitIInv, GlucoseNextKeepsIInv, PTL DEF GlucoseSpec

\* The trail never has a variable twice and the queue is always a part of it,
\* whatever clauses are in conflict, learnt or taken from the controller.
THEOREM GlucoseTypeCorrect == GlucoseSpec => []GlucoseTypeOK
<1>1. GlucoseIInv => GlucoseTypeOK
  BY DEF GlucoseIInv
<1> QED
  BY <1>1, GlucoseIInvCorrect, PTL

\* The search of Glucose keeps the protocol of the controller: it notifies
\* literals of unassigned variables only, cancels the one it notified last or
\* one it never notified, and takes clauses only when there are any.
THEOREM GlucoseKeepsProtocol == GlucoseSpec => ControllerSpec
<1>1. GlucoseInit => ControllerInit
  BY DEF GlucoseInit
<1>2. GlucoseIInv /\ [GlucoseNext]_glucoseVars => [ControllerNext]_controllerVars
  BY SearchCallsController DEF glucoseVars
<1> QED
  BY <1>1, <1>2, GlucoseIInvCorrect, PTL DEF GlucoseSpec, ControllerSpec

LEMMA IInvImpliesFollows == GlucoseIInv => ControllerFollowsQueue
<1> SUFFICES ASSUME GlucoseIInv, ok,
                    phase \in {"units", "propagate", "notified", "watches"}
             PROVE  notified = SubSeq(trail, Len(root) + 1, qhead)
  BY DEF ControllerFollowsQueue
<1> DEFINE m == Len(root) + 1
           told == SubSeq(trail, m, qhead)
<1>1. /\ Len(trail) \in Nat /\ Len(root) \in Nat /\ Len(notified) \in Nat
      /\ qhead = Len(root) + Len(notified) /\ qhead <= Len(trail)
      /\ \A i \in 1 .. Len(notified) : notified[i] = trail[Len(root) + i]
  BY StateFacts DEF GlucoseIInv, QueueMatches, TrailMatches
<1>2. m \in Int /\ qhead \in Int /\ qhead - m + 1 = Len(notified)
      /\ (~(m <= qhead) => Len(notified) = 0)
      /\ \A i \in 1 .. Len(notified) : m + i - 1 = Len(root) + i
  BY <1>1
<1>3. \A i \in m .. qhead : trail[i] \in Literal
  <2>1. \A i \in m .. qhead : i \in 1 .. Len(trail)
    BY <1>1
  <2> QED
    BY <2>1, StateFacts
<1> HIDE DEF m
<1>4. /\ told \in Seq(Literal)
      /\ Len(told) = IF m <= qhead THEN qhead - m + 1 ELSE 0
      /\ \A i \in 1 .. qhead - m + 1 : told[i] = trail[m + i - 1]
  BY <1>2, <1>3, SubSeqProperties
<1> HIDE DEF told
<1>5. Len(told) = Len(notified) /\ \A i \in 1 .. Len(notified) : notified[i] = told[i]
  BY <1>1, <1>2, <1>4
<1>6. notified \in Seq(Literal)
  BY StateFacts, HistoryFacts
<1> QED
  BY <1>4, <1>5, <1>6, SeqEqual DEF told, m

\* Whenever the search looks at its queue, the controller was told of exactly
\* what left it, in that order.
THEOREM QueueIsFollowed == GlucoseSpec => []ControllerFollowsQueue
  BY IInvImpliesFollows, GlucoseIInvCorrect, PTL

\* The ESBP clause that ends a propagation of Glucose is a conflict, and a
\* forcing clause would be unit.
THEOREM SearchClausesAreConflicts == GlucoseSpec => []PendingClauseIsConflict
  BY GlucoseKeepsProtocol, ClausesAreConflicts, PTL

-----------------------------------------------------------------------------
\* No status finds that a set of literals has no lex leader above it.
NoReducerOn(A) == \A p \in Statuses : ~IsReducer(A, LookupOf(p), Inverses[p])

\* What was assigned before the literal notified last.
BeforeLast == AssignedBy(notified, Len(notified) - 1)

\* The search goes on from assignments that are no reducer's.  The clause of a
\* reducer waits for the literal that was notified last, and only until the
\* solver asks for it; the literal goes before the search goes on.
ReducersAreSeen ==
    /\ ok /\ phase \in {"idle", "units", "propagate", "watches"} => NoReducerOn(asg)
    /\ phase = "notified" =>
          \/ NoReducerOn(asg)
          \/ NoReducerOn(BeforeLast) /\ HasClause(clauses, "ESBP", Variable(Last(notified)))
    /\ phase = "conflict" => NoReducerOn(BeforeLast)
    /\ phase = "cancel" =>
          \/ NoReducerOn(asg)
          \/ /\ notified # << >>
             /\ NoReducerOn(BeforeLast)
             /\ trailLim[after.level + 1] < Told
    /\ \A v \in Variables : HasClause(clauses, "ESBP", v) =>
          phase = "notified" /\ v = Variable(Last(notified))

LEMMA NothingIsReduced == NoReducerOn({})
  BY InversesFacts, LookupOfIsLookup, EmptyIsNoReducer DEF NoReducerOn

LEMMA FewerAreNoReducer ==
    ASSUME NEW A, NEW B, A \subseteq B, B \subseteq Literal, Consistent(B), NoReducerOn(B)
    PROVE  NoReducerOn(A)
<1> SUFFICES ASSUME NEW p \in Statuses, IsReducer(A, LookupOf(p), Inverses[p])
             PROVE  FALSE
  BY DEF NoReducerOn
<1>1. IsLiteralMap(Inverses[p]) /\ IsLookup(LookupOf(p), Inverses[p])
  BY InversesFacts, LookupOfIsLookup
<1> DEFINE lookup == LookupOf(p)
           inverse == Inverses[p]
<1>2. IsReducer(B, lookup, inverse)
  <2>1. PICK c \in 1 .. Len(lookup) + 1 : /\ StopsAt(A, lookup, inverse, c)
                                          /\ StateAt(A, lookup, inverse, c) = Reducer
    BY DEF IsReducer
  <2> HIDE DEF lookup, inverse
  <2>2. StopsAt(B, lookup, inverse, c) /\ StateAt(B, lookup, inverse, c) = Reducer
    BY <1>1, <2>1, ReducerMonotone DEF lookup, inverse
  <2> QED
    BY <2>2 DEF IsReducer
<1> QED
  BY <1>2 DEF NoReducerOn

\* Before the last literal less was assigned, and that is left once it goes.
LEMMA BeforeLastFacts ==
    ASSUME NEW A, NEW history, IsHistory(A, history), history # << >>
    PROVE  /\ AssignedBy(history, Len(history) - 1) = UnassignLiteral(A, Last(history))
           /\ AssignedBy(history, Len(history) - 1) \subseteq A
<1> DEFINE history2 == Front(history)
           A2 == UnassignLiteral(A, Last(history))
<1>1. history \in Seq(Literal)
  BY HistoryFacts
<1>2. /\ Len(history2) = Len(history) - 1 /\ Len(history) \in Nat \ {0}
      /\ \A i \in 1 .. Len(history) - 1 : history2[i] = history[i]
  BY <1>1, FrontFacts
<1>3. IsHistory(A2, history2)
  BY UnassignKeepsHistory
<1>4. AssignedBy(history2, Len(history2)) = A2
  BY <1>3, AssignedByFacts
<1>5. A2 \subseteq A
  BY DEF UnassignLiteral
<1> HIDE DEF history2, A2
<1>6. Len(history) - 1 \in Nat
  BY <1>2
<1>7. AssignedBy(history2, Len(history) - 1) = AssignedBy(history, Len(history) - 1)
  BY <1>2, <1>6, AssignedByPrefix
<1> QED
  BY <1>2, <1>4, <1>5, <1>7 DEF A2

\* Adding a clause touches no other type and no other cause.
LEMMA AddClauseLocal ==
    ASSUME NEW store, InjectorTypeOK(store), NEW type \in ClauseType,
           NEW v \in Variables, NEW clause
    PROVE  /\ \A t \in ClauseType, u \in Variables :
                 t # type \/ u # v =>
                     (HasClause(AddClause(store, type, v, clause), t, u)
                      <=> HasClause(store, t, u))
           /\ HasClause(AddClause(store, type, v, clause), type, v)
<1>1. store \in [ClauseType -> [Cause -> Seq(Clause)]] /\ v \in Cause /\ v # NoVariable
      /\ Variables \subseteq Cause
  BY CauseFacts DEF InjectorTypeOK
<1>2. CASE store[type][v] # << >>
  BY <1>1, <1>2 DEF AddClause, HasClause
<1>3. CASE store[type][v] = << >>
  <2>1. AddClause(store, type, v, clause) = [store EXCEPT ![type][v] = << clause >>]
    BY <1>1, <1>3 DEF AddClause
  <2>2. << clause >> # << >>
    OBVIOUS
  <2> QED
    BY <1>1, <2>1, <2>2 DEF HasClause
<1> QED
  BY <1>2, <1>3

\* A forcing clause is no ESBP clause.
LEMMA ForcingAddsNoEsbp ==
    ASSUME InjectorTypeOK(clauses), NEW l \in Literal, NEW told,
           NEW store \in AfterForcing(told, Variable(l)),
           \A v \in Variables : ~HasClause(clauses, "ESBP", v)
    PROVE  \A v \in Variables : ~HasClause(store, "ESBP", v)
<1>1. "ESBP" \in ClauseType /\ "ESBP_FORCING" \in ClauseType /\ "ESBP" # "ESBP_FORCING"
      /\ Variable(l) \in Variables
  BY LiteralFacts DEF ClauseType
<1>2. store = clauses \/ \E clause : store = AddClause(clauses, "ESBP_FORCING", Variable(l),
                                                      clause)
  BY DEF AfterForcing
<1> QED
  BY <1>1, <1>2, AddClauseLocal

\* What the controller makes of a literal when nothing was a reducer before:
\* the first status that becomes one leaves a clause for the literal.
LEMMA NotifySeesReducers ==
    ASSUME ControllerIInv, Enabled, NEW l \in Literal, UpdateNotify(l), NoReducerOn(asg),
           \A v \in Variables : ~HasClause(clauses, "ESBP", v)
    PROVE  /\ NoReducerOn(asg') \/ HasClause(clauses', "ESBP", Variable(l))
           /\ \A v \in Variables : HasClause(clauses', "ESBP", v) => v = Variable(l)
<1> DEFINE w == Variable(l)
<1>1. w \in Variables /\ "ESBP" \in ClauseType /\ "ESBP_FORCING" \in ClauseType
      /\ "ESBP" # "ESBP_FORCING"
  BY LiteralFacts DEF ClauseType
<1>2. InjectorTypeOK(clauses)
  BY TypeParts DEF ControllerIInv
<1>3. ASSUME NEW told, NEW store \in AfterForcing(told, w)
      PROVE  \A v \in Variables : ~HasClause(store, "ESBP", v)
  BY <1>2, <1>3, ForcingAddsNoEsbp
<1>4. CASE NotifyAll(l)
  <2>1. /\ Assign(l) /\ asg' = asg \cup {l}
        /\ \A p \in Watch(w) : NextState(p) # Reducer
        /\ clauses' \in AfterForcing(Watch(w), w)
    BY <1>4 DEF NotifyAll, Assign, AssignFromTrueLiteral
  <2>2. asg' \subseteq Literal /\ Consistent(asg')
    BY <2>1, AssignedOnTop DEF IsHistory
  <2>3. ASSUME NEW p \in Statuses PROVE ~IsReducer(asg', LookupOf(p), Inverses[p])
    <3>1. /\ IsLiteralMap(Inverses[p]) /\ IsLookup(LookupOf(p), Inverses[p])
          /\ LookupOf(p) \in Seq(Variables)
      BY StatusFacts
    <3>2. CASE p \in Watch(w)
      <4>1. StopsAt(asg', LookupOf(p), Inverses[p], NextIndex(p))
        BY <2>1, ToldStops
      <4>2. StateAt(asg', LookupOf(p), Inverses[p], NextIndex(p)) # Reducer
        BY <2>1, <3>2 DEF NextState
      <4> QED
        BY <3>1, <4>1, <4>2, StopIsUnique DEF IsReducer
    <3>3. CASE p \notin Watch(w)
      <4>1. Inverses[p][w] = w
        BY <3>3 DEF Watch
      <4>2. ~IsReducer(asg, LookupOf(p), Inverses[p])
        BY DEF NoReducerOn
      <4> QED
        BY <2>1, <2>2, <3>1, <4>1, <4>2, UnmovedKeepsReducer
    <3> QED
      BY <3>2, <3>3
  <2> QED
    BY <1>3, <2>1, <2>3 DEF NoReducerOn
<1>5. ASSUME NEW r \in Watch(w), NotifyReducer(l, r)
      PROVE  /\ HasClause(clauses', "ESBP", w)
             /\ \A v \in Variables : HasClause(clauses', "ESBP", v) => v = w
  <2>1. Assign(l)
    BY <1>5 DEF NotifyReducer
  <2>2. PICK told \in SUBSET Watch(w) : \E store \in AfterForcing(told, w) :
            \E clause : clauses' = AddClause(store, "ESBP", w, clause)
    BY <1>5 DEF NotifyReducer
  <2>3. PICK store \in AfterForcing(told, w) :
            \E clause : clauses' = AddClause(store, "ESBP", w, clause)
    BY <2>2
  <2>4. InjectorTypeOK(store)
    BY <2>1, AfterForcingMatches
  <2>5. \A v \in Variables : ~HasClause(store, "ESBP", v)
    BY <1>3
  <2> QED
    BY <1>1, <2>3, <2>4, <2>5, AddClauseLocal
<1> QED
  BY <1>4, <1>5 DEF UpdateNotify, NotifyDisabled

\* No step but a notification makes an ESBP clause.
LEMMA NoNewClauses ==
    ASSUME ControllerIInv,
           \/ EnableCosy
           \/ \E type \in ClauseType, cause \in Cause : ClauseToInject(type, cause)
           \/ \E l \in Literal : UpdateCancel(l)
    PROVE  \A v \in Variables : HasClause(clauses', "ESBP", v) => HasClause(clauses, "ESBP", v)
<1>1. InjectorTypeOK(clauses) /\ "ESBP" \in ClauseType /\ Variables \subseteq Cause
      /\ NoVariable \notin Variables
  BY TypeParts, CauseFacts DEF ControllerIInv, ClauseType
<1>2. CASE EnableCosy
  BY <1>1, <1>2, AddUnitsFacts DEF EnableCosy, HasClause
<1>3. ASSUME NEW type \in ClauseType, NEW cause \in Cause, ClauseToInject(type, cause),
             NEW v \in Variables, HasClause(clauses', "ESBP", v)
      PROVE  HasClause(clauses, "ESBP", v)
  <2>1. HasClause(clauses, type, cause) /\ clauses' = WithoutTaken(clauses, type, cause)
    BY <1>3 DEF ClauseToInject
  <2>2. clauses'["ESBP"][v] = clauses["ESBP"][v] \/ (type = "ESBP" /\ v = cause)
    <3>1. \A t \in ClauseType, c \in Cause :
              clauses'[t][c] = IF t = type /\ c = cause THEN Front(clauses[t][c])
                                                         ELSE clauses[t][c]
      BY <1>1, <2>1, WithoutTakenFacts
    <3>2. v \in Cause
      BY <1>1
    <3> QED
      BY <1>1, <3>1, <3>2
  <2> QED
    BY <1>3, <2>1, <2>2 DEF HasClause
<1>4. ASSUME NEW l \in Literal, UpdateCancel(l),
             NEW v \in Variables, HasClause(clauses', "ESBP", v)
      PROVE  HasClause(clauses, "ESBP", v)
  BY <1>1, <1>4, LiteralFacts, RemoveClausesFacts DEF UpdateCancel, HasClause
<1> QED
  BY <1>2, <1>3, <1>4

\* What was assigned before the last literal is no reducer if everything is none.
LEMMA NoneBeforeLast ==
    ASSUME GlucoseIInv, NoReducerOn(asg), notified # << >>
    PROVE  NoReducerOn(BeforeLast)
  BY StateFacts, BeforeLastFacts, FewerAreNoReducer DEF BeforeLast, IsHistory

LEMMA InitSeesReducers == GlucoseInit => ReducersAreSeen
<1> SUFFICES ASSUME GlucoseInit PROVE ReducersAreSeen
  OBVIOUS
<1>1. phase = "idle" /\ asg = {} /\ clauses = NoClauses
  BY DEF GlucoseInit, ControllerInit
<1>2. \A v \in Variables : ~HasClause(clauses, "ESBP", v)
  BY <1>1, CauseFacts DEF NoClauses, HasClause, ClauseType
<1> QED
  BY <1>1, <1>2, NothingIsReduced DEF ReducersAreSeen

\* Steps that leave the assignment alone and give no ESBP clause.
SameAssignment ==
    /\ UNCHANGED <<asg, notified>>
    /\ \A v \in Variables : HasClause(clauses', "ESBP", v) => HasClause(clauses, "ESBP", v)

LEMMA IdleSeesReducers ==
    ASSUME GlucoseIInv, ReducersAreSeen,
           \/ SolveStart \/ DrainUnit \/ SearchStart \/ WatchesDone \/ RootConflict
           \/ \E l \in Literal : Imply(l) \/ Decide(l)
    PROVE  ReducersAreSeen'
<1>1. \/ /\ SameAssignment /\ phase \notin {"notified", "conflict", "cancel"}
         /\ phase' \in {"idle", "units", "propagate", "watches"}
         /\ UNCHANGED ok /\ (ok => phase \in {"idle", "units", "propagate", "watches"})
      \/ SameAssignment /\ phase = "conflict" /\ phase' = "idle" /\ ok' = FALSE
  <2>1. CASE SolveStart
    <3>1. SameAssignment
      BY <2>1, NoNewClauses DEF SolveStart, EnableCosy, GlucoseIInv, SameAssignment
    <3> QED
      BY <2>1, <3>1 DEF SolveStart, Goto
  <2>2. CASE DrainUnit
    <3>1. SameAssignment
      <4>1. "UNITS" \in ClauseType /\ NoVariable \in Cause
        BY CauseFacts DEF ClauseType
      <4>2. ClauseToInject("UNITS", NoVariable)
        BY <2>2 DEF DrainUnit
      <4>3. UNCHANGED <<asg, notified>>
        BY <4>2 DEF ClauseToInject
      <4> QED
        BY <4>1, <4>2, <4>3, NoNewClauses DEF GlucoseIInv, SameAssignment
    <3> QED
      BY <2>2, <3>1 DEF DrainUnit
  <2>3. CASE SearchStart \/ WatchesDone
    <3>1. SameAssignment
      BY <2>3 DEF SearchStart, WatchesDone, controllerVars, SameAssignment
    <3> QED
      BY <2>3, <3>1 DEF SearchStart, WatchesDone, Goto
  <2>4. CASE RootConflict
    <3>1. SameAssignment
      BY <2>4 DEF RootConflict, controllerVars, SameAssignment
    <3> QED
      BY <2>4, <3>1 DEF RootConflict, Goto
  <2>5. ASSUME NEW l \in Literal, Imply(l)
        PROVE  /\ SameAssignment /\ phase = "watches" /\ phase' = "watches"
               /\ UNCHANGED ok
    BY <2>5 DEF Imply, controllerVars, SameAssignment
  <2>6. ASSUME NEW l \in Literal, Decide(l)
        PROVE  /\ SameAssignment /\ phase = "propagate" /\ phase' = "propagate"
               /\ UNCHANGED ok
    BY <2>6 DEF Decide, PropagateDone, controllerVars, SameAssignment
  <2> QED
    BY <2>1, <2>2, <2>3, <2>4, <2>5, <2>6
<1>2. CASE /\ SameAssignment /\ phase \notin {"notified", "conflict", "cancel"}
           /\ phase' \in {"idle", "units", "propagate", "watches"}
           /\ UNCHANGED ok /\ (ok => phase \in {"idle", "units", "propagate", "watches"})
  BY <1>2 DEF ReducersAreSeen, SameAssignment
<1>3. CASE SameAssignment /\ phase = "conflict" /\ phase' = "idle" /\ ok' = FALSE
  BY <1>3 DEF ReducersAreSeen, SameAssignment
<1> QED
  BY <1>1, <1>2, <1>3

LEMMA DequeueSeesReducers ==
    ASSUME GlucoseIInv, ReducersAreSeen, Dequeue PROVE ReducersAreSeen'
<1> DEFINE l == trail[qhead + 1]
<1>1. phase = "propagate" /\ phase' = "notified" /\ qhead < Len(trail) /\ UpdateNotify(l)
  BY DEF Dequeue, Goto
<1>2. ok /\ Enabled
  BY <1>1 DEF GlucoseIInv, QueueMatches
<1>3. l \in Literal
  <2>1. qhead + 1 \in 1 .. Len(trail)
    BY <1>1, StateFacts
  <2> QED
    BY <2>1, StateFacts
<1>4. NoReducerOn(asg) /\ \A v \in Variables : ~HasClause(clauses, "ESBP", v)
  BY <1>1, <1>2 DEF ReducersAreSeen
<1> HIDE DEF l
<1>5. /\ NoReducerOn(asg') \/ HasClause(clauses', "ESBP", Variable(l))
      /\ \A v \in Variables : HasClause(clauses', "ESBP", v) => v = Variable(l)
  BY <1>1, <1>2, <1>3, <1>4, NotifySeesReducers DEF GlucoseIInv
<1>6. Assign(l)
  BY <1>1 DEF UpdateNotify, NotifyDisabled, NotifyAll, NotifyReducer
<1>7. /\ IsHistory(asg', notified')
      /\ notified' # << >> /\ Last(notified') = l
      /\ asg \subseteq asg' /\ BeforeLast' = asg
  <2>1. notified \in Seq(Literal) /\ IsHistory(asg, notified)
    BY StateFacts, HistoryFacts
  <2>2. notified' = Append(notified, l) /\ asg' = AssignFromTrueLiteral(asg, l)
        /\ ~LiteralIsAssigned(asg, l)
    BY <1>6 DEF Assign
  <2>3. IsHistory(asg', notified')
    BY <1>3, <2>1, <2>2, AssignKeepsHistory
  <2>4. /\ notified' \in Seq(Literal) /\ Len(notified') = Len(notified) + 1
        /\ Len(notified) \in Nat /\ notified'[Len(notified) + 1] = l
        /\ \A i \in 1 .. Len(notified) : notified'[i] = notified[i]
    BY <1>3, <2>1, <2>2, AppendFacts, SeqFacts
  <2>5. notified' # << >> /\ Last(notified') = l
    BY <2>4, EmptySeq DEF Last
  <2>6. Len(notified') - 1 = Len(notified)
    BY <2>4
  <2>7. BeforeLast' = AssignedBy(notified', Len(notified))
    BY <2>6 DEF BeforeLast
  <2>8. AssignedBy(notified', Len(notified)) = AssignedBy(notified, Len(notified))
    BY <2>4, AssignedByPrefix
  <2>9. AssignedBy(notified, Len(notified)) = asg
    BY <2>1, AssignedByFacts
  <2> QED
    BY <2>2, <2>3, <2>5, <2>7, <2>8, <2>9 DEF AssignFromTrueLiteral
<1> QED
  BY <1>1, <1>4, <1>5, <1>7 DEF ReducersAreSeen

LEMMA NotifiedSeesReducers ==
    ASSUME GlucoseIInv, ReducersAreSeen,
           LearnSymmetryClause \/ NoSymmetryClause
    PROVE  ReducersAreSeen'
<1> DEFINE v == Variable(trail[qhead])
<1>1. phase = "notified" /\ ok
  BY DEF LearnSymmetryClause, NoSymmetryClause, GlucoseIInv, QueueMatches
<1>2. trail[qhead] = Last(notified) /\ trail[qhead] \in Literal /\ notified # << >>
  BY <1>1, LastIsDequeued DEF GlucoseIInv, QueueMatches
<1>3. v \in Variables /\ v = Variable(Last(notified))
  BY <1>2, LiteralFacts
<1> HIDE DEF v
<1>4. CASE LearnSymmetryClause
  <2>1. /\ phase' = "conflict" /\ UNCHANGED <<asg, notified>>
        /\ HasClause(clauses, "ESBP", v) /\ clauses' = WithoutTaken(clauses, "ESBP", v)
    BY <1>4 DEF LearnSymmetryClause, ClauseToInject, Goto, v
  <2>2. NoReducerOn(BeforeLast)
    BY <1>1, <1>2, NoneBeforeLast DEF ReducersAreSeen
  <2>3. BeforeLast' = BeforeLast
    BY <2>1 DEF BeforeLast
  <2>4. ASSUME NEW u \in Variables PROVE ~HasClause(clauses', "ESBP", u)
    <3>1. InjectorTypeOK(clauses) /\ "ESBP" \in ClauseType /\ u \in Cause /\ v \in Cause
      BY <1>3, TypeParts, CauseFacts DEF GlucoseIInv, ControllerIInv, ClauseType
    <3>2. /\ \A t \in ClauseType, c \in Cause :
                clauses'[t][c] = IF t = "ESBP" /\ c = v THEN Front(clauses[t][c])
                                                        ELSE clauses[t][c]
          /\ Front(clauses["ESBP"][v]) = << >>
      BY <1>3, <2>1, <3>1, WithoutTakenFacts
    <3>3. CASE u = v
      BY <3>1, <3>2, <3>3 DEF HasClause
    <3>4. CASE u # v
      <4>1. clauses'["ESBP"][u] = clauses["ESBP"][u]
        BY <3>1, <3>2, <3>4
      <4>2. ~HasClause(clauses, "ESBP", u)
        BY <1>3, <3>4 DEF ReducersAreSeen
      <4> QED
        BY <4>1, <4>2 DEF HasClause
    <3> QED
      BY <3>3, <3>4
  <2> QED
    BY <2>1, <2>2, <2>3, <2>4 DEF ReducersAreSeen
<1>5. CASE NoSymmetryClause
  <2>1. /\ phase' = "watches" /\ UNCHANGED <<asg, notified, clauses>>
        /\ ~HasClause(clauses, "ESBP", v)
    BY <1>5 DEF NoSymmetryClause, controllerVars, Goto, v
  <2>2. NoReducerOn(asg) /\ \A u \in Variables : ~HasClause(clauses, "ESBP", u)
    BY <1>1, <1>3, <2>1 DEF ReducersAreSeen
  <2> QED
    BY <2>1, <2>2 DEF ReducersAreSeen
<1> QED
  BY <1>4, <1>5

LEMMA ConflictSeesReducers ==
    ASSUME GlucoseIInv, ReducersAreSeen,
           \E binary \in BOOLEAN : ClauseConflict(binary)
    PROVE  ReducersAreSeen'
<1>1. /\ phase = "watches" /\ phase' = "conflict" /\ UNCHANGED <<asg, notified, clauses>>
  BY DEF ClauseConflict, controllerVars, Goto
<1>2. ok /\ notified # << >>
  BY <1>1 DEF GlucoseIInv, QueueMatches
<1>3. NoReducerOn(BeforeLast) /\ BeforeLast' = BeforeLast
  BY <1>1, <1>2, NoneBeforeLast DEF ReducersAreSeen, BeforeLast
<1> QED
  BY <1>1, <1>3 DEF ReducersAreSeen

LEMMA CancelUntilSeesReducers ==
    ASSUME GlucoseIInv, ReducersAreSeen,
           \/ \E level \in 0 .. Level - 1, l \in CurrentLevel : Analyze(level, l)
           \/ \E next \in {"propagate", "idle"} : Restart(next)
    PROVE  ReducersAreSeen'
<1>1. ASSUME NEW level \in 0 .. Level - 1, NEW l, Analyze(level, l)
      PROVE  ReducersAreSeen'
  <2>1. /\ phase = "conflict" /\ phase' = "cancel" /\ after'.level = level
        /\ UNCHANGED <<asg, notified, clauses, trailLim, root>>
    BY <1>1 DEF Analyze, CancelUntil, controllerVars
  <2>2. notified # << >>
    BY <2>1 DEF GlucoseIInv, QueueMatches
  <2>3. trailLim[level + 1] < Told
    <3>1. level + 1 \in 1 .. Level
      BY StateFacts
    <3> QED
      BY <2>1, <3>1 DEF GlucoseIInv, LevelsMatch
  <2>4. Told' = Told /\ BeforeLast' = BeforeLast
    BY <2>1 DEF Told, BeforeLast
  <2> QED
    BY <2>1, <2>2, <2>3, <2>4 DEF ReducersAreSeen
<1>2. ASSUME NEW next \in {"propagate", "idle"}, Restart(next) PROVE ReducersAreSeen'
  <2>1. /\ phase = "propagate" /\ UNCHANGED <<asg, notified, clauses, ok>>
        /\ phase' \in {"propagate", "idle", "cancel"}
    BY <1>2 DEF Restart, PropagateDone, CancelUntil, controllerVars, Goto
  <2>2. ok
    BY <2>1 DEF GlucoseIInv, QueueMatches
  <2> QED
    BY <2>1, <2>2 DEF ReducersAreSeen
<1> QED
  BY <1>1, <1>2

LEMMA CancelSeesReducers ==
    ASSUME GlucoseIInv, ReducersAreSeen, CancelLiteral \/ CancelDone
    PROVE  ReducersAreSeen'
<1>1. CASE CancelLiteral
  <2> DEFINE l == Last(trail)
  <2>1. /\ phase = "cancel" /\ phase' = "cancel" /\ UpdateCancel(l)
        /\ UNCHANGED <<root, trailLim, after>>
    BY <1>1 DEF CancelLiteral
  <2>2. l \in Literal
    <3>1. trail # << >>
      <4>1. Len(trail) # 0
        BY <1>1, CancelFacts, StateFacts DEF CancelLiteral
      <4> QED
        BY <4>1, EmptySeq
    <3> QED
      BY <3>1, StateFacts, PopFacts
  <2>3. \A v \in Variables : ~HasClause(clauses', "ESBP", v)
    BY <2>1, <2>2, NoNewClauses DEF GlucoseIInv, ReducersAreSeen
  <2>4. asg' = UnassignLiteral(asg, l)
    BY <2>1 DEF UpdateCancel
  <2>5. CASE LiteralIsAssigned(asg, l)
    <3>1. notified # << >> /\ Last(notified) = l
      BY <1>1, <2>5, CancelledFacts
    <3>2. BeforeLast = asg'
      BY <2>4, <3>1, StateFacts, BeforeLastFacts DEF BeforeLast
    <3>3. NoReducerOn(asg')
      BY <2>1, <3>1, <3>2, NoneBeforeLast DEF ReducersAreSeen
    <3> QED
      BY <2>1, <2>3, <3>3 DEF ReducersAreSeen
  <2>6. CASE ~LiteralIsAssigned(asg, l)
    <3>1. notified' = notified
      BY <1>1, <2>6, CancelledFacts
    <3>2. asg' = asg
      BY <2>4, <2>6 DEF UnassignLiteral, LiteralIsAssigned, LiteralIsTrue, LiteralIsFalse
    <3> QED
      BY <2>1, <2>3, <3>1, <3>2 DEF ReducersAreSeen, BeforeLast, Told
  <2> QED
    BY <2>5, <2>6
<1>2. CASE CancelDone
  <2>1. /\ phase = "cancel" /\ phase' = after.phase
        /\ Len(trail) = trailLim[after.level + 1]
        /\ UNCHANGED <<asg, notified, clauses>>
    BY <1>2 DEF CancelDone, controllerVars, Goto
  <2>2. ~(trailLim[after.level + 1] < Told)
    BY <2>1, CancelFacts, StateFacts
  <2>3. NoReducerOn(asg)
    BY <2>1, <2>2 DEF ReducersAreSeen
  <2>4. after.phase \in {"propagate", "idle"}
    BY <2>1 DEF GlucoseIInv, CancelMatchesLevels
  <2> QED
    BY <2>1, <2>3, <2>4 DEF ReducersAreSeen
<1> QED
  BY <1>1, <1>2

LEMMA StutterSeesReducers ==
    ASSUME ReducersAreSeen, UNCHANGED glucoseVars PROVE ReducersAreSeen'
  BY DEF ReducersAreSeen, glucoseVars, controllerVars, solverVars, BeforeLast, Told,
         HasClause

LEMMA ReducersAreSeenCorrect == GlucoseSpec => []ReducersAreSeen
<1>1. ASSUME GlucoseIInv, ReducersAreSeen, [GlucoseNext]_glucoseVars
      PROVE  ReducersAreSeen'
  BY <1>1, IdleSeesReducers, DequeueSeesReducers, NotifiedSeesReducers,
     ConflictSeesReducers, CancelUntilSeesReducers, CancelSeesReducers,
     StutterSeesReducers
     DEF GlucoseNext, Finished, glucoseVars
<1> QED
  BY <1>1, InitSeesReducers, GlucoseIInvCorrect, PTL DEF GlucoseSpec

LEMMA SeenImpliesNoneMissed ==
    ASSUME GlucoseIInv, ReducersAreSeen PROVE NoMissedReducer
<1> SUFFICES ASSUME phase \in {"propagate", "watches"}, NEW p \in Statuses
             PROVE  StateAt(asg, LookupOf(p), Inverses[p],
                        Advance(asg, LookupOf(p), Inverses[p], lookupIndex[p]))
                    # Reducer
  BY DEF NoMissedReducer
<1> DEFINE c == Advance(asg, LookupOf(p), Inverses[p], lookupIndex[p])
<1>1. ok
  BY DEF GlucoseIInv, QueueMatches
<1>2. ~IsReducer(asg, LookupOf(p), Inverses[p])
  BY <1>1 DEF ReducersAreSeen, NoReducerOn
<1>3. StopsAt(asg, LookupOf(p), Inverses[p], c)
  <2>1. /\ LookupOf(p) \in Seq(Variables) /\ lookupIndex[p] \in 1 .. Len(LookupOf(p)) + 1
        /\ PrefixEqual(asg, LookupOf(p), Inverses[p], lookupIndex[p])
    BY StatusFacts, CursorFacts DEF GlucoseIInv
  <2> QED
    BY <2>1, AdvanceStops
<1>4. c \in 1 .. Len(LookupOf(p)) + 1
  BY <1>3 DEF StopsAt
<1> QED
  BY <1>2, <1>3, <1>4 DEF IsReducer

\* The search never goes on from an assignment that some status, when told of
\* it, would find to have no lex leader above it: a reducer may keep the other
\* statuses from hearing of a literal because the literal is cancelled before
\* the search goes on, and a new manager over old assignments misses nothing.
THEOREM NoReducerIsMissed == GlucoseSpec => []NoMissedReducer
  BY SeenImpliesNoneMissed, ReducersAreSeenCorrect, GlucoseIInvCorrect, PTL

\* When every literal of the trail was told, the assignment is the model.
LEMMA ModelIsAssignment ==
    ASSUME GlucoseIInv, ModelFound, root = << >>
    PROVE  /\ {trail[i] : i \in DOMAIN trail} = asg
           /\ asg \in TotalAssignments
<1>1. /\ Len(root) = 0 /\ Told = Len(trail)
      /\ \A v \in Variables : ~Unassigned(v)
  BY EmptySeq DEF ModelFound, PropagateDone, GlucoseIInv, QueueMatches
<1>2. Len(notified) = Len(trail)
  BY <1>1, StateFacts
<1>3. DOMAIN trail = 1 .. Len(trail) /\ DOMAIN notified = 1 .. Len(trail)
  BY <1>2, StateFacts, TrailFacts, HistoryFacts
<1>4. \A i \in 1 .. Len(trail) : notified[i] = trail[i]
  BY <1>1, <1>2 DEF GlucoseIInv, TrailMatches
<1>5. /\ asg \subseteq Literal /\ Consistent(asg)
      /\ \A l \in Literal : l \in asg <=> \E i \in 1 .. Len(trail) : trail[i] = l
  BY <1>3, <1>4, StateFacts DEF IsHistory
<1>6. {trail[i] : i \in DOMAIN trail} = asg
  BY <1>3, <1>5, StateFacts
<1>7. ASSUME NEW v \in Variables PROVE LiteralIsAssigned(asg, v)
  BY <1>1, <1>3, <1>5, VariablesAreLiterals, LiteralFacts
     DEF Unassigned, Value, LiteralIsAssigned, LiteralIsTrue, LiteralIsFalse
<1> QED
  BY <1>5, <1>6, <1>7, EveryVariableAssigned

\* When every permutation is an involution, no model the solver reports is
\* larger than one of its images: the clauses it was given and the order in
\* which the statuses were told never let one through.
THEOREM ModelsAreMinimal ==
    ASSUME \A p \in Statuses : IsInvolution(Inverses[p])
    PROVE  GlucoseSpec => []ModelIsMinimal
<1>1. ASSUME GlucoseIInv, ReducersAreSeen PROVE ModelIsMinimal
  <2> DEFINE model == {trail[i] : i \in DOMAIN trail}
  <2>1. SUFFICES ASSUME ModelFound, root = << >>, NEW p \in Statuses
                 PROVE  ~LexLess(Image(Inverses[p], model), model)
    BY DEF ModelIsMinimal
  <2>2. model = asg /\ asg \in TotalAssignments
    BY <1>1, <2>1, ModelIsAssignment
  <2>3. ok /\ phase = "propagate"
    BY <1>1, <2>1 DEF ModelFound, PropagateDone, GlucoseIInv, QueueMatches
  <2>4. ~IsReducer(asg, LookupOf(p), Inverses[p])
    BY <1>1, <2>3 DEF ReducersAreSeen, NoReducerOn
  <2> HIDE DEF model
  <2>5. ~LexLess(Image(Inverses[p], asg), asg)
    BY <2>2, <2>4, InversesFacts, LookupOfIsLookup, NoReducerIsMinimal
  <2> QED
    BY <2>2, <2>5
<1>2. GlucoseIInv /\ ReducersAreSeen => ModelIsMinimal
  BY <1>1
<1> QED
  BY <1>2, ReducersAreSeenCorrect, GlucoseIInvCorrect, PTL

\* The clauses that Glucose is given leave a lex leader of every orbit, when
\* every permutation is an involution.
THEOREM SearchKeepsLeaders ==
    ASSUME \A p \in Statuses : IsInvolution(Inverses[p])
    PROVE  GlucoseSpec => []PendingKeepsLeaders
  BY GlucoseKeepsProtocol, ClausesKeepLeaders, PTL

-----------------------------------------------------------------------------
\* The unit clauses that wait in the injector.
WaitingUnits == clauses["UNITS"][NoVariable]

\* Literal l of a unit clause is below every decision, unless the controller was
\* made when its negation was assigned.
IsSettled(l) ==
    \/ \E i \in 1 .. Len(root) : root[i] = Negated(l)
    \/ \E i \in 1 .. Len(trail) :
          /\ trail[i] = l
          /\ \A k \in 1 .. Level : i <= trailLim[k]

\* Literal l of a unit clause has yet to be enqueued.
IsWaiting(l) ==
    /\ phase = "units"
    /\ \E i \in DOMAIN WaitingUnits : WaitingUnits[i] = {l}
    /\ \A i \in 1 .. Len(trail) : trail[i] # Negated(l)

\* The unit clauses are taken before the search begins, and what they say
\* outlives every cancellation.
UnitsAreSettled ==
    /\ ~Enabled => Len(trail) = Len(root)
    /\ \A i \in DOMAIN WaitingUnits : \E j \in DOMAIN Units : WaitingUnits[i] = Units[j]
    /\ Enabled =>
          \A l \in Literal : (\E j \in DOMAIN Units : Units[j] = {l}) =>
              IsSettled(l) \/ IsWaiting(l)

\* Every unit clause is one literal with the smaller value, so that no two of
\* them contradict each other.
LEMMA UnitLiterals ==
    \A i \in DOMAIN Units :
        \E v \in Variables : Units[i] = {LiteralOf(v, ValueMode = "TRUE_LESS_FALSE")}
<1> SUFFICES ASSUME NEW i \in DOMAIN Units
             PROVE  \E v \in Variables :
                        Units[i] = {LiteralOf(v, ValueMode = "TRUE_LESS_FALSE")}
  OBVIOUS
<1>1. PICK p \in Statuses : \E j \in DOMAIN UnitClauses(LookupOf(p), Inverses[p], 1) :
                               Units[i] = UnitClauses(LookupOf(p), Inverses[p], 1)[j]
  BY UnitsFacts
<1>2. IsLiteralMap(Inverses[p]) /\ IsLookup(LookupOf(p), Inverses[p])
  BY InversesFacts, LookupOfIsLookup
<1> QED
  BY <1>1, <1>2, UnitClauseFacts

LEMMA UnitsAgree ==
    ASSUME NEW i \in DOMAIN Units, NEW j \in DOMAIN Units,
           NEW l \in Literal, NEW m \in Literal, Units[i] = {l}, Units[j] = {m}
    PROVE  m # Negated(l)
<1>1. PICK v \in Variables : l = LiteralOf(v, ValueMode = "TRUE_LESS_FALSE")
  BY UnitLiterals
<1>2. PICK w \in Variables : m = LiteralOf(w, ValueMode = "TRUE_LESS_FALSE")
  BY UnitLiterals
<1> QED
  BY <1>1, <1>2 DEF LiteralOf, Negated, Variables

\* No call about a variable touches the unit clauses.
LEMMA WaitingStays ==
    ASSUME ControllerIInv,
           \/ \E l \in Literal : UpdateNotify(l) \/ UpdateCancel(l)
           \/ \E v \in Variables : ClauseToInject("ESBP", v)
           \/ UNCHANGED controllerVars
    PROVE  WaitingUnits' = WaitingUnits /\ enables' = enables
<1>1. /\ InjectorTypeOK(clauses)
      /\ "UNITS" \in ClauseType /\ "ESBP" \in ClauseType /\ "ESBP_FORCING" \in ClauseType
      /\ "UNITS" # "ESBP" /\ "UNITS" # "ESBP_FORCING"
      /\ NoVariable \in Cause /\ Variables \subseteq Cause /\ NoVariable \notin Variables
  BY TypeParts, CauseFacts DEF ControllerIInv, ClauseType
<1>2. ASSUME NEW store, InjectorTypeOK(store), NEW type \in ClauseType, NEW v \in Variables,
             NEW clause
      PROVE  AddClause(store, type, v, clause)["UNITS"][NoVariable]
               = store["UNITS"][NoVariable]
  <2>1. store \in [ClauseType -> [Cause -> Seq(Clause)]]
    BY <1>2 DEF InjectorTypeOK
  <2> QED
    BY <1>1, <2>1 DEF AddClause
<1>3. ASSUME NEW l \in Literal, Assign(l), NEW told \in SUBSET Watch(Variable(l)),
             NEW store \in AfterForcing(told, Variable(l))
      PROVE  /\ store["UNITS"][NoVariable] = WaitingUnits
             /\ InjectorTypeOK(store)
  <2>1. store = clauses \/ \E clause : store = AddClause(clauses, "ESBP_FORCING", Variable(l),
                                                         clause)
    BY <1>3 DEF AfterForcing
  <2>2. Variable(l) \in Variables
    BY LiteralFacts
  <2>3. InjectorTypeOK(store)
    BY <1>3, AfterForcingMatches
  <2> QED
    BY <1>1, <1>2, <2>1, <2>2, <2>3 DEF WaitingUnits
<1>4. ASSUME NEW l \in Literal, UpdateNotify(l)
      PROVE  WaitingUnits' = WaitingUnits /\ enables' = enables
  <2>1. CASE NotifyDisabled(l)
    BY <2>1 DEF NotifyDisabled, Assign, WaitingUnits
  <2>2. CASE NotifyAll(l)
    <3>1. Assign(l) /\ clauses' \in AfterForcing(Watch(Variable(l)), Variable(l))
      BY <2>2 DEF NotifyAll
    <3> QED
      BY <1>3, <3>1 DEF Assign, WaitingUnits
  <2>3. ASSUME NEW r \in Watch(Variable(l)), NotifyReducer(l, r)
        PROVE  WaitingUnits' = WaitingUnits /\ enables' = enables
    <3>1. Assign(l)
      BY <2>3 DEF NotifyReducer
    <3>2. PICK told \in SUBSET Watch(Variable(l)) :
              \E store \in AfterForcing(told, Variable(l)) :
                  \E clause : clauses' = AddClause(store, "ESBP", Variable(l), clause)
      BY <2>3 DEF NotifyReducer
    <3>3. PICK store \in AfterForcing(told, Variable(l)) :
              \E clause : clauses' = AddClause(store, "ESBP", Variable(l), clause)
      BY <3>2
    <3>4. Variable(l) \in Variables
      BY LiteralFacts
    <3> QED
      BY <1>1, <1>2, <1>3, <3>1, <3>3, <3>4 DEF Assign, WaitingUnits
  <2> QED
    BY <1>4, <2>1, <2>2, <2>3 DEF UpdateNotify
<1>5. ASSUME NEW l \in Literal, UpdateCancel(l)
      PROVE  WaitingUnits' = WaitingUnits /\ enables' = enables
  <2>1. Variable(l) \in Variables /\ clauses' = RemoveClauses(clauses, Variable(l))
        /\ enables' = enables
    BY <1>5, LiteralFacts DEF UpdateCancel
  <2> QED
    BY <1>1, <2>1, RemoveClausesFacts DEF WaitingUnits
<1>6. ASSUME NEW v \in Variables, ClauseToInject("ESBP", v)
      PROVE  WaitingUnits' = WaitingUnits /\ enables' = enables
  <2>1. /\ HasClause(clauses, "ESBP", v) /\ clauses' = WithoutTaken(clauses, "ESBP", v)
        /\ enables' = enables /\ v \in Cause
    BY <1>1, <1>6 DEF ClauseToInject
  <2>2. clauses'["UNITS"][NoVariable] = clauses["UNITS"][NoVariable]
    BY <1>1, <2>1, WithoutTakenFacts
  <2> QED
    BY <2>1, <2>2 DEF WaitingUnits
<1>7. CASE UNCHANGED controllerVars
  BY <1>7 DEF controllerVars, WaitingUnits
<1> QED
  BY <1>4, <1>5, <1>6, <1>7

\* The literals below every decision stay there.
SettledStays ==
    /\ root' = root
    /\ \A i \in 1 .. Len(trail) :
          (\A k \in 1 .. Level : i <= trailLim[k]) =>
              /\ i \in 1 .. Len(trail') /\ trail'[i] = trail[i]
              /\ \A k \in 1 .. Level' : i <= trailLim'[k]

LEMMA SettledLiteralStays ==
    ASSUME SettledStays, NEW l, IsSettled(l) PROVE IsSettled(l)'
<1>1. CASE \E i \in 1 .. Len(root) : root[i] = Negated(l)
  BY <1>1 DEF SettledStays, IsSettled
<1>2. ASSUME NEW i \in 1 .. Len(trail), trail[i] = l, \A k \in 1 .. Level : i <= trailLim[k]
      PROVE  IsSettled(l)'
  BY <1>2 DEF SettledStays, IsSettled
<1> QED
  BY <1>1, <1>2 DEF IsSettled

\* Steps of the search, which begins when no unit clause waits.
LEMMA SearchKeepsSettled ==
    ASSUME GlucoseIInv, UnitsAreSettled, phase \notin {"idle", "units"},
           SettledStays, WaitingUnits' = WaitingUnits, enables' = enables
    PROVE  UnitsAreSettled'
<1>1. Enabled /\ Enabled'
  BY DEF GlucoseIInv, QueueMatches, Enabled
<1>2. ASSUME NEW l \in Literal, \E j \in DOMAIN Units : Units[j] = {l}
      PROVE  IsSettled(l)'
  BY <1>1, <1>2, SettledLiteralStays DEF UnitsAreSettled, IsWaiting
<1> QED
  BY <1>1, <1>2 DEF UnitsAreSettled

LEMMA SameTrailStays == ASSUME GlucoseIInv, SameTrail PROVE SettledStays
  BY SameTrailFacts DEF SameTrail, SettledStays

LEMMA InitSettlesUnits == GlucoseInit => UnitsAreSettled
<1> SUFFICES ASSUME GlucoseInit PROVE UnitsAreSettled
  OBVIOUS
<1>1. enables = 0 /\ trail = root /\ clauses = NoClauses
  BY DEF GlucoseInit, ControllerInit
<1>2. WaitingUnits = << >>
  BY <1>1, CauseFacts DEF WaitingUnits, NoClauses, ClauseType
<1> QED
  BY <1>1, <1>2 DEF UnitsAreSettled, Enabled

\* A new manager puts all of its unit clauses in the injector.
LEMMA SolveStartSettlesUnits ==
    ASSUME GlucoseIInv, UnitsAreSettled, SolveStart PROVE UnitsAreSettled'
<1>1. /\ phase = "idle" /\ phase' = "units" /\ enables' = enables + 1
      /\ clauses' = AddUnits(clauses, Units)
      /\ SameTrail
  BY DEF SolveStart, EnableCosy, Goto, SameTrail
<1>2. WaitingUnits' = WaitingUnits \o Units
  <2>1. InjectorTypeOK(clauses) /\ "UNITS" \in ClauseType /\ NoVariable \in Cause
    BY TypeParts, CauseFacts DEF GlucoseIInv, ControllerIInv, ClauseType
  <2> QED
    BY <1>1, <2>1, AddUnitsFacts DEF WaitingUnits
<1>3. /\ WaitingUnits \in Seq(Clause) /\ Units \in Seq(Clause)
      /\ Len(WaitingUnits) \in Nat /\ Len(Units) \in Nat
      /\ DOMAIN WaitingUnits = 1 .. Len(WaitingUnits) /\ DOMAIN Units = 1 .. Len(Units)
  <2>1. WaitingUnits \in Seq(Clause)
    BY CauseFacts DEF GlucoseIInv, GlucoseTypeOK, ControllerTypeOK, ClauseType, WaitingUnits
  <2> QED
    BY <2>1, UnitsFacts, SeqFacts
<1> DEFINE n == Len(WaitingUnits)
           both == WaitingUnits \o Units
<1>4. /\ DOMAIN both = 1 .. n + Len(Units)
      /\ \A i \in 1 .. n + Len(Units) :
            both[i] = IF i <= n THEN WaitingUnits[i] ELSE Units[i - n]
  BY <1>3, ConcatProperties, SeqFacts
<1> HIDE DEF n, both
<1>5. ASSUME NEW i \in DOMAIN both PROVE \E j \in DOMAIN Units : both[i] = Units[j]
  <2>1. CASE i <= n
    <3>1. i \in DOMAIN WaitingUnits
      BY <1>3, <1>4, <2>1 DEF n
    <3> QED
      BY <1>4, <2>1, <3>1 DEF UnitsAreSettled
  <2>2. CASE ~(i <= n)
    <3>1. i - n \in DOMAIN Units
      BY <1>3, <1>4, <2>2 DEF n
    <3> QED
      BY <1>4, <2>2, <3>1
  <2> QED
    BY <2>1, <2>2
<1>6. ASSUME NEW j \in DOMAIN Units PROVE \E i \in DOMAIN both : both[i] = Units[j]
  <2>1. n + j \in 1 .. n + Len(Units) /\ ~(n + j <= n) /\ (n + j) - n = j
    BY <1>3 DEF n
  <2>2. PICK k \in 1 .. n + Len(Units) : ~(k <= n) /\ k - n = j
    BY <2>1
  <2>3. both[k] = Units[k - n]
    BY <1>4, <2>2
  <2> QED
    BY <1>4, <2>2, <2>3
<1>7. ASSUME NEW l \in Literal, NEW j \in DOMAIN Units, Units[j] = {l}
      PROVE  IsSettled(l)' \/ IsWaiting(l)'
  <2>1. CASE IsSettled(l)
    BY <1>1, <2>1, SameTrailStays, SettledLiteralStays
  <2>2. CASE \A i \in 1 .. Len(trail) : trail[i] # Negated(l)
    <3>1. \E i \in DOMAIN WaitingUnits' : WaitingUnits'[i] = {l}
      BY <1>2, <1>6, <1>7 DEF both
    <3>2. trail' = trail
      BY <1>1 DEF SameTrail
    <3> QED
      BY <1>1, <2>2, <3>1, <3>2 DEF IsWaiting
  <2>3. CASE ~IsSettled(l) /\ \E i \in 1 .. Len(trail) : trail[i] = Negated(l)
    <3>1. CASE Enabled
      BY <1>1, <1>7, <2>3, <3>1 DEF UnitsAreSettled, IsWaiting
    <3>2. CASE ~Enabled
      <4>1. Len(trail) = Len(root) /\ \A i \in 1 .. Len(root) : trail[i] = root[i]
        BY <3>2 DEF UnitsAreSettled, GlucoseIInv, TrailMatches
      <4> QED
        BY <2>3, <4>1 DEF IsSettled
    <3> QED
      BY <3>1, <3>2
  <2> QED
    BY <2>1, <2>2, <2>3
<1>8. Enabled'
  BY <1>1 DEF GlucoseIInv, GlucoseTypeOK, ControllerTypeOK, Enabled
<1> QED
  BY <1>2, <1>5, <1>7, <1>8 DEF UnitsAreSettled, both

\* The unit clause that is taken is settled: its literal is pushed at level 0,
\* or was on the trail.
LEMMA DrainUnitSettlesUnits ==
    ASSUME GlucoseIInv, UnitsAreSettled, DrainUnit PROVE UnitsAreSettled'
<1>1. /\ phase = "units" /\ phase' = "units"
      /\ HasClause(clauses, "UNITS", NoVariable)
      /\ clauses' = WithoutTaken(clauses, "UNITS", NoVariable)
      /\ \E m \in Last(WaitingUnits) : trail' = IF Unassigned(m) THEN Append(trail, m) ELSE trail
      /\ UNCHANGED <<root, trailLim, notified, enables>>
  BY DEF DrainUnit, ClauseToInject, TakenClause, WaitingUnits
<1>2. Enabled /\ Enabled' /\ Level = 0 /\ Level' = 0
  BY <1>1 DEF GlucoseIInv, QueueMatches, Enabled, Level
<1>3. /\ WaitingUnits \in Seq(Clause) /\ WaitingUnits # << >>
      /\ WaitingUnits' = Front(WaitingUnits)
  <2>1. InjectorTypeOK(clauses) /\ "UNITS" \in ClauseType /\ NoVariable \in Cause
    BY TypeParts, CauseFacts DEF GlucoseIInv, ControllerIInv, ClauseType
  <2>2. clauses'["UNITS"][NoVariable] = Front(clauses["UNITS"][NoVariable])
    BY <1>1, <2>1, WithoutTakenFacts
  <2> QED
    BY <1>1, <2>1, <2>2 DEF WaitingUnits, HasClause, InjectorTypeOK
<1> DEFINE n == Len(WaitingUnits)
<1>4. /\ n \in Nat \ {0} /\ Last(WaitingUnits) = WaitingUnits[n]
      /\ DOMAIN WaitingUnits = 1 .. n
      /\ DOMAIN WaitingUnits' = 1 .. n - 1
      /\ \A i \in 1 .. n - 1 : WaitingUnits'[i] = WaitingUnits[i]
  BY <1>3, FrontLastProperties, SeqFacts
<1> HIDE DEF n
<1>5. PICK u \in DOMAIN Units : Last(WaitingUnits) = Units[u]
  BY <1>4 DEF UnitsAreSettled
<1>6. PICK m \in Literal : /\ Units[u] = {m}
                           /\ trail' = IF Unassigned(m) THEN Append(trail, m) ELSE trail
  <2>1. PICK v \in Variables : Units[u] = {LiteralOf(v, ValueMode = "TRUE_LESS_FALSE")}
    BY UnitLiterals
  <2>2. LiteralOf(v, ValueMode = "TRUE_LESS_FALSE") \in Literal
    BY DEF LiteralOf, Literal, Variables
  <2> QED
    BY <1>1, <1>5, <2>1, <2>2
<1>7. /\ Len(trail) \in Nat /\ Len(trail') \in Nat
      /\ \A i \in 1 .. Len(trail) : i \in 1 .. Len(trail') /\ trail'[i] = trail[i]
      /\ \A i \in 1 .. Len(trail') : i \in 1 .. Len(trail) \/ trail'[i] = m
      /\ Unassigned(m) => \E i \in 1 .. Len(trail') : trail'[i] = m
  <2>1. CASE Unassigned(m)
    <3>1. /\ Len(trail) \in Nat /\ Len(trail') = Len(trail) + 1
          /\ \A i \in 1 .. Len(trail) : trail'[i] = trail[i]
          /\ trail'[Len(trail) + 1] = m
      <4>1. trail \in Seq(Literal) /\ Len(trail) \in Nat
        BY StateFacts, TrailFacts
      <4>2. trail' = Append(trail, m)
        BY <1>6, <2>1
      <4> QED
        BY <4>1, <4>2, AppendFacts
    <3>2. \A i \in 1 .. Len(trail') : i \in 1 .. Len(trail) \/ i = Len(trail) + 1
      BY <3>1
    <3>3. Len(trail) + 1 \in 1 .. Len(trail') /\ \A i \in 1 .. Len(trail) : i \in 1 .. Len(trail')
      BY <3>1
    <3> QED
      BY <3>1, <3>2, <3>3
  <2>2. CASE ~Unassigned(m)
    BY <1>6, <2>2, StateFacts
  <2> QED
    BY <2>1, <2>2
<1>8. SettledStays
  BY <1>1, <1>2, <1>7 DEF SettledStays
<1>9. ASSUME NEW l \in Literal, NEW j \in DOMAIN Units, Units[j] = {l}
      PROVE  IsSettled(l)' \/ IsWaiting(l)'
  <2>1. CASE IsSettled(l)
    BY <1>8, <2>1, SettledLiteralStays
  <2>2. CASE IsWaiting(l) /\ l = m
    <3>1. \A i \in 1 .. Len(trail) : trail[i] # Negated(l)
      BY <2>2 DEF IsWaiting
    <3>2. \E i \in 1 .. Len(trail') : trail'[i] = l
      <4>1. CASE Unassigned(l)
        BY <1>7, <2>2, <4>1
      <4>2. CASE ~Unassigned(l)
        <5>1. \E i \in 1 .. Len(trail) : trail[i] = l
          BY <3>1, <4>2, StateFacts, TrailFacts DEF Unassigned, Value
        <5> QED
          BY <1>7, <5>1
      <4> QED
        BY <4>1, <4>2
    <3> QED
      BY <1>2, <3>2 DEF IsSettled
  <2>3. CASE IsWaiting(l) /\ l # m
    <3>1. PICK i \in DOMAIN WaitingUnits : WaitingUnits[i] = {l}
      BY <2>3 DEF IsWaiting
    <3>2. i # n
      BY <1>4, <1>5, <1>6, <2>3, <3>1
    <3>3. i \in 1 .. n - 1
      BY <1>4, <3>2
    <3>4. \E k \in DOMAIN WaitingUnits' : WaitingUnits'[k] = {l}
      BY <1>4, <3>1, <3>3
    <3>5. m # Negated(l)
      BY <1>6, <1>9, UnitsAgree
    <3>6. \A k \in 1 .. Len(trail') : trail'[k] # Negated(l)
      BY <1>7, <2>3, <3>5 DEF IsWaiting
    <3> QED
      BY <1>1, <3>4, <3>6 DEF IsWaiting
  <2> QED
    BY <1>2, <1>9, <2>1, <2>2, <2>3 DEF UnitsAreSettled
<1>10. \A i \in DOMAIN WaitingUnits' : \E j \in DOMAIN Units : WaitingUnits'[i] = Units[j]
  <2>1. \A i \in 1 .. n - 1 : i \in 1 .. n
    BY <1>4
  <2> QED
    BY <1>4, <2>1 DEF UnitsAreSettled
<1> QED
  BY <1>2, <1>9, <1>10 DEF UnitsAreSettled

LEMMA SearchStartSettlesUnits ==
    ASSUME GlucoseIInv, UnitsAreSettled, SearchStart PROVE UnitsAreSettled'
<1>1. /\ phase = "units" /\ SameTrail
      /\ WaitingUnits = << >> /\ WaitingUnits' = WaitingUnits /\ enables' = enables
  BY DEF SearchStart, controllerVars, SameTrail, HasClause, WaitingUnits
<1>2. Enabled /\ Enabled'
  BY <1>1 DEF GlucoseIInv, QueueMatches, Enabled
<1>3. ASSUME NEW l \in Literal, \E j \in DOMAIN Units : Units[j] = {l} PROVE IsSettled(l)'
  <2>1. ~IsWaiting(l)
    BY <1>1 DEF IsWaiting
  <2> QED
    BY <1>1, <1>2, <1>3, <2>1, SameTrailStays, SettledLiteralStays DEF UnitsAreSettled
<1> QED
  BY <1>1, <1>2, <1>3 DEF UnitsAreSettled

\* The steps of propagate and of search that leave the trail as it is.
LEMMA SameTrailSettlesUnits ==
    ASSUME GlucoseIInv, UnitsAreSettled,
           \/ LearnSymmetryClause \/ NoSymmetryClause \/ WatchesDone \/ RootConflict
           \/ \E binary \in BOOLEAN : ClauseConflict(binary)
           \/ \E level \in 0 .. Level - 1, l \in CurrentLevel : Analyze(level, l)
           \/ \E next \in {"propagate", "idle"} : Restart(next)
    PROVE  UnitsAreSettled'
<1>1. CASE LearnSymmetryClause
  <2>1. phase = "notified" /\ root' = root /\ trail' = trail /\ trailLim' = trailLim
    BY <1>1 DEF LearnSymmetryClause
  <2>2. Variable(trail[qhead]) \in Variables
    BY <2>1, LastIsDequeued, LiteralFacts
  <2>3. ClauseToInject("ESBP", Variable(trail[qhead]))
    BY <1>1 DEF LearnSymmetryClause
  <2>4. SameTrail
    BY <2>1, <2>3 DEF ClauseToInject, SameTrail
  <2> QED
    BY <2>1, <2>2, <2>3, <2>4, WaitingStays, SameTrailStays, SearchKeepsSettled DEF GlucoseIInv
<1>2. CASE ~LearnSymmetryClause
  <2>1. /\ UNCHANGED <<root, trail, trailLim, controllerVars>>
        /\ phase \in {"propagate", "notified", "watches", "conflict"}
    BY <1>2 DEF NoSymmetryClause, WatchesDone, RootConflict, ClauseConflict, Analyze,
                Restart, CancelUntil, PropagateDone
  <2>2. SameTrail
    BY <2>1 DEF SameTrail, controllerVars
  <2> QED
    BY <2>1, <2>2, WaitingStays, SameTrailStays, SearchKeepsSettled DEF GlucoseIInv
<1> QED
  BY <1>1, <1>2

LEMMA DequeueSettlesUnits ==
    ASSUME GlucoseIInv, UnitsAreSettled, Dequeue PROVE UnitsAreSettled'
<1>1. /\ phase = "propagate" /\ UpdateNotify(trail[qhead + 1]) /\ qhead < Len(trail)
      /\ UNCHANGED <<root, trail, trailLim>>
  BY DEF Dequeue
<1>2. trail[qhead + 1] \in Literal
  <2>1. qhead + 1 \in 1 .. Len(trail)
    BY <1>1, StateFacts
  <2> QED
    BY <2>1, StateFacts
<1>3. SettledStays
  BY <1>1 DEF SettledStays, Level
<1> QED
  BY <1>1, <1>2, <1>3, WaitingStays, SearchKeepsSettled DEF GlucoseIInv

LEMMA PushSettlesUnits ==
    ASSUME GlucoseIInv, UnitsAreSettled, NEW l \in Literal, Imply(l) \/ Decide(l)
    PROVE  UnitsAreSettled'
<1>1. /\ phase \in {"watches", "propagate"} /\ Unassigned(l) /\ trail' = Append(trail, l)
      /\ UNCHANGED <<root, notified, controllerVars>>
      /\ trailLim' = trailLim \/ trailLim' = Append(trailLim, Len(trail))
  BY DEF Imply, Decide, PropagateDone, controllerVars
<1>2. /\ Len(trail') = Len(trail) + 1 /\ Len(trail) \in Nat
      /\ \A i \in 1 .. Len(trail) : trail'[i] = trail[i]
  BY <1>1, PushKeepsTrail, StateFacts
<1>3. \A i \in 1 .. Len(trail) : i \in 1 .. Len(trail')
  BY <1>2
<1>4. ASSUME NEW i \in 1 .. Len(trail), \A k \in 1 .. Level : i <= trailLim[k]
      PROVE  \A k \in 1 .. Level' : i <= trailLim'[k]
  <2>1. CASE trailLim' = trailLim
    BY <1>4, <2>1 DEF Level
  <2>2. CASE trailLim' = Append(trailLim, Len(trail))
    <3>1. /\ Level' = Level + 1 /\ Level \in Nat
          /\ \A k \in 1 .. Level : trailLim'[k] = trailLim[k]
          /\ trailLim'[Level + 1] = Len(trail)
      BY <1>2, <2>2, StateFacts, AppendProperties DEF Level, GlucoseIInv, GlucoseTypeOK
    <3>2. \A k \in 1 .. Level' : k \in 1 .. Level \/ k = Level + 1
      BY <3>1
    <3>3. i <= Len(trail)
      BY <1>2
    <3> QED
      BY <1>4, <3>1, <3>2, <3>3
  <2> QED
    BY <1>1, <2>1, <2>2
<1>5. SettledStays
  BY <1>1, <1>2, <1>3, <1>4 DEF SettledStays
<1> QED
  BY <1>1, <1>5, WaitingStays, SearchKeepsSettled DEF GlucoseIInv

\* What is below every decision is below the level that the search goes back to.
LEMMA CancelSettlesUnits ==
    ASSUME GlucoseIInv, UnitsAreSettled, CancelLiteral \/ CancelDone
    PROVE  UnitsAreSettled'
<1> DEFINE T == trailLim[after.level + 1]
<1>1. phase = "cancel" /\ root' = root
  BY DEF CancelLiteral, CancelDone
<1>2. /\ T \in Nat /\ T <= Len(trail) /\ Len(trail) \in Nat
      /\ after.level \in Nat /\ after.level + 1 \in 1 .. Level /\ Level \in Nat
  BY <1>1, CancelFacts, StateFacts
<1>3. \A i \in 1 .. Len(trail) : (\A k \in 1 .. Level : i <= trailLim[k]) => i \in 1 .. T
  BY <1>2
<1> HIDE DEF T
<1>4. CASE CancelLiteral
  <2>1. /\ Len(trail) > T /\ trail' = Front(trail) /\ trailLim' = trailLim
        /\ UpdateCancel(Last(trail))
    BY <1>4 DEF CancelLiteral, T
  <2>2. trail # << >>
    <3>1. Len(trail) # 0
      BY <1>2, <2>1
    <3> QED
      BY <3>1, EmptySeq
  <2>3. /\ Last(trail) \in Literal /\ Len(trail') = Len(trail) - 1
        /\ \A i \in 1 .. Len(trail) - 1 : trail'[i] = trail[i]
    BY <2>1, <2>2, StateFacts, PopFacts
  <2>4. \A i \in 1 .. T : i \in 1 .. Len(trail) - 1
    BY <1>2, <2>1
  <2>5. Level' = Level
    BY <2>1 DEF Level
  <2>6. SettledStays
    BY <1>1, <1>3, <2>1, <2>3, <2>4, <2>5 DEF SettledStays
  <2> QED
    BY <1>1, <2>1, <2>3, <2>6, WaitingStays, SearchKeepsSettled DEF GlucoseIInv
<1>5. CASE CancelDone
  <2>1. /\ Len(trail) = T /\ trail' = trail \o after.enqueue /\ UNCHANGED controllerVars
    BY <1>5 DEF CancelDone, T
  <2>2. /\ Len(trail') \in Nat /\ Len(trail) <= Len(trail')
        /\ \A i \in 1 .. Len(trail) : trail'[i] = trail[i]
    BY <1>1, <2>1, EnqueueFacts DEF T
  <2>3. \A i \in 1 .. Len(trail) : i \in 1 .. Len(trail')
    BY <1>2, <2>2
  <2>4. Level' = after.level /\ \A k \in 1 .. after.level : trailLim'[k] = trailLim[k]
    BY <1>5, CancelDoneLevels
  <2>5. \A k \in 1 .. after.level : k \in 1 .. Level
    BY <1>2
  <2>6. SettledStays
    BY <1>1, <2>2, <2>3, <2>4, <2>5 DEF SettledStays
  <2> QED
    BY <1>1, <2>1, <2>6, WaitingStays, SearchKeepsSettled DEF GlucoseIInv
<1> QED
  BY <1>4, <1>5

LEMMA StutterSettlesUnits ==
    ASSUME UnitsAreSettled, UNCHANGED glucoseVars PROVE UnitsAreSettled'
  BY DEF UnitsAreSettled, glucoseVars, controllerVars, solverVars, IsSettled, IsWaiting,
         WaitingUnits, Level, Enabled

LEMMA UnitsAreSettledCorrect == GlucoseSpec => []UnitsAreSettled
<1>1. ASSUME GlucoseIInv, UnitsAreSettled, [GlucoseNext]_glucoseVars
      PROVE  UnitsAreSettled'
  BY <1>1, SolveStartSettlesUnits, DrainUnitSettlesUnits, SearchStartSettlesUnits,
     SameTrailSettlesUnits, DequeueSettlesUnits, PushSettlesUnits, CancelSettlesUnits,
     StutterSettlesUnits
     DEF GlucoseNext, Finished, glucoseVars
<1> QED
  BY <1>1, InitSettlesUnits, GlucoseIInvCorrect, PTL DEF GlucoseSpec

-----------------------------------------------------------------------------
\* Two literals that differ make two.
LEMMA TwoElements ==
    ASSUME NEW clause \in Clause, NEW l \in clause, NEW m \in clause, l # m
    PROVE  Cardinality(clause) >= 2
<1>1. IsFiniteSet(clause)
  <2>1. -NumVars \in Int /\ NumVars \in Int
    OBVIOUS
  <2>2. IsFiniteSet(-NumVars .. NumVars)
    BY <2>1, FS_Interval
  <2>3. clause \in SUBSET (-NumVars .. NumVars)
    BY DEF Clause, Literal
  <2> QED
    BY <2>2, <2>3, FS_Subset
<1>2. IsFiniteSet({l}) /\ Cardinality({l}) = 1
  BY FS_Singleton
<1>3. Cardinality({l} \cup {m}) = 2
  BY <1>2, FS_AddElement
<1>4. {l} \cup {m} \in SUBSET clause
  OBVIOUS
<1>5. 2 <= Cardinality(clause) /\ Cardinality(clause) \in Nat
  BY <1>1, <1>3, <1>4, FS_Subset, FS_CardinalityType
<1> QED
  BY <1>5

\* The ESBP clause that a literal leaves has two literals, when the unit clauses
\* do not have its negation.
LEMMA NotifyMakesBinary ==
    ASSUME ControllerIInv, Enabled, NEW l \in Literal, UpdateNotify(l),
           \A v \in Variables : ~HasClause(clauses, "ESBP", v),
           \A j \in DOMAIN Units : Units[j] # {Negated(l)}
    PROVE  \A v \in Variables : HasClause(clauses', "ESBP", v) =>
               Cardinality(TakenClause(clauses', "ESBP", v)) >= 2
<1> DEFINE w == Variable(l)
<1>1. w \in Variables /\ "ESBP" \in ClauseType /\ Variables \subseteq Cause
  BY LiteralFacts, CauseFacts DEF ClauseType
<1>2. InjectorTypeOK(clauses)
  BY TypeParts DEF ControllerIInv
<1>3. CASE NotifyAll(l)
  BY <1>2, <1>3, ForcingAddsNoEsbp DEF NotifyAll
<1>4. ASSUME NEW r \in Watch(w), NotifyReducer(l, r), NEW v \in Variables,
             HasClause(clauses', "ESBP", v)
      PROVE  Cardinality(TakenClause(clauses', "ESBP", v)) >= 2
  <2> DEFINE clause == EsbpClause(asg', LookupOf(r), Inverses[r], NextIndex(r), w)
  <2>1. /\ Assign(l) /\ r \in Statuses
        /\ StateAt(asg', LookupOf(r), Inverses[r], NextIndex(r)) = Reducer
    BY <1>4 DEF NotifyReducer, NextState, Watch
  <2>2. PICK told \in SUBSET Watch(w) : \E store \in AfterForcing(told, w) :
            clauses' = AddClause(store, "ESBP", w, clause)
    BY <1>4 DEF NotifyReducer
  <2>3. PICK store \in AfterForcing(told, w) : clauses' = AddClause(store, "ESBP", w, clause)
    BY <2>2
  <2>4. /\ InjectorTypeOK(store)
        /\ \A u \in Variables : ~HasClause(store, "ESBP", u)
    BY <1>2, <2>1, AfterForcingMatches, ForcingAddsNoEsbp
  <2>5. /\ asg' \subseteq Literal /\ Consistent(asg') /\ l \in asg'
        /\ IsLiteralMap(Inverses[r]) /\ IsLookup(LookupOf(r), Inverses[r])
        /\ StopsAt(asg', LookupOf(r), Inverses[r], NextIndex(r))
    BY <2>1, AssignedOnTop, ToldStops, StatusFacts DEF IsHistory
  <2>6. clause \in Clause
    BY <2>1, <2>5, EsbpClauseIsFalse DEF Clause
  <2>7. \E a, b \in clause : a # b
    <3>1. \/ \E a, b \in clause : a # b
          \/ \E i \in DOMAIN UnitClauses(LookupOf(r), Inverses[r], 1) :
                UnitClauses(LookupOf(r), Inverses[r], 1)[i] = {Negated(l)}
      BY <2>1, <2>5, EsbpClauseHasTwo
    <3> QED
      BY <2>1, <3>1, UnitsFacts
  <2> HIDE DEF clause
  <2>8. Cardinality(clause) >= 2
    BY <2>6, <2>7, TwoElements
  <2>9. v = w
    BY <1>1, <1>4, <2>3, <2>4, AddClauseLocal
  <2>10. clauses'["ESBP"][w] = << clause >>
    <3>1. \/ clauses'["ESBP"][w] = store["ESBP"][w]
          \/ clauses'["ESBP"][w] = << clause >>
      BY <1>1, <2>3, <2>4, <2>6, AddClauseFacts
    <3>2. store["ESBP"][w] = << >>
      BY <1>1, <2>4 DEF HasClause
    <3>3. clauses'["ESBP"][w] # << >>
      BY <1>4, <2>9 DEF HasClause
    <3> QED
      BY <3>1, <3>2, <3>3
  <2>11. TakenClause(clauses', "ESBP", v) = clause
    BY <2>9, <2>10 DEF TakenClause, Last
  <2> QED
    BY <2>8, <2>11
<1> QED
  BY <1>3, <1>4 DEF UpdateNotify, NotifyDisabled

\* The literal that is dequeued contradicts no unit clause: their literals are
\* on the trail, and the controller is not told of the root.
LEMMA DequeuedAgreesWithUnits ==
    ASSUME GlucoseIInv, UnitsAreSettled, Dequeue
    PROVE  \A j \in DOMAIN Units : Units[j] # {Negated(trail[qhead + 1])}
<1> DEFINE n == qhead + 1
           l == trail[n]
<1>1. phase = "propagate" /\ qhead < Len(trail)
  BY DEF Dequeue
<1>2. ok /\ Enabled /\ qhead = Told
  BY <1>1 DEF GlucoseIInv, QueueMatches
<1>3. n \in 1 .. Len(trail) /\ Len(root) < n /\ Len(root) \in Nat /\ Len(trail) \in Nat
  BY <1>1, <1>2, StateFacts
<1>4. l \in Literal /\ Negated(l) \in Literal /\ Variable(Negated(l)) = Variable(l)
      /\ Negated(Negated(l)) = l /\ Negated(l) # l
  BY <1>3, StateFacts, LiteralFacts
<1>5. SUFFICES ASSUME NEW j \in DOMAIN Units, Units[j] = {Negated(l)} PROVE FALSE
  OBVIOUS
<1>6. IsSettled(Negated(l))
  BY <1>1, <1>2, <1>4, <1>5 DEF UnitsAreSettled, IsWaiting
<1>7. \A i \in 1 .. Len(trail) : Variable(trail[i]) = Variable(trail[n]) => i = n
  BY <1>3, StateFacts, TrailFacts
<1> HIDE DEF n
<1>8. ASSUME NEW i \in 1 .. Len(root), root[i] = l PROVE FALSE
  <2>1. i \in 1 .. Len(trail) /\ trail[i] = root[i] /\ i # n
    BY <1>3 DEF GlucoseIInv, TrailMatches
  <2> QED
    BY <1>7, <1>8, <2>1
<1>9. ASSUME NEW i \in 1 .. Len(trail), trail[i] = Negated(l) PROVE FALSE
  BY <1>4, <1>7, <1>9
<1> QED
  BY <1>4, <1>6, <1>8, <1>9 DEF IsSettled

\* The clause that ends a propagation is one that conflict analysis can work
\* on: its literals are false, one of them was assigned at the current level,
\* and an ESBP clause always has two literals to swap.
THEOREM ConflictsAreCurrent == GlucoseSpec => []ConflictIsCurrent
<1>1. GlucoseInit => EsbpAtLeastBinary
  BY DEF GlucoseInit, EsbpAtLeastBinary
<1>2. ASSUME GlucoseIInv, ReducersAreSeen, UnitsAreSettled, EsbpAtLeastBinary,
             [GlucoseNext]_glucoseVars
      PROVE  EsbpAtLeastBinary'
  <2>1. CASE Dequeue
    <3>1. /\ phase = "propagate" /\ UpdateNotify(trail[qhead + 1]) /\ qhead < Len(trail)
      BY <2>1 DEF Dequeue
    <3>2. ok /\ Enabled /\ trail[qhead + 1] \in Literal
      <4>1. qhead + 1 \in 1 .. Len(trail)
        BY <1>2, <3>1, StateFacts
      <4> QED
        BY <1>2, <3>1, <4>1, StateFacts DEF GlucoseIInv, QueueMatches
    <3>3. \A v \in Variables : ~HasClause(clauses, "ESBP", v)
      BY <1>2, <3>1 DEF ReducersAreSeen
    <3> QED
      BY <1>2, <2>1, <3>1, <3>2, <3>3, NotifyMakesBinary, DequeuedAgreesWithUnits
         DEF GlucoseIInv, EsbpAtLeastBinary
  <2>2. CASE UNCHANGED glucoseVars
    BY <1>2, <2>2 DEF glucoseVars, controllerVars, solverVars, EsbpAtLeastBinary
  <2>3. CASE GlucoseNext /\ ~Dequeue
    <3>1. phase' # "notified" \/ UNCHANGED glucoseVars
      BY <1>2, <2>3
         DEF GlucoseNext, SolveStart, DrainUnit, SearchStart, LearnSymmetryClause,
             NoSymmetryClause, Imply, Decide, ClauseConflict, WatchesDone, RootConflict,
             Analyze, Restart, CancelLiteral, CancelDone, Finished, CancelUntil, Goto,
             PropagateDone, GlucoseIInv, CancelMatchesLevels, glucoseVars
    <3> QED
      BY <2>2, <3>1 DEF EsbpAtLeastBinary
  <2> QED
    BY <1>2, <2>1, <2>2, <2>3
<1>3. GlucoseIInv /\ EsbpAtLeastBinary => ConflictIsCurrent
  BY DEF GlucoseIInv, ConflictIsCurrent
<1> QED
  BY <1>1, <1>2, <1>3, GlucoseIInvCorrect, ReducersAreSeenCorrect, UnitsAreSettledCorrect,
     PTL DEF GlucoseSpec

=============================================================================
