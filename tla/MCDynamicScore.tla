--------------------------- MODULE MCDynamicScore ---------------------------
(* One challenge, solved again and again: every curve within the bounds.     *)
EXTENDS DynamicScore

CONSTANTS MaxValue,     \* bound: initial and minScore
          MaxDecay,     \* bound: decay
          MaxSolves     \* bound: solves

ASSUME BoundsAssumption == MaxValue \in Nat /\ MaxDecay \in Nat /\ MaxSolves \in Nat

VARIABLES curve, solves

curveVars == <<curve, solves>>

ScoreAt(n) == CalculateDynamicScore(curve.initial, curve.minScore, curve.decay, n)

Init ==
  /\ curve \in [initial : 1 .. MaxValue, minScore : 0 .. MaxValue, decay : 0 .. MaxDecay]
  /\ curve.minScore <= curve.initial
  /\ solves = 0

Solve == solves < MaxSolves /\ solves' = solves + 1 /\ UNCHANGED curve

Spec == Init /\ [][Solve]_curveVars

(* One more solve never makes a challenge worth more, across the early       *)
(* return for no solves, the rounding, the cut-off past decay and the decay  *)
(* of zero.                                                                  *)
ScoreNeverRises == [][ScoreAt(solves') <= ScoreAt(solves)]_curveVars

(* The first solver gets the full value and the solver after the decay-th    *)
(* the minimum (scoring.go says so of both ends), none ever less than that.  *)
ScoreSpansTheRange ==
  /\ ScoreAt(1) = curve.initial
  /\ curve.decay > 0 => ScoreAt(curve.decay + 1) = curve.minScore
  /\ ScoreAt(solves) \in curve.minScore .. curve.initial

(* Between them the points are the least integer not under the parabola,     *)
(* stated without division.                                                  *)
ScoreIsCeiling ==
  LET square == curve.decay * curve.decay
      exact == curve.initial * square
                 - (curve.initial - curve.minScore) * (solves - 1) * (solves - 1)
  IN solves \in 1 .. curve.decay =>
       /\ ScoreAt(solves) * square >= exact
       /\ (ScoreAt(solves) - 1) * square < exact
=============================================================================
