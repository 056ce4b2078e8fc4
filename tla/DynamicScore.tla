---------------------------- MODULE DynamicScore ----------------------------
(* CalculateDynamicScore (internal/usecase/competition/scoring.go): the      *)
(* points of a challenge fall along a parabola from initial to minScore as   *)
(* the number of solves passes decay.  Go computes in float64 and takes the  *)
(* ceiling; here the value is exact.                                         *)
EXTENDS Integers

AtLeast(low, x) == IF x < low THEN low ELSE x

(* math.Ceil of initial - drop / unit.                                       *)
CeilAfter(initial, drop, unit) == initial - drop \div unit

(* Variant: the early return for no solves answers the minimum. *)
ScoreMinimumFirst(initial, minScore, decay, solves) ==
  LET d == IF decay = 0 THEN 1 ELSE decay
      drop == (initial - minScore) * (solves - 1) * (solves - 1)
  IN IF solves <= 0 \/ solves > d THEN minScore
     ELSE AtLeast(minScore, CeilAfter(initial, drop, d * d))

(* Variant: integer division truncates instead of rounding up. *)
ScoreTruncated(initial, minScore, decay, solves) ==
  LET d == IF decay = 0 THEN 1 ELSE decay
      drop == (initial - minScore) * (solves - 1) * (solves - 1)
  IN IF solves <= 0 THEN initial
     ELSE IF solves > d THEN minScore
     ELSE AtLeast(minScore, initial + (-drop) \div (d * d))

(* Variant: the first solve already counts in the formula. *)
ScoreFromFirstSolve(initial, minScore, decay, solves) ==
  LET d == IF decay = 0 THEN 1 ELSE decay
      drop == (initial - minScore) * solves * solves
  IN IF solves <= 0 THEN initial
     ELSE IF solves > d THEN minScore
     ELSE AtLeast(minScore, CeilAfter(initial, drop, d * d))

CalculateDynamicScore(initial, minScore, decay, solves) ==
  LET d == IF decay = 0 THEN 1 ELSE decay
      drop == (initial - minScore) * (solves - 1) * (solves - 1)
  IN IF solves <= 0 THEN initial
     ELSE IF solves > d THEN minScore
     ELSE AtLeast(minScore, CeilAfter(initial, drop, d * d))
=============================================================================
