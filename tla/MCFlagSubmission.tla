-------------------------- MODULE MCFlagSubmission --------------------------
(* Instances of FlagSubmission for TLC: one curve that falls with every      *)
(* solve, one challenge of fixed price.                                      *)
EXTENDS FlagSubmission, TLC

OneCurve == {[initial |-> 5, minScore |-> 1, decay |-> 2]}

BothCurves == {[initial |-> 5, minScore |-> 1, decay |-> 2],
             [initial |-> 0, minScore |-> 0, decay |-> 0]}

Symmetry == Permutations(Users) \cup Permutations(Teams)
=============================================================================
