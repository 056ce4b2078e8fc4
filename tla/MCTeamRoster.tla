---------------------------- MODULE MCTeamRoster ----------------------------
(* Instances of TeamRoster for TLC.  Users and team rows are interchangeable *)
(* in every definition, so both are symmetry sets of the safety runs.        *)
EXTENDS TeamRoster, TLC

Symmetry == Permutations(Users) \cup Permutations(Teams)
=============================================================================
