---------------------------- MODULE MCHintUnlock ----------------------------
(* Instances of HintUnlock for TLC.                                          *)
EXTENDS HintUnlock

(* A cost below zero is accepted, and free like zero (minimum: 0 of the API  *)
(* description is not enforced).                                             *)
FreeOrTwo == {-1, 2}

(* An award, and a deduction of the same size.                               *)
GiftOrDebit == {2, -2}
=============================================================================
