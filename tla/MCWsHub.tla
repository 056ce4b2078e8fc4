------------------------------- MODULE MCWsHub -------------------------------
EXTENDS WsHub, TLC
CONSTANTS i1, i2, c1, c2, e1, e2
(* One client on each of two instances; both events come from the first.      *)
MCInstanceOf == (c1 :> i1) @@ (c2 :> i2) @@ (e1 :> i1) @@ (e2 :> i1)
=============================================================================
