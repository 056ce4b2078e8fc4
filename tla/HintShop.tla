------------------------------ MODULE HintShop ------------------------------
(* What unlocking hints promises a team: a hint is bought at most once, and  *)
(* what is paid for it is one price it was on sale for, taken in the same    *)
(* step that unlocks it.  Nothing else ever touches what was paid.           *)
EXTENDS Integers

CONSTANTS Teams, Hints, Costs

VARIABLES owned,    \* <<team, hint>> pairs
          paid,     \* paid[t][h]: points t has paid for h
          offered   \* prices each hint has been on sale for; {} off sale

vars == <<owned, paid, offered>>

Nothing == [h \in Hints |-> 0]

Init ==
  /\ owned = {}
  /\ paid = [t \in Teams |-> Nothing]
  /\ offered = [h \in Hints |-> {}]

(* A price that is not positive is no price: the hint is free.               *)
Due(price) == IF price > 0 THEN price ELSE 0

Buy(t, h, price) ==
  /\ price \in offered[h]
  /\ <<t, h>> \notin owned
  /\ owned' = owned \cup {<<t, h>>}
  /\ paid' = [paid EXCEPT ![t][h] = Due(price)]
  /\ UNCHANGED offered

(* An administrator puts a hint on sale, or changes its price.               *)
Offer(h, price) ==
  /\ offered' = [offered EXCEPT ![h] = @ \cup {price}]
  /\ UNCHANGED <<owned, paid>>

(* Hints are taken away, owned or not; nobody is paid back.                  *)
Withdraw(hints) ==
  /\ offered' = [h \in Hints |-> IF h \in hints THEN {} ELSE offered[h]]
  /\ owned' = {o \in owned : o[2] \notin hints}
  /\ UNCHANGED paid

(* The team is removed with everything it has.                               *)
Leave(t) ==
  /\ owned' = {o \in owned : o[1] # t}
  /\ paid' = [paid EXCEPT ![t] = Nothing]
  /\ UNCHANGED offered

Next ==
  \/ \E t \in Teams, h \in Hints : \E price \in offered[h] : Buy(t, h, price)
  \/ \E h \in Hints, price \in Costs : Offer(h, price)
  \/ \E hints \in SUBSET Hints : Withdraw(hints)
  \/ \E t \in Teams : Leave(t)

Spec == Init /\ [][Next]_vars
=============================================================================
