-------------------------- MODULE HintUnlockProofs --------------------------
(* For any number of teams, hints, challenges and concurrent requests:       *)
(* unlocking implements the shop of HintShop, and takes no team below zero.  *)
(* The first part is about sums over finite sets, the second about the shop, *)
(* the third about scores.                                                   *)
EXTENDS HintUnlock, FiniteSetTheorems, WellFoundedInduction, TLAPS

-----------------------------------------------------------------------------
(* Sums.  MapThenSumSet is a recursive function over the subsets of its set; *)
(* that there is one, and what it computes, follows from the least subset    *)
(* for which it does not hold.                                               *)
Pick(s) == CHOOSE x \in s : TRUE

(* The sum of g[x] over x in S, as Earned has it. *)
SumOver(g, S) == MapThenSumSet(LAMBDA x : g[x], S)

(* One step of the recursion, and the function it defines. *)
Body(g, f, s) == IF s = {} THEN 0 ELSE g[Pick(s)] + f[s \ {Pick(s)}]
Iter(g, S) == CHOOSE f : f = [s \in SUBSET S |-> Body(g, f, s)]

(* The library's sum is that function. *)
LEMMA SumIsIter == ASSUME NEW g, NEW S PROVE SumOver(g, S) = Iter(g, S)[S]
BY DEF SumOver, Iter, Body, Pick, MapThenSumSet, MapThenFoldSet

LEMMA PickIn == ASSUME NEW s, s # {} PROVE Pick(s) \in s
BY DEF Pick

(* Among the subsets of a finite set some are least. *)
LEMMA SubsetMin ==
  ASSUME NEW S, IsFiniteSet(S), NEW B \in SUBSET (SUBSET S), B # {}
  PROVE  \E s \in B : \A u \in B : u \subseteq s => u = s
<1> DEFINE R == StrictSubsetOrdering(S)
<1> HIDE DEF R
<1>1. IsWellFoundedOn(R, SUBSET S)
  BY FS_StrictSubsetOrderingWellFounded, FS_FiniteSubsetsOfFinite DEF R
<1>2. PICK s \in B : \A u \in B : <<u, s>> \notin R
  BY <1>1, WFMin
<1>3. ASSUME NEW u \in B, u \subseteq s PROVE u = s
  BY <1>2, <1>3 DEF R, StrictSubsetOrdering
<1> QED
  BY <1>3, Zenon

Correct(g, f, S) == f = [s \in SUBSET S |-> Body(g, f, s)]

(* Iter(g, s) is the recursive function on the subsets of s, and extends the *)
(* one on each subset. *)
Good(g, s) == /\ Correct(g, Iter(g, s), s)
              /\ \A v \in SUBSET s : Iter(g, s)[v] = Iter(g, v)[v]

LEMMA GoodStep ==
  ASSUME NEW g, NEW s, IsFiniteSet(s),
         \A u \in SUBSET s : u # s => Good(g, u)
  PROVE  Good(g, s)
<1> DEFINE h(v) == Iter(g, v)[v]
           e == [u \in SUBSET s |-> IF u = {} THEN 0 ELSE g[Pick(u)] + h(u \ {Pick(u)})]
<1>1. ASSUME NEW v \in SUBSET s, v # s
      PROVE  h(v) = IF v = {} THEN 0 ELSE g[Pick(v)] + h(v \ {Pick(v)})
  <2>1. Good(g, v)
    BY <1>1
  <2>2. Iter(g, v)[v] = Body(g, Iter(g, v), v)
    BY <2>1, Zenon DEF Good, Correct
  <2>3. v \ {Pick(v)} \in SUBSET v
    OBVIOUS
  <2>4. Iter(g, v)[v \ {Pick(v)}] = Iter(g, v \ {Pick(v)})[v \ {Pick(v)}]
    BY <2>1, <2>3, Zenon DEF Good
  <2> QED
    BY <2>2, <2>4 DEF Body
<1> HIDE DEF h
<1>2. ASSUME NEW v \in SUBSET s, v # {}
      PROVE  v \ {Pick(v)} \in SUBSET s /\ v \ {Pick(v)} # s
  BY <1>2, PickIn
<1>3. ASSUME NEW v \in SUBSET s, v # s PROVE e[v] = h(v)
  BY <1>1, <1>3
<1>4. ASSUME NEW v \in SUBSET s PROVE e[v] = Body(g, e, v)
  <2>1. CASE v = {}
    BY <2>1 DEF Body
  <2>2. CASE v # {}
    <3>1. e[v] = g[Pick(v)] + h(v \ {Pick(v)})
      BY <2>2
    <3>2. e[v \ {Pick(v)}] = h(v \ {Pick(v)})
      BY <2>2, <1>2, <1>3
    <3> QED
      BY <3>1, <3>2, <2>2 DEF Body
  <2> QED BY <2>1, <2>2
<1>5. Correct(g, e, s)
  <2>1. e = [v \in SUBSET s |-> e[v]]
    OBVIOUS
  <2> HIDE DEF e
  <2> QED BY <2>1, <1>4 DEF Correct
<1>6. Correct(g, Iter(g, s), s)
  <2> HIDE DEF e
  <2> QED BY <1>5, Zenon DEF Correct, Iter
<1>7. ASSUME NEW v \in SUBSET s PROVE Iter(g, s)[v] = Body(g, Iter(g, s), v)
  BY <1>6, Zenon DEF Correct
<1> DEFINE B == {v \in SUBSET s : v # s /\ Iter(g, s)[v] # h(v)}
<1>8. B = {}
  <2> SUFFICES ASSUME B # {} PROVE FALSE
    OBVIOUS
  <2>0. B \in SUBSET (SUBSET s)
    OBVIOUS
  <2>1. PICK v \in B : \A u \in B : u \subseteq v => u = v
    <3> HIDE DEF B
    <3> QED BY <2>0, SubsetMin
  <2>2. v \in SUBSET s /\ v # s /\ Iter(g, s)[v] # h(v)
    OBVIOUS
  <2>3. v # {}
    BY <1>1, <1>7, <2>2 DEF Body
  <2>4. v \ {Pick(v)} \notin B
    BY <2>1, <2>3, PickIn
  <2>5. Iter(g, s)[v \ {Pick(v)}] = h(v \ {Pick(v)})
    BY <2>4, <2>2, <2>3, <1>2
  <2> QED
    BY <2>2, <2>3, <2>5, <1>1, <1>7 DEF Body
<1>9. \A v \in SUBSET s : Iter(g, s)[v] = h(v)
  BY <1>8 DEF h
<1> QED
  BY <1>6, <1>9 DEF Good, h

LEMMA AllGood ==
  ASSUME NEW g, NEW S, IsFiniteSet(S) PROVE Good(g, S)
<1> DEFINE B == {s \in SUBSET S : ~Good(g, s)}
<1> SUFFICES ASSUME B # {} PROVE FALSE
  OBVIOUS
<1>0. B \in SUBSET (SUBSET S)
  OBVIOUS
<1>1. PICK s \in B : \A u \in B : u \subseteq s => u = s
  <2> HIDE DEF B
  <2> QED BY <1>0, SubsetMin
<1>2. \A u \in SUBSET s : u # s => Good(g, u)
  BY <1>1
<1>3. IsFiniteSet(s)
  BY FS_Subset
<1> QED
  BY <1>2, <1>3, GoodStep

(* A sum is 0 over the empty set, and otherwise one term and the sum of the  *)
(* others. *)
LEMMA SumUnfold ==
  ASSUME NEW g, NEW S, IsFiniteSet(S)
  PROVE  SumOver(g, S) = IF S = {} THEN 0 ELSE g[Pick(S)] + SumOver(g, S \ {Pick(S)})
<1>1. Good(g, S)
  BY AllGood
<1>2. Iter(g, S)[S] = Body(g, Iter(g, S), S)
  BY <1>1, Zenon DEF Good, Correct
<1>3. Iter(g, S)[S \ {Pick(S)}] = Iter(g, S \ {Pick(S)})[S \ {Pick(S)}]
  <2>1. S \ {Pick(S)} \in SUBSET S
    OBVIOUS
  <2> QED BY <1>1, <2>1, Zenon DEF Good
<1> QED
  BY <1>2, <1>3, SumIsIter DEF Body

(* A sum of integers is an integer. *)
LEMMA SumInt ==
  ASSUME NEW g, NEW S, IsFiniteSet(S), \A x \in S : g[x] \in Int
  PROVE  SumOver(g, S) \in Int
<1> DEFINE B == {s \in SUBSET S : SumOver(g, s) \notin Int}
<1> SUFFICES ASSUME B # {} PROVE FALSE
  OBVIOUS
<1>1. B \in SUBSET (SUBSET S)
  OBVIOUS
<1>2. PICK s \in B : \A u \in B : u \subseteq s => u = s
  <2> HIDE DEF B
  <2> QED BY <1>1, SubsetMin
<1>3. SumOver(g, s) = IF s = {} THEN 0 ELSE g[Pick(s)] + SumOver(g, s \ {Pick(s)})
  BY FS_Subset, SumUnfold
<1>4. s # {}
  BY <1>3
<1>5. Pick(s) \in S /\ SumOver(g, s \ {Pick(s)}) \in Int
  BY <1>2, <1>4, PickIn
<1> QED
  BY <1>3, <1>4, <1>5

(* A sum of zeros is zero. *)
LEMMA SumZero ==
  ASSUME NEW g, NEW S, IsFiniteSet(S), \A x \in S : g[x] = 0
  PROVE  SumOver(g, S) = 0
<1> DEFINE B == {s \in SUBSET S : SumOver(g, s) # 0}
<1> SUFFICES ASSUME B # {} PROVE FALSE
  OBVIOUS
<1>1. B \in SUBSET (SUBSET S)
  OBVIOUS
<1>2. PICK s \in B : \A u \in B : u \subseteq s => u = s
  <2> HIDE DEF B
  <2> QED BY <1>1, SubsetMin
<1>3. SumOver(g, s) = IF s = {} THEN 0 ELSE g[Pick(s)] + SumOver(g, s \ {Pick(s)})
  BY FS_Subset, SumUnfold
<1>4. s # {}
  BY <1>3
<1>5. Pick(s) \in S /\ SumOver(g, s \ {Pick(s)}) = 0
  BY <1>2, <1>4, PickIn
<1> QED
  BY <1>3, <1>4, <1>5

(* Where one term changes, the sum changes as much. *)
LEMMA SumChange ==
  ASSUME NEW g, NEW k, NEW S, IsFiniteSet(S), NEW x \in S,
         \A y \in S : g[y] \in Int /\ k[y] \in Int,
         \A y \in S : y # x => k[y] = g[y]
  PROVE  SumOver(k, S) = SumOver(g, S) + (k[x] - g[x])
<1> DEFINE rise(s) == IF x \in s THEN k[x] - g[x] ELSE 0
           B == {s \in SUBSET S : SumOver(k, s) # SumOver(g, s) + rise(s)}
<1> SUFFICES ASSUME B # {} PROVE FALSE
  OBVIOUS
<1>1. B \in SUBSET (SUBSET S)
  OBVIOUS
<1>2. PICK s \in B : \A u \in B : u \subseteq s => u = s
  <2> HIDE DEF B
  <2> QED BY <1>1, SubsetMin
<1> DEFINE p == Pick(s)
           rest == s \ {p}
<1>3. /\ SumOver(g, s) = IF s = {} THEN 0 ELSE g[p] + SumOver(g, rest)
      /\ SumOver(k, s) = IF s = {} THEN 0 ELSE k[p] + SumOver(k, rest)
  BY FS_Subset, SumUnfold
<1>4. s # {}
  BY <1>3
<1>5. p \in s /\ p \in S /\ rest \in SUBSET S /\ rest # s
  BY <1>4, PickIn
<1>6. SumOver(k, rest) = SumOver(g, rest) + rise(rest)
  BY <1>2, <1>5
<1>7. SumOver(g, rest) \in Int
  BY <1>5, FS_Subset, SumInt
<1>8. k[p] = g[p] + (IF p = x THEN k[x] - g[x] ELSE 0) /\ k[p] \in Int /\ g[p] \in Int
  BY <1>5
<1>9. k[x] \in Int /\ g[x] \in Int
  OBVIOUS
<1>10. rise(s) = rise(rest) + (IF p = x THEN k[x] - g[x] ELSE 0)
  BY <1>5, <1>9
<1>11. SumOver(k, s) # SumOver(g, s) + rise(s)
  OBVIOUS
<1> HIDE DEF p, rest, rise
<1> QED
  BY <1>3, <1>4, <1>6, <1>7, <1>8, <1>9, <1>10, <1>11 DEF rise

-----------------------------------------------------------------------------
(* The shop.  A hint has prices exactly while it is on sale; what was paid   *)
(* for a hint was paid by its owner, or the hint is gone.                    *)
OnSaleOK(h) ==
  /\ hint[h].state = "live" => hint[h].cost \in asked[h]
  /\ hint[h].state # "live" => asked[h] = {}

PaidIsOwned ==
  \A t \in Teams, h \in Hints :
    paid[t][h] # 0 => <<t, h>> \in unlocked \/ hint[h].state = "gone"

(* The row a request has copied was on sale at that price and may have been  *)
(* deleted since, but is not a row that is still to be created.              *)
OrderOK(r) ==
  LET h == req[r].hint IN
  pc[r] # "idle" =>
    /\ hint[h].state # "none"
    /\ hint[h].state = "live" => copy[r] \in asked[h]

(* Between its check and its inserts a request holds the row of its team,    *)
(* so nobody else unlocks for that team.                                     *)
TeamHeld(r) ==
  pc[r] \in {"check", "insert"} => lock[req[r].team] = r
NotYetOwned(r) ==
  pc[r] = "insert" => <<req[r].team, req[r].hint>> \notin unlocked

ShopInv ==
  /\ TypeOK
  /\ \A h \in Hints : OnSaleOK(h)
  /\ PaidIsOwned
  /\ \A r \in Requests : OrderOK(r) /\ TeamHeld(r) /\ NotYetOwned(r)

(* Types, action by action. *)
LEMMA InitTypeOK == Init => TypeOK
<1>1. AnyCost \in Costs /\ NoOrder \in Order
  BY HintEntities DEF AnyCost, NoOrder, Order
<1> QED
  BY <1>1, NamesDiffer, Amounts DEF Init, TypeOK, HintRow

LEMMA EndUnlockTyped ==
  ASSUME TypeOK, NEW r \in Requests, EndUnlock(r)
  PROVE  /\ pc' \in [Requests -> {"idle", "lock", "check", "insert"}]
         /\ req' \in [Requests -> Order]
         /\ copy' \in [Requests -> Costs]
<1>1. AnyCost \in Costs /\ NoOrder \in Order
  BY HintEntities DEF AnyCost, NoOrder, Order
<1> QED
  BY <1>1 DEF TypeOK, EndUnlock

LEMMA UnlockTyped ==
  ASSUME TypeOK, NEW r \in Requests,
         \/ \E t \in Teams, h \in Hints : ReadHint(r, t, h)
         \/ UnlockStep(r) \/ FailUnlock(r)
  PROVE  TypeOK'
<1> USE DEF shop, board, requests
<1>1. CASE \E t \in Teams, h \in Hints : ReadHint(r, t, h)
  BY <1>1 DEF TypeOK, ReadHint, HintRow, Order
<1>2. CASE LockTeam(r)
  <2>1. CASE EndUnlock(r) /\ UNCHANGED lock
    BY <1>2, <2>1, EndUnlockTyped DEF TypeOK, LockTeam
  <2>2. CASE /\ lock' = [lock EXCEPT ![req[r].team] = r]
             /\ pc' = [pc EXCEPT ![r] = "check"] /\ UNCHANGED <<req, copy>>
    BY <1>2, <2>2 DEF TypeOK, LockTeam
  <2> QED
    BY <1>2, <2>1, <2>2 DEF LockTeam
<1>3. ASSUME Release(r) PROVE lock' \in [Teams -> Requests \cup {NoRequest}]
  BY <1>3 DEF TypeOK, Release
<1>4. CASE CheckUnlock(r)
  <2>1. CASE EndUnlock(r) /\ Release(r)
    BY <1>3, <1>4, <2>1, EndUnlockTyped DEF TypeOK, CheckUnlock
  <2>2. CASE pc' = [pc EXCEPT ![r] = "insert"] /\ UNCHANGED <<req, copy, lock>>
    BY <1>4, <2>2 DEF TypeOK, CheckUnlock
  <2> QED
    BY <1>4, <2>1, <2>2 DEF CheckUnlock
<1>5. CASE InsertUnlock(r)
  <2> DEFINE o == req[r]
  <2>1. /\ o.team \in Teams /\ o.hint \in Hints
        /\ copy[r] \in Costs /\ Charge(copy[r]) \in Nat
    <3>1. o \in Order /\ copy[r] \in Costs
      BY DEF TypeOK
    <3>2. o.team \in Teams /\ o.hint \in Hints
      BY <3>1 DEF Order
    <3>3. ASSUME NEW k \in Int PROVE Charge(k) \in Nat
      BY <3>3 DEF Charge
    <3>4. copy[r] \in Int
      BY <3>1, Amounts
    <3> QED
      BY <3>1, <3>2, <3>3, <3>4
  <2>2. paid' \in [Teams -> [Hints -> Nat]] /\ unlocked' \subseteq Teams \X Hints
    <3>1. CASE UNCHANGED <<paid, unlocked>>
      BY <3>1 DEF TypeOK
    <3>2. CASE /\ paid' = [paid EXCEPT ![o.team][o.hint] = @ + Charge(copy[r])]
               /\ unlocked' = unlocked \cup {<<o.team, o.hint>>}
      <4> HIDE DEF o
      <4> QED
        BY <3>2, <2>1 DEF TypeOK
    <3> QED
      BY <1>5, <3>1, <3>2 DEF InsertUnlock
  <2> QED
    BY <1>3, <1>5, <2>2, EndUnlockTyped DEF TypeOK, InsertUnlock
<1>6. CASE FailUnlock(r)
  BY <1>3, <1>6, EndUnlockTyped DEF TypeOK, FailUnlock
<1> QED
  BY <1>1, <1>2, <1>4, <1>5, <1>6 DEF UnlockStep

LEMMA EditTyped ==
  ASSUME TypeOK, NEW h \in Hints,
         DeleteHint(h) \/ \E k \in Costs : CreateHint(h, k) \/ UpdateHint(h, k)
  PROVE  TypeOK'
<1> USE DEF TypeOK, HintRow, board, requests
<1>1. AnyCost \in Costs
  BY HintEntities DEF AnyCost
<1>2. CASE DeleteHint(h)
  BY <1>1, <1>2 DEF DeleteHint, Remove
<1>3. ASSUME NEW k \in Costs, CreateHint(h, k) PROVE TypeOK'
  BY <1>3 DEF CreateHint
<1>4. ASSUME NEW k \in Costs, UpdateHint(h, k) PROVE TypeOK'
  BY <1>4 DEF UpdateHint
<1> QED
  BY <1>2, <1>3, <1>4

(* Everybody else: what changes points. *)
PointsStep ==
  \/ \E t \in Teams : HardDeleteTeam(t) \/ \E v \in Gifts : CreateAward(t, v)
  \/ \E c \in Challenges :
       \/ DeleteChallenge(c)
       \/ \E t \in Teams : LockChallenge(t, c)
       \/ \E p \in Prices : RecordSolve(c, p) \/ Reprice(c, p)

LEMMA PointsTyped == TypeOK /\ PointsStep => TypeOK'
<1> SUFFICES ASSUME TypeOK, PointsStep PROVE TypeOK'
  OBVIOUS
<1> USE DEF TypeOK, shop, requests
<1>0. ASSUME NoteFall PROVE squeezed' \in [Teams -> BOOLEAN]
  <2>1. \A t \in Teams : (squeezed[t] \/ Earned(t)' < Earned(t)) \in BOOLEAN
    OBVIOUS
  <2> QED
    BY <1>0, <2>1, Zenon DEF NoteFall
<1>1. ASSUME NEW t \in Teams, HardDeleteTeam(t) PROVE TypeOK'
  BY <1>0, <1>1, Amounts DEF HardDeleteTeam
<1>2. ASSUME NEW t \in Teams, NEW v \in Gifts, CreateAward(t, v) PROVE TypeOK'
  BY <1>0, <1>2 DEF CreateAward
<1>3. ASSUME NEW c \in Challenges, DeleteChallenge(c) PROVE TypeOK'
  BY <1>0, <1>3 DEF DeleteChallenge
<1>4. ASSUME NEW c \in Challenges, NEW t \in Teams, LockChallenge(t, c) PROVE TypeOK'
  BY <1>4 DEF LockChallenge
<1>5. ASSUME NEW c \in Challenges, NEW p \in Prices, RecordSolve(c, p) PROVE TypeOK'
  <2>1. solved' \subseteq Teams \X Challenges
    BY <1>5 DEF RecordSolve
  <2>2. worth' \in [Challenges -> Prices \cup {-1}] /\ solver' \in [Challenges -> Teams \cup {NoTeam}]
    BY <1>5 DEF RecordSolve
  <2>3. squeezed' \in [Teams -> BOOLEAN]
    BY <1>0, <1>5 DEF RecordSolve
  <2>4. UNCHANGED <<shop, granted, exists, requests>>
    BY <1>5 DEF RecordSolve
  <2> QED
    BY <2>1, <2>2, <2>3, <2>4
<1>6. ASSUME NEW c \in Challenges, NEW p \in Prices, Reprice(c, p) PROVE TypeOK'
  BY <1>0, <1>6 DEF Reprice
<1> QED
  BY <1>1, <1>2, <1>3, <1>4, <1>5, <1>6 DEF PointsStep

LEMMA NextTyped == TypeOK /\ [Next]_vars => TypeOK'
<1>1. TypeOK /\ UNCHANGED vars => TypeOK'
  BY DEF TypeOK, vars
<1> QED
  BY <1>1, UnlockTyped, EditTyped, PointsTyped DEF Next, PointsStep

(* Every row, lock and request keeps its type. *)
THEOREM UnlockTypeOK == Spec => []TypeOK
<1> QED
  BY InitTypeOK, NextTyped, PTL DEF Spec

(* What the rows of requests and orders are made of. *)
LEMMA Rows ==
  ASSUME TypeOK, NEW r \in Requests
  PROVE  /\ req[r].team \in Teams /\ req[r].hint \in Hints
         /\ copy[r] \in Int
         /\ lock[req[r].team] = r => lock[req[r].team] # NoRequest
<1>1. req[r] \in Order /\ copy[r] \in Costs
  BY DEF TypeOK
<1> QED
  BY <1>1, NamesDiffer, Amounts DEF Order

(* A request that ends leaves the other requests what they know. *)
LEMMA EndKeepsRequests ==
  ASSUME ShopInv, NEW r \in Requests, EndUnlock(r), Release(r) \/ UNCHANGED lock,
         UNCHANGED <<hint, asked>>,
         \A q \in Requests \ {r} : NotYetOwned(q) =>
           (pc[q] = "insert" => <<req[q].team, req[q].hint>> \notin unlocked')
  PROVE  \A q \in Requests : OrderOK(q)' /\ TeamHeld(q)' /\ NotYetOwned(q)'
<1> SUFFICES ASSUME NEW q \in Requests
             PROVE  OrderOK(q)' /\ TeamHeld(q)' /\ NotYetOwned(q)'
  OBVIOUS
<1>1. CASE q = r
  <2>1. pc'[r] = "idle"
    BY DEF ShopInv, TypeOK, EndUnlock
  <2> QED
    BY <1>1, <2>1 DEF OrderOK, TeamHeld, NotYetOwned
<1>2. CASE q # r
  <2>1. pc'[q] = pc[q] /\ req'[q] = req[q] /\ copy'[q] = copy[q]
    BY <1>2 DEF ShopInv, TypeOK, EndUnlock
  <2>2. OrderOK(q)'
    BY <2>1 DEF ShopInv, OrderOK
  <2>3. TeamHeld(q)'
    <3>1. req[q].team \in Teams
      BY Rows DEF ShopInv
    <3>2. lock[req[q].team] = q => lock'[req[q].team] = q
      BY <1>2, <3>1 DEF ShopInv, TypeOK, Release
    <3> QED
      BY <2>1, <3>2 DEF ShopInv, TeamHeld
  <2>4. NotYetOwned(q)'
    BY <1>2, <2>1 DEF ShopInv, NotYetOwned
  <2> QED
    BY <2>2, <2>3, <2>4
<1> QED
  BY <1>1, <1>2

LEMMA ReadHintKeepsShop ==
  ASSUME ShopInv, TypeOK', NEW r \in Requests, NEW t \in Teams, NEW h \in Hints,
         ReadHint(r, t, h)
  PROVE  ShopInv'
<1>1. (\A g \in Hints : OnSaleOK(g)') /\ PaidIsOwned'
  BY DEF ShopInv, OnSaleOK, PaidIsOwned, ReadHint, shop
<1>2. ASSUME NEW q \in Requests PROVE OrderOK(q)' /\ TeamHeld(q)' /\ NotYetOwned(q)'
  <2>1. CASE q = r
    <3>1. /\ pc'[r] = "lock" /\ req'[r] = [team |-> t, hint |-> h]
          /\ copy'[r] = hint[h].cost
      BY DEF ShopInv, TypeOK, ReadHint
    <3>2. hint[h].cost \in asked[h] /\ hint'[h] = hint[h] /\ asked'[h] = asked[h]
      BY DEF ShopInv, OnSaleOK, ReadHint, shop
    <3> QED
      BY <2>1, <3>1, <3>2 DEF OrderOK, TeamHeld, NotYetOwned, ReadHint
  <2>2. CASE q # r
    <3>1. pc'[q] = pc[q] /\ req'[q] = req[q] /\ copy'[q] = copy[q]
      BY <2>2 DEF ShopInv, TypeOK, ReadHint
    <3> QED
      BY <3>1 DEF ShopInv, OrderOK, TeamHeld, NotYetOwned, ReadHint, shop
  <2> QED
    BY <2>1, <2>2
<1> QED
  BY <1>1, <1>2 DEF ShopInv

LEMMA LockTeamKeepsShop ==
  ASSUME ShopInv, TypeOK', NEW r \in Requests, LockTeam(r)
  PROVE  ShopInv'
<1>1. (\A g \in Hints : OnSaleOK(g)') /\ PaidIsOwned'
  BY DEF ShopInv, OnSaleOK, PaidIsOwned, LockTeam, shop
<1>2. ASSUME NEW q \in Requests PROVE OrderOK(q)' /\ TeamHeld(q)' /\ NotYetOwned(q)'
  <2>1. CASE EndUnlock(r) /\ UNCHANGED lock
    BY <2>1, EndKeepsRequests DEF LockTeam, shop, NotYetOwned
  <2>2. CASE /\ lock' = [lock EXCEPT ![req[r].team] = r]
             /\ pc' = [pc EXCEPT ![r] = "check"] /\ UNCHANGED <<req, copy>>
    <3>1. OrderOK(q)'
      <4>1. pc'[q] # "idle" => pc[q] # "idle"
        BY <2>2 DEF ShopInv, TypeOK, LockTeam
      <4> QED
        BY <2>2, <4>1 DEF ShopInv, OrderOK, LockTeam, shop
    <3>2. TeamHeld(q)'
      <4>1. CASE q = r
        BY <2>2, <4>1, Rows DEF ShopInv, TypeOK, TeamHeld
      <4>2. CASE q # r
        <5>1. pc'[q] = pc[q] /\ req'[q] = req[q] /\ req[q].team \in Teams
          BY <2>2, <4>2, Rows DEF ShopInv, TypeOK
        <5>2. lock[req[q].team] = q => req[q].team # req[r].team
          BY Rows DEF ShopInv, LockTeam, TeamFree
        <5>3. lock[req[q].team] = q => lock'[req[q].team] = q
          BY <2>2, <5>1, <5>2 DEF ShopInv, TypeOK
        <5> QED
          BY <5>1, <5>3 DEF ShopInv, TeamHeld
      <4> QED
        BY <4>1, <4>2
    <3>3. NotYetOwned(q)'
      <4>1. pc'[q] = "insert" => pc[q] = "insert"
        BY <2>2 DEF ShopInv, TypeOK
      <4> QED
        BY <2>2, <4>1 DEF ShopInv, NotYetOwned, LockTeam, shop
    <3> QED
      BY <3>1, <3>2, <3>3
  <2> QED
    BY <2>1, <2>2 DEF LockTeam
<1> QED
  BY <1>1, <1>2 DEF ShopInv

LEMMA CheckUnlockKeepsShop ==
  ASSUME ShopInv, TypeOK', NEW r \in Requests, CheckUnlock(r)
  PROVE  ShopInv'
<1>1. (\A g \in Hints : OnSaleOK(g)') /\ PaidIsOwned'
  BY DEF ShopInv, OnSaleOK, PaidIsOwned, CheckUnlock, shop
<1>2. ASSUME NEW q \in Requests PROVE OrderOK(q)' /\ TeamHeld(q)' /\ NotYetOwned(q)'
  <2>1. CASE EndUnlock(r) /\ Release(r)
    BY <2>1, EndKeepsRequests DEF CheckUnlock, shop, NotYetOwned
  <2>2. CASE /\ <<req[r].team, req[r].hint>> \notin unlocked
             /\ pc' = [pc EXCEPT ![r] = "insert"] /\ UNCHANGED <<req, copy, lock>>
    <3>1. pc[r] = "check" /\ UNCHANGED <<hint, asked, unlocked>>
      BY DEF CheckUnlock, shop
    <3>2. pc'[q] # "idle" => pc[q] # "idle"
      BY <2>2, <3>1 DEF ShopInv, TypeOK
    <3>3. pc'[q] \in {"check", "insert"} => pc[q] \in {"check", "insert"}
      BY <2>2, <3>1 DEF ShopInv, TypeOK
    <3>4. pc'[q] = "insert" => q = r \/ pc[q] = "insert"
      BY <2>2, <3>1 DEF ShopInv, TypeOK
    <3>5. OrderOK(q) /\ TeamHeld(q) /\ NotYetOwned(q)
      BY DEF ShopInv
    <3> QED
      BY <2>2, <3>1, <3>2, <3>3, <3>4, <3>5 DEF OrderOK, TeamHeld, NotYetOwned
  <2> QED
    BY <2>1, <2>2 DEF CheckUnlock
<1> QED
  BY <1>1, <1>2 DEF ShopInv

LEMMA InsertUnlockKeepsShop ==
  ASSUME ShopInv, TypeOK', NEW r \in Requests, InsertUnlock(r)
  PROVE  ShopInv'
<1> DEFINE t == req[r].team
           h == req[r].hint
<1>1. UNCHANGED <<hint, asked>> /\ pc[r] = "insert" /\ EndUnlock(r) /\ Release(r)
  BY DEF InsertUnlock
<1>2. \A g \in Hints : OnSaleOK(g)'
  BY <1>1 DEF ShopInv, OnSaleOK
<1>3. t \in Teams /\ h \in Hints /\ TeamHeld(r)
  BY Rows DEF ShopInv
<1>4. unlocked' \in {unlocked, unlocked \cup {<<t, h>>}}
  BY DEF InsertUnlock
<1>5. PaidIsOwned'
  <2>1. CASE UNCHANGED <<paid, unlocked>>
    BY <1>1, <2>1 DEF ShopInv, PaidIsOwned
  <2>2. CASE /\ paid' = [paid EXCEPT ![t][h] = @ + Charge(copy[r])]
             /\ unlocked' = unlocked \cup {<<t, h>>}
    <3> SUFFICES ASSUME NEW u \in Teams, NEW g \in Hints, <<u, g>> # <<t, h>>
                 PROVE  paid'[u][g] = paid[u][g]
      BY <1>1, <2>2 DEF ShopInv, PaidIsOwned
    <3> HIDE DEF t, h
    <3> QED
      BY <1>3, <2>2 DEF ShopInv, TypeOK
  <2> QED
    BY <2>1, <2>2 DEF InsertUnlock
<1>6. ASSUME NEW q \in Requests \ {r}, NotYetOwned(q), pc[q] = "insert"
      PROVE  <<req[q].team, req[q].hint>> \notin unlocked'
  <2>1. lock[req[q].team] = q
    BY <1>6 DEF ShopInv, TeamHeld
  <2>2. req[q].team # t
    BY <1>1, <1>3, <2>1 DEF TeamHeld
  <2> QED
    BY <1>4, <1>6, <2>2 DEF NotYetOwned
<1>7. \A q \in Requests : OrderOK(q)' /\ TeamHeld(q)' /\ NotYetOwned(q)'
  BY <1>1, <1>6, EndKeepsRequests
<1> QED
  BY <1>2, <1>5, <1>7 DEF ShopInv

LEMMA FailUnlockKeepsShop ==
  ASSUME ShopInv, TypeOK', NEW r \in Requests, FailUnlock(r)
  PROVE  ShopInv'
<1>1. (\A g \in Hints : OnSaleOK(g)') /\ PaidIsOwned'
  BY DEF ShopInv, OnSaleOK, PaidIsOwned, FailUnlock, shop
<1>2. \A q \in Requests : OrderOK(q)' /\ TeamHeld(q)' /\ NotYetOwned(q)'
  BY EndKeepsRequests DEF FailUnlock, shop, NotYetOwned
<1> QED
  BY <1>1, <1>2 DEF ShopInv

(* An administrator's step on a hint. *)
LEMMA EditKeepsShop ==
  ASSUME ShopInv, TypeOK', NEW h \in Hints,
         DeleteHint(h) \/ \E k \in Costs : CreateHint(h, k) \/ UpdateHint(h, k)
  PROVE  ShopInv'
<1>1. /\ UNCHANGED requests
      /\ \A g \in Hints \ {h} : hint'[g] = hint[g] /\ asked'[g] = asked[g]
      /\ hint[h].state = "none" => hint'[h].state = "live" /\ unlocked' = unlocked
      /\ hint[h].state # "none" => hint[h].state = "live"
      /\ \/ /\ hint'[h].state = "live" /\ hint'[h].cost \in asked'[h]
            /\ asked[h] \subseteq asked'[h] /\ unlocked' = unlocked
         \/ /\ hint'[h].state = "gone" /\ asked'[h] = {}
            /\ unlocked' = {o \in unlocked : o[2] # h}
      /\ UNCHANGED paid
  <2>1. CASE DeleteHint(h)
    BY <2>1 DEF ShopInv, TypeOK, DeleteHint, Remove
  <2>2. ASSUME NEW k \in Costs, CreateHint(h, k) PROVE <1>1!:
    BY <2>2 DEF ShopInv, TypeOK, OnSaleOK, CreateHint
  <2>3. ASSUME NEW k \in Costs, UpdateHint(h, k) PROVE <1>1!:
    BY <2>3 DEF ShopInv, TypeOK, HintRow, UpdateHint
  <2> QED
    BY <2>1, <2>2, <2>3
<1>2. \A g \in Hints : OnSaleOK(g)'
  BY <1>1 DEF ShopInv, OnSaleOK
<1>3. PaidIsOwned'
  BY <1>1 DEF ShopInv, PaidIsOwned
<1>4. ASSUME NEW q \in Requests PROVE OrderOK(q)' /\ TeamHeld(q)' /\ NotYetOwned(q)'
  <2>1. req[q].hint \in Hints /\ OrderOK(q) /\ TeamHeld(q) /\ NotYetOwned(q)
    BY Rows DEF ShopInv
  <2> QED
    BY <1>1, <2>1 DEF OrderOK, TeamHeld, NotYetOwned, requests
<1> QED
  BY <1>2, <1>3, <1>4 DEF ShopInv

LEMMA PointsKeepShop ==
  ASSUME ShopInv, TypeOK', PointsStep
  PROVE  ShopInv'
<1>1. UNCHANGED <<hint, asked, requests>>
  BY DEF PointsStep, HardDeleteTeam, CreateAward, DeleteChallenge, LockChallenge,
         RecordSolve, Reprice, shop, requests
<1>2. \/ UNCHANGED <<unlocked, paid>>
      \/ \E t \in Teams : /\ unlocked' = {o \in unlocked : o[1] # t}
                          /\ paid' = [paid EXCEPT ![t] = [h \in Hints |-> 0]]
  BY DEF PointsStep, HardDeleteTeam, CreateAward, DeleteChallenge, LockChallenge,
         RecordSolve, Reprice, shop
<1>3. PaidIsOwned'
  BY <1>1, <1>2 DEF ShopInv, TypeOK, PaidIsOwned
<1>4. unlocked' \subseteq unlocked
  BY <1>2
<1> QED
  BY <1>1, <1>3, <1>4 DEF ShopInv, OnSaleOK, OrderOK, TeamHeld, NotYetOwned, requests

LEMMA ShopInvStep == ShopInv /\ [Next]_vars => ShopInv'
<1> SUFFICES ASSUME ShopInv, [Next]_vars PROVE ShopInv'
  OBVIOUS
<1>1. TypeOK'
  BY NextTyped DEF ShopInv
<1>2. CASE UNCHANGED vars
  BY <1>1, <1>2 DEF ShopInv, OnSaleOK, PaidIsOwned, OrderOK, TeamHeld, NotYetOwned, vars
<1> QED
  BY <1>1, <1>2, ReadHintKeepsShop, LockTeamKeepsShop, CheckUnlockKeepsShop,
     InsertUnlockKeepsShop, FailUnlockKeepsShop, EditKeepsShop, PointsKeepShop
  DEF Next, UnlockStep, PointsStep

LEMMA InitShopInv == Init => ShopInv
<1> SUFFICES ASSUME Init PROVE ShopInv
  OBVIOUS
<1>1. TypeOK
  BY InitTypeOK
<1> QED
  BY <1>1 DEF Init, ShopInv, OnSaleOK, PaidIsOwned, OrderOK, TeamHeld, NotYetOwned

(* While a request is between its check and its inserts its team's row is    *)
(* its own and the hint is not yet the team's; what was paid is owned.       *)
THEOREM ShopInvHolds == Spec => []ShopInv
<1> QED
  BY InitShopInv, ShopInvStep, PTL DEF Spec

(* Steps of the program as steps of the shop. *)
LEMMA InsertUnlockBuys ==
  ASSUME ShopInv, NEW r \in Requests, InsertUnlock(r)
  PROVE  [Shop!Next]_(Shop!vars)
<1> DEFINE t == req[r].team
           h == req[r].hint
<1>1. CASE UNCHANGED <<paid, unlocked>>
  BY <1>1 DEF InsertUnlock, Shop!vars
<1>2. CASE /\ hint[h].state = "live"
           /\ paid' = [paid EXCEPT ![t][h] = @ + Charge(copy[r])]
           /\ unlocked' = unlocked \cup {<<t, h>>}
  <2>1. t \in Teams /\ h \in Hints /\ copy[r] \in Int
    BY Rows DEF ShopInv
  <2>2. copy[r] \in asked[h] /\ <<t, h>> \notin unlocked
    BY <1>2 DEF ShopInv, OrderOK, NotYetOwned, InsertUnlock
  <2>3. paid[t][h] = 0
    BY <1>2, <2>1, <2>2 DEF ShopInv, PaidIsOwned
  <2>4. Charge(copy[r]) = Shop!Due(copy[r]) /\ Charge(copy[r]) \in Int
    <3>1. ASSUME NEW k \in Int PROVE Charge(k) = Shop!Due(k) /\ Charge(k) \in Int
      BY <3>1 DEF Charge, Shop!Due
    <3> QED
      BY <2>1, <3>1
  <2> HIDE DEF t, h
  <2>5. paid' = [paid EXCEPT ![t][h] = Shop!Due(copy[r])]
    <3>1. paid[t][h] + Charge(copy[r]) = Shop!Due(copy[r])
      BY <2>3, <2>4
    <3> QED
      BY <1>2, <2>1, <3>1 DEF ShopInv, TypeOK
  <2>6. Shop!Buy(t, h, copy[r])
    BY <1>2, <2>2, <2>5 DEF Shop!Buy, InsertUnlock
  <2> QED
    BY <2>1, <2>2, <2>6 DEF Shop!Next
<1> QED
  BY <1>1, <1>2 DEF InsertUnlock

LEMMA EditIsShopStep ==
  ASSUME ShopInv, NEW h \in Hints,
         DeleteHint(h) \/ \E k \in Costs : CreateHint(h, k) \/ UpdateHint(h, k)
  PROVE  Shop!Next
<1>1. CASE DeleteHint(h)
  <2>1. asked' = [g \in Hints |-> IF g \in {h} THEN {} ELSE asked[g]]
    BY <1>1 DEF ShopInv, TypeOK, DeleteHint, Remove
  <2>2. Shop!Withdraw({h})
    BY <1>1, <2>1 DEF Shop!Withdraw, DeleteHint, Remove
  <2> QED
    BY <2>2 DEF Shop!Next
<1>2. ASSUME NEW k \in Costs, CreateHint(h, k) PROVE Shop!Next
  <2>1. asked[h] = {}
    BY <1>2 DEF ShopInv, OnSaleOK, CreateHint
  <2>2. Shop!Offer(h, k)
    BY <1>2, <2>1 DEF Shop!Offer, CreateHint
  <2> QED
    BY <2>2 DEF Shop!Next
<1>3. ASSUME NEW k \in Costs, UpdateHint(h, k) PROVE Shop!Next
  <2>1. Shop!Offer(h, k)
    BY <1>3 DEF Shop!Offer, UpdateHint
  <2> QED
    BY <2>1 DEF Shop!Next
<1> QED
  BY <1>1, <1>2, <1>3

LEMMA PointsIsShopStep ==
  ASSUME PointsStep
  PROVE  [Shop!Next]_(Shop!vars)
<1>1. ASSUME NEW t \in Teams, HardDeleteTeam(t) PROVE Shop!Next
  <2>1. Shop!Leave(t)
    BY <1>1 DEF HardDeleteTeam, Shop!Leave, Shop!Nothing
  <2> QED
    BY <2>1 DEF Shop!Next
<1> QED
  BY <1>1 DEF PointsStep, CreateAward, DeleteChallenge, LockChallenge, RecordSolve,
              Reprice, shop, Shop!vars

LEMMA StepIsShopStep ==
  ShopInv /\ [Next]_vars => [Shop!Next]_(Shop!vars)
<1> SUFFICES ASSUME ShopInv, [Next]_vars PROVE [Shop!Next]_(Shop!vars)
  OBVIOUS
<1>1. CASE UNCHANGED vars
  BY <1>1 DEF vars, Shop!vars
<1>2. ASSUME NEW r \in Requests,
             \/ \E t \in Teams, h \in Hints : ReadHint(r, t, h)
             \/ UnlockStep(r) \/ FailUnlock(r)
      PROVE  [Shop!Next]_(Shop!vars)
  <2>1. CASE InsertUnlock(r)
    BY <2>1, InsertUnlockBuys
  <2>2. CASE ~InsertUnlock(r)
    BY <1>2, <2>2 DEF UnlockStep, ReadHint, LockTeam, CheckUnlock, FailUnlock, shop,
                      Shop!vars
  <2> QED
    BY <2>1, <2>2
<1>3. CASE PointsStep
  BY <1>3, PointsIsShopStep
<1> QED
  BY <1>1, <1>2, <1>3, EditIsShopStep DEF Next, PointsStep

(* Unlocking implements the shop that sells each hint to a team once and     *)
(* takes one of its prices in the same step (UnlockHint, hint.go).           *)
THEOREM UnlockImplementsShop == Spec => ShopSpec
<1>1. Init => Shop!Init
  BY DEF Init, Shop!Init, Shop!Nothing
<1> QED
  BY <1>1, StepIsShopStep, ShopInvHolds, PTL DEF Spec, ShopSpec, Shop!Spec

-----------------------------------------------------------------------------
(* Scores.  What a request found affordable stays so until it pays, unless   *)
(* somebody lowers what the team has earned.                                 *)
Backed(t, n) == squeezed[t] \/ GetTeamScore(t) >= n

Covered(r) ==
  pc[r] = "insert" => copy[r] <= 0 \/ Backed(req[r].team, copy[r])

ScoreInv ==
  /\ ShopInv
  /\ \A t \in Teams : Backed(t, 0)
  /\ \A r \in Requests : Covered(r)

LEMMA EarnedIsSum ==
  ASSUME NEW t \in Teams
  PROVE  /\ Earned(t) = granted[t] + SumOver(worth, Solves(t))
         /\ Earned(t)' = granted'[t] + SumOver(worth', Solves(t)')
<1>1. Earned(t) = granted[t] + SumOver(worth, Solves(t))
  BY DEF Earned, SumOver
<1>2. Earned(t)' = granted'[t] + SumOver(worth', Solves(t)')
  BY DEF Earned, SumOver, MapThenSumSet, MapThenFoldSet
<1> QED
  BY <1>1, <1>2

LEMMA PaidIsSum ==
  ASSUME NEW t \in Teams
  PROVE  /\ Paid(t) = SumOver(paid[t], Hints)
         /\ Paid(t)' = SumOver(paid'[t], Hints)
<1>1. Paid(t) = SumOver(paid[t], Hints)
  BY DEF Paid, SumOver
<1>2. Paid(t)' = SumOver(paid'[t], Hints)
  BY DEF Paid, SumOver, MapThenSumSet, MapThenFoldSet
<1> QED
  BY <1>1, <1>2

LEMMA ScoresAreIntegers ==
  ASSUME TypeOK, TypeOK', NEW t \in Teams
  PROVE  /\ Earned(t) \in Int /\ Earned(t)' \in Int
         /\ Paid(t) \in Int /\ Paid(t)' \in Int
<1>1. IsFiniteSet(Solves(t)) /\ IsFiniteSet(Solves(t)')
  BY TablesFinite, FS_Subset DEF Solves
<1>2. Solves(t) \subseteq Challenges /\ Solves(t)' \subseteq Challenges
  BY DEF Solves
<1>3. /\ \A c \in Challenges : worth[c] \in Int /\ worth'[c] \in Int
      /\ \A h \in Hints : paid[t][h] \in Int /\ paid'[t][h] \in Int
      /\ granted[t] \in Int /\ granted'[t] \in Int
  <2>1. \A c \in Challenges : worth[c] \in Int /\ worth'[c] \in Int
    <3>1. Prices \cup {-1} \subseteq Int
      BY Amounts
    <3>2. \A c \in Challenges : worth[c] \in Prices \cup {-1} /\ worth'[c] \in Prices \cup {-1}
      BY DEF TypeOK
    <3> QED
      BY <3>1, <3>2
  <2>2. \A h \in Hints : paid[t][h] \in Int /\ paid'[t][h] \in Int
    BY DEF TypeOK
  <2>3. granted[t] \in Int /\ granted'[t] \in Int
    BY Amounts DEF TypeOK
  <2> QED
    BY <2>1, <2>2, <2>3
<1>4. SumOver(worth, Solves(t)) \in Int /\ SumOver(worth', Solves(t)') \in Int
  BY <1>1, <1>2, <1>3, SumInt
<1>5. SumOver(paid[t], Hints) \in Int /\ SumOver(paid'[t], Hints) \in Int
  BY <1>3, TablesFinite, SumInt
<1> QED
  BY <1>3, <1>4, <1>5, EarnedIsSum, PaidIsSum

LEMMA ScoreIsInteger ==
  ASSUME TypeOK, NEW t \in Teams
  PROVE  GetTeamScore(t) \in Int
<1>1. IsFiniteSet(Solves(t)) /\ Solves(t) \subseteq Challenges
  BY TablesFinite, FS_Subset DEF Solves
<1>2. /\ \A c \in Challenges : worth[c] \in Int
      /\ \A h \in Hints : paid[t][h] \in Int
      /\ granted[t] \in Int
  <2>1. Prices \cup {-1} \subseteq Int
    BY Amounts
  <2>2. \A c \in Challenges : worth[c] \in Prices \cup {-1}
    BY DEF TypeOK
  <2>3. (\A h \in Hints : paid[t][h] \in Nat) /\ granted[t] \in -MaxGranted..MaxGranted
    BY DEF TypeOK
  <2>4. \A c \in Challenges : worth[c] \in Int
    BY <2>1, <2>2
  <2>5. (\A h \in Hints : paid[t][h] \in Int) /\ granted[t] \in Int
    BY <2>3, Amounts
  <2> QED
    BY <2>4, <2>5
<1>3. SumOver(worth, Solves(t)) \in Int /\ SumOver(paid[t], Hints) \in Int
  BY <1>1, <1>2, TablesFinite, SumInt
<1> QED
  BY <1>2, <1>3, EarnedIsSum, PaidIsSum DEF GetTeamScore

LEMMA ScoreIs ==
  ASSUME NEW t \in Teams
  PROVE  /\ GetTeamScore(t) = Earned(t) - Paid(t)
         /\ GetTeamScore(t)' = Earned(t)' - Paid(t)'
BY DEF GetTeamScore

(* A step that takes nothing from a team and marks it when it earns less     *)
(* leaves its points as backed as they were.                                 *)
LEMMA BackedKept ==
  ASSUME TypeOK, TypeOK', NEW t \in Teams, NEW n \in Int,
         paid'[t] = paid[t],
         squeezed[t] => squeezed'[t],
         squeezed'[t] \/ Earned(t)' >= Earned(t),
         Backed(t, n)
  PROVE  Backed(t, n)'
<1>1. Paid(t)' = Paid(t)
  BY PaidIsSum
<1>2. GetTeamScore(t) >= n /\ Earned(t)' >= Earned(t) => GetTeamScore(t)' >= n
  BY <1>1, ScoresAreIntegers, ScoreIs
<1> QED
  BY <1>2, Zenon DEF Backed

(* A team whose solves, prices and awards stay has the same earnings. *)
LEMMA EarnedKept ==
  ASSUME TypeOK, TypeOK', UNCHANGED <<granted, worth, solved>>, NEW t \in Teams
  PROVE  Earned(t)' >= Earned(t)
<1>1. Solves(t)' = Solves(t)
  BY DEF Solves
<1>2. Earned(t)' = Earned(t)
  BY <1>1, EarnedIsSum
<1> QED
  BY <1>2, ScoresAreIntegers

(* Steps of the requests before they pay. *)
LEMMA BoardKept ==
  ASSUME ScoreInv, ShopInv', UNCHANGED board, UNCHANGED paid,
         NEW t \in Teams, NEW n \in Int, Backed(t, n)
  PROVE  Backed(t, n)'
<1>1. UNCHANGED <<granted, worth, solved>> /\ squeezed' = squeezed
  BY DEF board
<1>2. Earned(t)' >= Earned(t)
  BY <1>1, EarnedKept DEF ScoreInv, ShopInv
<1> QED
  BY <1>1, <1>2, BackedKept DEF ScoreInv, ShopInv

LEMMA RequestKeepsScores ==
  ASSUME ScoreInv, ShopInv', NEW r \in Requests,
         \/ \E t \in Teams, h \in Hints : ReadHint(r, t, h)
         \/ LockTeam(r) \/ CheckUnlock(r) \/ FailUnlock(r)
  PROVE  ScoreInv'
<1>1. UNCHANGED board /\ UNCHANGED paid
  BY DEF ReadHint, LockTeam, CheckUnlock, FailUnlock, shop
<1>2. \A t \in Teams : Backed(t, 0)'
  BY <1>1, BoardKept DEF ScoreInv
<1>3. ASSUME NEW q \in Requests, pc'[q] = "insert"
      PROVE  Covered(q)'
  <2>1. /\ req'[q] = req[q] /\ copy'[q] = copy[q]
        /\ pc[q] = "insert" \/ (q = r /\ CheckUnlock(r) /\ Affordable(req[r].team, copy[r]))
    <3>1. CASE \E t \in Teams, h \in Hints : ReadHint(r, t, h)
      BY <1>3, <3>1 DEF ShopInv, ScoreInv, TypeOK, ReadHint
    <3>2. CASE LockTeam(r)
      BY <1>3, <3>2 DEF ShopInv, ScoreInv, TypeOK, LockTeam, EndUnlock
    <3>3. CASE CheckUnlock(r)
      BY <1>3, <3>3 DEF ShopInv, ScoreInv, TypeOK, CheckUnlock, EndUnlock
    <3>4. CASE FailUnlock(r)
      BY <1>3, <3>4 DEF ShopInv, ScoreInv, TypeOK, FailUnlock, EndUnlock
    <3> QED
      BY <3>1, <3>2, <3>3, <3>4
  <2>2. PICK t \in Teams, n \in Int : t = req[q].team /\ n = copy[q]
    BY Rows DEF ShopInv, ScoreInv
  <2>3. n <= 0 \/ Backed(t, n)
    BY <2>1, <2>2 DEF ScoreInv, Covered, Affordable, Backed
  <2>4. n <= 0 \/ Backed(t, n)'
    BY <1>1, <2>3, BoardKept
  <2> QED
    BY <2>1, <2>2, <2>4 DEF Covered, Backed
<1>4. \A q \in Requests : Covered(q)'
  BY <1>3 DEF Covered
<1> QED
  BY <1>2, <1>4 DEF ScoreInv

(* The award that pays for a hint takes the price that was found affordable, *)
(* and nobody else is about to pay from the same team.                       *)
LEMMA InsertKeepsScores ==
  ASSUME ScoreInv, ShopInv', NEW r \in Requests, InsertUnlock(r)
  PROVE  ScoreInv'
<1>1. PICK t \in Teams, h \in Hints, n \in Int :
        t = req[r].team /\ h = req[r].hint /\ n = copy[r]
  BY Rows DEF ScoreInv, ShopInv
<1>2. UNCHANGED board /\ pc[r] = "insert" /\ EndUnlock(r)
  BY DEF InsertUnlock
<1>3. UNCHANGED <<granted, worth, solved>> /\ squeezed' = squeezed
  BY <1>2 DEF board
<1>4. ASSUME NEW u \in Teams \ {t}, NEW m \in Int, Backed(u, m) PROVE Backed(u, m)'
  <2>1. paid'[u] = paid[u]
    BY <1>1 DEF InsertUnlock, ScoreInv, ShopInv, TypeOK
  <2>2. Earned(u)' >= Earned(u)
    BY <1>3, EarnedKept DEF ScoreInv, ShopInv
  <2> QED
    BY <1>3, <1>4, <2>1, <2>2, BackedKept DEF ScoreInv, ShopInv
<1>5. Backed(t, 0)'
  <2>1. Earned(t)' >= Earned(t)
    BY <1>3, EarnedKept DEF ScoreInv, ShopInv
  <2>2. CASE paid' = paid
    BY <1>3, <2>1, <2>2, BackedKept DEF ScoreInv, ShopInv
  <2>3. CASE paid' = [paid EXCEPT ![t][h] = @ + Charge(n)]
    <3>1. Charge(n) = IF n > 0 THEN n ELSE 0
      BY DEF Charge
    <3>2. /\ paid'[t][h] = paid[t][h] + Charge(n)
          /\ \A g \in Hints : g # h => paid'[t][g] = paid[t][g]
          /\ \A g \in Hints : paid[t][g] \in Int /\ paid'[t][g] \in Int
      BY <2>3 DEF ScoreInv, ShopInv, TypeOK
    <3>3. Paid(t)' = Paid(t) + (paid'[t][h] - paid[t][h])
      BY <3>2, PaidIsSum, SumChange, TablesFinite
    <3>4. Paid(t)' = Paid(t) + Charge(n)
      BY <3>1, <3>2, <3>3, ScoresAreIntegers DEF ScoreInv, ShopInv
    <3>5. Backed(t, 0) /\ (n <= 0 \/ Backed(t, n))
      BY <1>1, <1>2 DEF ScoreInv, Covered
    <3>6. \/ squeezed[t]
          \/ GetTeamScore(t) >= Charge(n)
      BY <3>1, <3>5 DEF Backed
    <3>7. GetTeamScore(t) >= Charge(n) => GetTeamScore(t)' >= 0
      BY <2>1, <3>1, <3>4, ScoresAreIntegers, ScoreIs DEF ScoreInv, ShopInv
    <3> QED
      BY <1>3, <3>6, <3>7 DEF Backed
  <2> QED
    BY <1>1, <2>2, <2>3 DEF InsertUnlock
<1>6. ASSUME NEW q \in Requests, pc'[q] = "insert" PROVE Covered(q)'
  <2>1. q # r /\ pc[q] = "insert" /\ req'[q] = req[q] /\ copy'[q] = copy[q]
    BY <1>2, <1>6 DEF ScoreInv, ShopInv, TypeOK, EndUnlock
  <2>2. PICK u \in Teams, m \in Int : u = req[q].team /\ m = copy[q]
    BY Rows DEF ScoreInv, ShopInv
  <2>3. u # t
    BY <1>1, <1>2, <2>1, <2>2 DEF ScoreInv, ShopInv, TeamHeld
  <2>4. m <= 0 \/ Backed(u, m)
    BY <2>1, <2>2 DEF ScoreInv, Covered
  <2>5. m <= 0 \/ Backed(u, m)'
    BY <1>4, <2>3, <2>4
  <2> QED
    BY <2>1, <2>2, <2>5 DEF Covered, Backed
<1>7. \A q \in Requests : Covered(q)'
  BY <1>6 DEF Covered
<1>8. \A u \in Teams : Backed(u, 0)'
  BY <1>4, <1>5 DEF ScoreInv
<1> QED
  BY <1>7, <1>8 DEF ScoreInv

LEMMA EditKeepsScores ==
  ASSUME ScoreInv, ShopInv', NEW h \in Hints,
         DeleteHint(h) \/ \E k \in Costs : CreateHint(h, k) \/ UpdateHint(h, k)
  PROVE  ScoreInv'
<1>1. UNCHANGED <<paid, board, requests>>
  BY DEF DeleteHint, CreateHint, UpdateHint
<1>2. ASSUME NEW t \in Teams, NEW n \in Int, Backed(t, n) PROVE Backed(t, n)'
  BY <1>1, <1>2, BoardKept
<1>3. ASSUME NEW q \in Requests PROVE Covered(q)'
  <2>1. PICK t \in Teams, n \in Int : t = req[q].team /\ n = copy[q]
    BY Rows DEF ShopInv, ScoreInv
  <2>2. Covered(q) /\ UNCHANGED <<pc, req, copy>>
    BY <1>1 DEF ScoreInv, requests
  <2> QED
    BY <1>2, <2>1, <2>2 DEF Covered, Backed
<1> QED
  BY <1>2, <1>3 DEF ScoreInv

(* Whoever lowers what a team has earned marks it; a team that is removed,   *)
(* which nobody is unlocking for, has nothing and owes nothing.              *)
LEMMA PointsKeepScores ==
  ASSUME ScoreInv, ShopInv', PointsStep
  PROVE  ScoreInv'
<1> USE DEF ScoreInv
<1>1. UNCHANGED requests
  BY DEF PointsStep, HardDeleteTeam, CreateAward, DeleteChallenge, LockChallenge,
         RecordSolve, Reprice, requests
<1>2. ASSUME NEW t \in Teams
      PROVE  /\ squeezed[t] => squeezed'[t]
             /\ squeezed'[t] \/ Earned(t)' >= Earned(t)
  <2>1. CASE NoteFall
    <3>1. squeezed'[t] = (squeezed[t] \/ Earned(t)' < Earned(t))
      BY <2>1 DEF NoteFall
    <3>2. Earned(t)' < Earned(t) \/ Earned(t)' >= Earned(t)
      BY ScoresAreIntegers DEF ShopInv
    <3> QED
      BY <3>1, <3>2
  <2>2. CASE UNCHANGED <<granted, worth, solved, squeezed>>
    BY <2>2, EarnedKept DEF ShopInv
  <2> QED
    BY <2>1, <2>2 DEF PointsStep, HardDeleteTeam, CreateAward, DeleteChallenge,
         LockChallenge, RecordSolve, Reprice
<1>3. ASSUME NEW t \in Teams, NEW n \in Int, paid'[t] = paid[t], Backed(t, n)
      PROVE  Backed(t, n)'
  BY <1>2, <1>3, BackedKept DEF ShopInv
<1>4. ASSUME NEW t \in Teams, paid'[t] # paid[t]
      PROVE  lock[t] = NoRequest /\ Backed(t, 0)'
  <2>1. HardDeleteTeam(t)
    <3>1. ASSUME NEW u \in Teams, HardDeleteTeam(u) PROVE u = t
      BY <1>4, <3>1 DEF ShopInv, TypeOK, HardDeleteTeam
    <3>2. CASE UNCHANGED paid
      BY <1>4, <3>2
    <3> QED
      BY <3>1, <3>2 DEF PointsStep, CreateAward, DeleteChallenge, LockChallenge,
                        RecordSolve, Reprice, shop
  <2>2. Earned(t)' = 0
    <3>1. granted'[t] = 0 /\ Solves(t)' = {}
      BY <2>1 DEF ShopInv, TypeOK, HardDeleteTeam, Solves
    <3>2. SumOver(worth', {}) = 0
      BY FS_EmptySet, SumUnfold
    <3> QED
      BY <3>1, <3>2, EarnedIsSum
  <2>3. Paid(t)' = 0
    <3>1. \A h \in Hints : paid'[t][h] = 0
      BY <2>1 DEF ShopInv, TypeOK, HardDeleteTeam
    <3> QED
      BY <3>1, PaidIsSum, SumZero, TablesFinite
  <2> QED
    BY <2>1, <2>2, <2>3, ScoreIs DEF HardDeleteTeam, TeamFree, Backed
<1>5. ASSUME NEW q \in Requests PROVE Covered(q)'
  <2>1. PICK t \in Teams, n \in Int : t = req[q].team /\ n = copy[q]
    BY Rows DEF ShopInv
  <2>2. Covered(q) /\ TeamHeld(q) /\ UNCHANGED <<pc, req, copy>>
    BY <1>1 DEF ShopInv, requests
  <2>3. CASE paid'[t] = paid[t]
    BY <1>3, <2>1, <2>2, <2>3 DEF Covered, Backed
  <2>4. CASE paid'[t] # paid[t]
    BY <1>4, <2>1, <2>2, <2>4, NamesDiffer DEF Covered, TeamHeld
  <2> QED
    BY <2>3, <2>4
<1> QED
  BY <1>3, <1>4, <1>5

LEMMA ScoreInvStep == ScoreInv /\ [Next]_vars => ScoreInv'
<1> SUFFICES ASSUME ScoreInv, [Next]_vars PROVE ScoreInv'
  OBVIOUS
<1>1. ShopInv'
  BY ShopInvStep DEF ScoreInv
<1>2. CASE UNCHANGED vars
  <2>1. UNCHANGED <<paid, board, requests>>
    BY <1>2 DEF vars, board, requests
  <2>2. ASSUME NEW t \in Teams, NEW n \in Int, Backed(t, n) PROVE Backed(t, n)'
    BY <1>1, <2>1, <2>2, BoardKept
  <2>3. ASSUME NEW q \in Requests PROVE Covered(q)'
    <3>1. PICK t \in Teams, n \in Int : t = req[q].team /\ n = copy[q]
      BY Rows DEF ShopInv, ScoreInv
    <3> QED
      BY <2>1, <2>2, <3>1 DEF ScoreInv, Covered, Backed, requests
  <2> QED
    BY <1>1, <2>2, <2>3 DEF ScoreInv
<1> QED
  BY <1>1, <1>2, RequestKeepsScores, InsertKeepsScores, EditKeepsScores,
     PointsKeepScores DEF Next, UnlockStep, PointsStep

LEMMA InitScoreInv == Init => ScoreInv
<1> SUFFICES ASSUME Init PROVE ScoreInv
  OBVIOUS
<1>1. ShopInv
  BY InitShopInv
<1>2. ASSUME NEW t \in Teams PROVE GetTeamScore(t) = 0
  <2>1. Solves(t) = {} /\ granted[t] = 0 /\ \A h \in Hints : paid[t][h] = 0
    BY DEF Init, Solves
  <2>2. SumOver(worth, {}) = 0 /\ SumOver(paid[t], Hints) = 0
    BY <2>1, FS_EmptySet, SumUnfold, SumZero, TablesFinite
  <2> QED
    BY <2>1, <2>2, EarnedIsSum, PaidIsSum, ScoreIs
<1>3. \A t \in Teams : Backed(t, 0)
  BY <1>2 DEF Backed
<1>4. \A r \in Requests : Covered(r)
  BY DEF Init, Covered
<1> QED
  BY <1>1, <1>3, <1>4 DEF ScoreInv

(* Unlocking hints alone never takes a team below zero (hint_race_test.go):  *)
(* where a score is negative, earned points were lowered by somebody else.   *)
THEOREM UnlocksNeverOverdraw == Spec => []OnlySqueezedOverdraw
<1>1. ScoreInv => OnlySqueezedOverdraw
  <2> SUFFICES ASSUME ScoreInv, NEW t \in Teams, GetTeamScore(t) < 0
               PROVE  squeezed[t]
    BY DEF OnlySqueezedOverdraw
  <2>1. GetTeamScore(t) \in Int
    BY ScoreIsInteger DEF ScoreInv, ShopInv
  <2> QED
    BY <2>1 DEF ScoreInv, Backed
<1> QED
  BY <1>1, InitScoreInv, ScoreInvStep, PTL DEF Spec
-----------------------------------------------------------------------------
(* Waiting for a teams row.  Whoever holds one is past the wait.             *)
HoldersGoOn == \A t \in Teams : lock[t] # NoRequest => pc[lock[t]] \in {"check", "insert"}

LEMMA EndKeepsHolders ==
  ASSUME TypeOK, HoldersGoOn, NEW r \in Requests, EndUnlock(r),
         Release(r) \/ (pc[r] = "lock" /\ UNCHANGED lock)
  PROVE  HoldersGoOn'
<1> SUFFICES ASSUME NEW t \in Teams, lock'[t] # NoRequest
             PROVE  pc'[lock'[t]] \in {"check", "insert"}
  BY DEF HoldersGoOn
<1>1. lock'[t] = lock[t] /\ lock[t] \in Requests /\ lock[t] # r
  BY NamesDiffer DEF Release, TypeOK, HoldersGoOn
<1>2. pc'[lock[t]] = pc[lock[t]]
  BY <1>1 DEF EndUnlock, TypeOK
<1> QED
  BY <1>1, <1>2 DEF HoldersGoOn

LEMMA HoldersStep == TypeOK /\ HoldersGoOn /\ [Next]_vars => HoldersGoOn'
<1> SUFFICES ASSUME TypeOK, HoldersGoOn, [Next]_vars PROVE HoldersGoOn'
  OBVIOUS
<1>1. \A t \in Teams : lock[t] \in Requests \cup {NoRequest}
  BY DEF TypeOK
<1>2. ASSUME NEW r \in Requests, NEW t \in Teams, NEW h \in Hints, ReadHint(r, t, h)
      PROVE  HoldersGoOn'
  <2>1. lock' = lock /\ pc[r] = "idle" /\ pc' = [pc EXCEPT ![r] = "lock"]
    BY <1>2 DEF ReadHint
  <2>2. \A q \in Requests \ {r} : pc'[q] = pc[q]
    BY <2>1 DEF TypeOK
  <2> QED
    BY <1>1, <2>1, <2>2 DEF HoldersGoOn
<1>3. ASSUME NEW r \in Requests, LockTeam(r) PROVE HoldersGoOn'
  <2>1. CASE EndUnlock(r) /\ UNCHANGED lock
    BY <1>3, <2>1, EndKeepsHolders DEF LockTeam
  <2>2. CASE lock' = [lock EXCEPT ![req[r].team] = r] /\ pc' = [pc EXCEPT ![r] = "check"]
    <3>1. pc'[r] = "check" /\ \A q \in Requests \ {r} : pc'[q] = pc[q]
      BY <2>2 DEF TypeOK
    <3>2. \A t \in Teams : lock'[t] \in {lock[t], r}
      BY <2>2 DEF TypeOK
    <3> QED
      BY <1>1, <3>1, <3>2 DEF HoldersGoOn
  <2> QED
    BY <1>3, <2>1, <2>2 DEF LockTeam
<1>4. ASSUME NEW r \in Requests, CheckUnlock(r) PROVE HoldersGoOn'
  <2>1. CASE EndUnlock(r) /\ Release(r)
    BY <2>1, EndKeepsHolders
  <2>2. CASE lock' = lock /\ pc' = [pc EXCEPT ![r] = "insert"]
    <3>1. pc'[r] = "insert" /\ \A q \in Requests \ {r} : pc'[q] = pc[q]
      BY <2>2 DEF TypeOK
    <3> QED
      BY <1>1, <2>2, <3>1 DEF HoldersGoOn
  <2> QED
    BY <1>4, <2>1, <2>2 DEF CheckUnlock
<1>5. ASSUME NEW r \in Requests, InsertUnlock(r) \/ FailUnlock(r) PROVE HoldersGoOn'
  BY <1>5, EndKeepsHolders DEF InsertUnlock, FailUnlock
<1>6. CASE UNCHANGED requests
  BY <1>6 DEF requests, HoldersGoOn
<1>7. \/ \E r \in Requests :
           \/ \E t \in Teams, h \in Hints : ReadHint(r, t, h)
           \/ LockTeam(r) \/ CheckUnlock(r) \/ InsertUnlock(r) \/ FailUnlock(r)
      \/ UNCHANGED requests
  BY DEF Next, vars, requests, UnlockStep, DeleteHint, CreateHint, UpdateHint, HardDeleteTeam,
         CreateAward, DeleteChallenge, LockChallenge, RecordSolve, Reprice
<1> QED
  BY <1>2, <1>3, <1>4, <1>5, <1>6, <1>7

(* However many unlocks and submissions meet at a teams row: its holder can  *)
(* always go on, so that no circle of waiting sessions arises.               *)
THEOREM UnlocksNeverWaitInVain == Spec => []HeldRowsComeBack
<1>1. Init => HoldersGoOn
  BY DEF Init, HoldersGoOn
<1>2. ASSUME TypeOK, HoldersGoOn PROVE HeldRowsComeBack
  <2>1. ASSUME NEW t \in Teams PROVE TeamFree(t) \/ GoesOn(lock[t])
    BY <1>2, <2>1 DEF TeamFree, HoldersGoOn, GoesOn
  <2>2. ASSUME NEW r \in Requests, pc[r] # "idle" PROVE GoesOn(r) \/ GoesOn(lock[req[r].team])
    <3>1. pc[r] \in {"lock", "check", "insert"} /\ req[r].team \in Teams
      BY <1>2, <2>2, Rows DEF TypeOK
    <3>2. TeamFree(req[r].team) \/ GoesOn(lock[req[r].team])
      BY <2>1, <3>1
    <3> QED
      BY <3>1, <3>2 DEF GoesOn
  <2>3. ASSUME NEW c \in Challenges, solver[c] # NoTeam
        PROVE  TeamFree(solver[c]) \/ GoesOn(lock[solver[c]])
    BY <1>2, <2>1, <2>3 DEF TypeOK
  <2> QED
    BY <2>2, <2>3 DEF HeldRowsComeBack
<1> QED
  BY <1>1, <1>2, HoldersStep, InitTypeOK, NextTyped, PTL DEF Spec
=============================================================================
