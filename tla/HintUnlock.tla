----------------------------- MODULE HintUnlock -----------------------------
(* UnlockHint (internal/usecase/challenge/hint.go) under READ COMMITTED: the *)
(* hint is read before the transaction, the team's row is locked, the score  *)
(* is compared with the price that was read, and the charge is an award of   *)
(* the opposite sign.  Around it hints are edited and deleted, challenges    *)
(* are solved, repriced and deleted, and administrators give awards.         *)
EXTENDS Integers, FiniteSetsExt

CONSTANTS Teams, Hints, Challenges, Requests, NoRequest, NoTeam,
          Costs,      \* costs an administrator may give a hint
          Prices,     \* points a challenge may be worth
          Gifts,      \* values of an administrator's award
          MaxGranted  \* bound: awards of a team sum to at most this, either way

ASSUME HintEntities == Teams # {} /\ Hints # {} /\ Costs # {}
ASSUME TablesFinite == IsFiniteSet(Hints) /\ IsFiniteSet(Challenges)
ASSUME NamesDiffer == NoRequest \notin Requests /\ NoTeam \notin Teams
ASSUME Amounts == Costs \subseteq Int /\ Prices \subseteq Nat
                  /\ Gifts \subseteq Int \ {0} /\ MaxGranted \in Nat

VARIABLES hint,      \* hints table
          asked,     \* history: costs the hint has had while it is on sale
          unlocked,  \* hint_unlocks table
          paid,      \* awards UnlockHint wrote, summed by team and hint
          granted,   \* awards of administrators, summed by team
          worth,     \* challenges.points; -1 once deleted
          solved,    \* solves table
          exists,    \* teams rows that are there
          lock,      \* unlock request holding each teams row FOR UPDATE
          solver,    \* team whose submission holds each challenges row
          pc, req, copy,  \* step, arguments and hint row of each unlock
          squeezed   \* history: points of the team have ever gone down

shop == <<hint, asked, unlocked, paid>>
board == <<granted, worth, solved, exists, solver, squeezed>>
requests == <<lock, pc, req, copy>>
vars == <<hint, asked, unlocked, paid, granted, worth, solved, exists,
          lock, solver, pc, req, copy, squeezed>>

HintRow == [state : {"none", "live", "gone"}, cost : Costs]
Order == [team : Teams, hint : Hints]

TypeOK ==
  /\ hint \in [Hints -> HintRow]
  /\ asked \in [Hints -> SUBSET Costs]
  /\ unlocked \subseteq Teams \X Hints
  /\ paid \in [Teams -> [Hints -> Nat]]
  /\ granted \in [Teams -> -MaxGranted..MaxGranted]
  /\ worth \in [Challenges -> Prices \cup {-1}]
  /\ solved \subseteq Teams \X Challenges
  /\ exists \subseteq Teams
  /\ lock \in [Teams -> Requests \cup {NoRequest}]
  /\ solver \in [Challenges -> Teams \cup {NoTeam}]
  /\ pc \in [Requests -> {"idle", "lock", "check", "insert"}]
  /\ req \in [Requests -> Order]
  /\ copy \in [Requests -> Costs]
  /\ squeezed \in [Teams -> BOOLEAN]

Solves(t) == {c \in Challenges : <<t, c>> \in solved}

(* GetTeamScore: points of the solved challenges plus all awards.            *)
Earned(t) == granted[t] + MapThenSumSet(LAMBDA c : worth[c], Solves(t))
Paid(t) == MapThenSumSet(LAMBDA h : paid[t][h], Hints)
GetTeamScore(t) == Earned(t) - Paid(t)

AnyCost == CHOOSE k \in Costs : TRUE
NoOrder == [team |-> CHOOSE t \in Teams : TRUE, hint |-> CHOOSE h \in Hints : TRUE]

Init ==
  /\ hint = [h \in Hints |-> [state |-> "none", cost |-> AnyCost]]
  /\ asked = [h \in Hints |-> {}]
  /\ unlocked = {}
  /\ paid = [t \in Teams |-> [h \in Hints |-> 0]]
  /\ granted = [t \in Teams |-> 0]
  /\ worth \in [Challenges -> Prices]
  /\ solved = {}
  /\ exists = Teams
  /\ lock = [t \in Teams |-> NoRequest]
  /\ solver = [c \in Challenges |-> NoTeam]
  /\ pc = [r \in Requests |-> "idle"]
  /\ req = [r \in Requests |-> NoOrder]
  /\ copy = [r \in Requests |-> AnyCost]
  /\ squeezed = [t \in Teams |-> FALSE]

-----------------------------------------------------------------------------
(* An unlock, one action per statement that another session can come between.*)

EndUnlock(r) ==
  /\ pc' = [pc EXCEPT ![r] = "idle"]
  /\ req' = [req EXCEPT ![r] = NoOrder]
  /\ copy' = [copy EXCEPT ![r] = AnyCost]

(* Variant: the refusals return without ending the transaction. *)
LockKept(r) == UNCHANGED lock
(* Commit and rollback release the teams row.                                *)
Release(r) == lock' = [t \in Teams |-> IF lock[t] = r THEN NoRequest ELSE lock[t]]

(* GetByID, outside the transaction; a hint that is not found ends it.       *)
ReadHint(r, t, h) ==
  /\ pc[r] = "idle"
  /\ hint[h].state = "live"
  /\ pc' = [pc EXCEPT ![r] = "lock"]
  /\ req' = [req EXCEPT ![r] = [team |-> t, hint |-> h]]
  /\ copy' = [copy EXCEPT ![r] = hint[h].cost]
  /\ UNCHANGED <<shop, board, lock>>

(* Variant: LockTeamTx without FOR UPDATE. *)
TeamFreeAlways(t) == TRUE
(* Nobody holds the teams row FOR UPDATE: it can be locked, and rows that    *)
(* refer to it can be inserted.                                              *)
TeamFree(t) == lock[t] = NoRequest

LockTeam(r) ==
  LET t == req[r].team IN
  /\ pc[r] = "lock"
  /\ TeamFree(t)
  /\ IF t \in exists
     THEN /\ lock' = [lock EXCEPT ![t] = r]
          /\ pc' = [pc EXCEPT ![r] = "check"]
          /\ UNCHANGED <<req, copy>>
     ELSE EndUnlock(r) /\ UNCHANGED lock
  /\ UNCHANGED <<shop, board>>

(* Variant: what was paid for other hints is left out of the score. *)
AffordableBySolves(t, price) == price <= 0 \/ Earned(t) >= price
Affordable(t, price) == price <= 0 \/ GetTeamScore(t) >= price

(* ErrHintAlreadyUnlocked, ErrInsufficientPoints, or on to the inserts.      *)
CheckUnlock(r) ==
  LET o == req[r] IN
  /\ pc[r] = "check"
  /\ IF <<o.team, o.hint>> \notin unlocked /\ Affordable(o.team, copy[r])
     THEN pc' = [pc EXCEPT ![r] = "insert"] /\ UNCHANGED <<req, copy, lock>>
     ELSE EndUnlock(r) /\ Release(r)
  /\ UNCHANGED <<shop, board>>

Charge(price) == IF price > 0 THEN price ELSE 0

(* Variant: the award is committed although the unlock row is refused. *)
ChargeFirst(r) ==
  LET o == req[r] IN
  /\ pc[r] = "insert"
  /\ paid' = [paid EXCEPT ![o.team][o.hint] = @ + Charge(copy[r])]
  /\ IF hint[o.hint].state = "live"
     THEN unlocked' = unlocked \cup {<<o.team, o.hint>>}
     ELSE UNCHANGED unlocked
  /\ EndUnlock(r) /\ Release(r)
  /\ UNCHANGED <<hint, asked, board>>
(* The award and the hint_unlocks row, then the commit.  A hint deleted      *)
(* since violates the foreign key and all is rolled back; a row that is      *)
(* already there is skipped (ON CONFLICT DO NOTHING).                        *)
InsertUnlock(r) ==
  LET o == req[r] IN
  /\ pc[r] = "insert"
  /\ IF hint[o.hint].state = "live"
     THEN /\ paid' = [paid EXCEPT ![o.team][o.hint] = @ + Charge(copy[r])]
          /\ unlocked' = unlocked \cup {<<o.team, o.hint>>}
     ELSE UNCHANGED <<paid, unlocked>>
  /\ EndUnlock(r) /\ Release(r)
  /\ UNCHANGED <<hint, asked, board>>

(* A statement fails, or the client is gone: rollback.                       *)
FailUnlock(r) ==
  /\ pc[r] # "idle"
  /\ EndUnlock(r) /\ Release(r)
  /\ UNCHANGED <<shop, board>>

-----------------------------------------------------------------------------
(* Hints, as the administrator changes them.                                 *)

CreateHint(h, k) ==
  /\ hint[h].state = "none"
  /\ hint' = [hint EXCEPT ![h] = [state |-> "live", cost |-> k]]
  /\ asked' = [asked EXCEPT ![h] = {k}]
  /\ UNCHANGED <<unlocked, paid, board, requests>>

UpdateHint(h, k) ==
  /\ hint[h].state = "live"
  /\ hint' = [hint EXCEPT ![h].cost = k]
  /\ asked' = [asked EXCEPT ![h] = @ \cup {k}]
  /\ UNCHANGED <<unlocked, paid, board, requests>>

(* The hint_unlocks rows go with the hint; the awards stay.                  *)
Remove(h) ==
  /\ hint' = [hint EXCEPT ![h] = [state |-> "gone", cost |-> AnyCost]]
  /\ asked' = [asked EXCEPT ![h] = {}]
  /\ unlocked' = {o \in unlocked : o[2] # h}

DeleteHint(h) ==
  /\ hint[h].state = "live"
  /\ Remove(h)
  /\ UNCHANGED <<paid, board, requests>>

-----------------------------------------------------------------------------
(* Points, as everybody else changes them.                                   *)

NoteFall ==
  squeezed' = [t \in Teams |-> squeezed[t] \/ Earned(t)' < Earned(t)]

(* An award refers to its team, so it waits for the team's row.              *)
CreateAward(t, v) ==
  /\ t \in exists
  /\ TeamFree(t)
  /\ granted[t] + v \in -MaxGranted..MaxGranted
  /\ granted' = [granted EXCEPT ![t] = @ + v]
  /\ UNCHANGED <<shop, worth, solved, exists, solver, requests>>
  /\ NoteFall

(* A submission locks the challenge first and meets the team's row with its  *)
(* insert; the price may fall with the solve.                                *)
LockChallenge(t, c) ==
  /\ solver[c] = NoTeam
  /\ worth[c] >= 0
  /\ <<t, c>> \notin solved
  /\ solver' = [solver EXCEPT ![c] = t]
  /\ UNCHANGED <<shop, granted, worth, solved, exists, squeezed, requests>>

RecordSolve(c, p) ==
  LET t == solver[c] IN
  /\ t \in Teams
  /\ TeamFree(t)
  /\ solver' = [solver EXCEPT ![c] = NoTeam]
  /\ IF t \in exists
     THEN /\ solved' = solved \cup {<<t, c>>}
          /\ worth' = [worth EXCEPT ![c] = p]
     ELSE UNCHANGED <<solved, worth>>
  /\ UNCHANGED <<shop, granted, exists, requests>>
  /\ NoteFall

Reprice(c, p) ==
  /\ solver[c] = NoTeam
  /\ worth[c] >= 0
  /\ worth' = [worth EXCEPT ![c] = p]
  /\ UNCHANGED <<shop, granted, solved, exists, solver, requests>>
  /\ NoteFall

(* The solves of the challenge go with it.                                   *)
DeleteChallenge(c) ==
  /\ solver[c] = NoTeam
  /\ worth[c] >= 0
  /\ worth' = [worth EXCEPT ![c] = -1]
  /\ solved' = {s \in solved : s[2] # c}
  /\ UNCHANGED <<shop, granted, exists, solver, requests>>
  /\ NoteFall

(* The cleanup job removes a team and the rows that refer to it.             *)
HardDeleteTeam(t) ==
  /\ t \in exists
  /\ TeamFree(t)
  /\ exists' = exists \ {t}
  /\ unlocked' = {o \in unlocked : o[1] # t}
  /\ paid' = [paid EXCEPT ![t] = [h \in Hints |-> 0]]
  /\ granted' = [granted EXCEPT ![t] = 0]
  /\ solved' = {s \in solved : s[1] # t}
  /\ UNCHANGED <<hint, asked, worth, solver, requests>>
  /\ NoteFall

-----------------------------------------------------------------------------
UnlockStep(r) == LockTeam(r) \/ CheckUnlock(r) \/ InsertUnlock(r)

Next ==
  \/ \E r \in Requests :
       \/ \E t \in Teams, h \in Hints : ReadHint(r, t, h)
       \/ UnlockStep(r) \/ FailUnlock(r)
  \/ \E h \in Hints : DeleteHint(h) \/ \E k \in Costs : CreateHint(h, k) \/ UpdateHint(h, k)
  \/ \E t \in Teams : HardDeleteTeam(t) \/ \E v \in Gifts : CreateAward(t, v)
  \/ \E c \in Challenges :
       \/ DeleteChallenge(c)
       \/ \E t \in Teams : LockChallenge(t, c)
       \/ \E p \in Prices : RecordSolve(c, p) \/ Reprice(c, p)

Spec == Init /\ [][Next]_vars

(* A handler runs on; PostgreSQL grants a contended row in arrival order.    *)
Fairness == \A r \in Requests : WF_vars(UnlockStep(r)) /\ SF_vars(LockTeam(r))

FairSpec == Spec /\ Fairness

-----------------------------------------------------------------------------
Shop == INSTANCE HintShop WITH owned <- unlocked, offered <- asked

(* Unlocking behaves as a shop that sells each hint to a team once and takes *)
(* one of its prices in the same step, whatever two members do at once and   *)
(* whatever happens to the hint meanwhile.                                   *)
ShopSpec == Shop!Spec

(* Unlocking alone never takes a team below zero: where the score is         *)
(* negative, points the team had earned were lowered by somebody else        *)
(* (integration-test/hint_race_test.go:109).                                 *)
OnlySqueezedOverdraw ==
  \A t \in Teams : GetTeamScore(t) < 0 => squeezed[t]

(* Every unlock comes to an end: teams rows are given back, and no cycle     *)
(* arises with submissions, which hold a challenge and wait for the team.    *)
UnlocksEnd == \A r \in Requests : pc[r] # "idle" ~> pc[r] = "idle"

(* Nobody waits for a teams row in vain: whoever holds it is an unlock that   *)
(* waits for nothing itself, so neither unlocks nor submissions, which hold a *)
(* challenge when they come to the row, can wait in a circle.                 *)
GoesOn(r) == pc[r] \in {"check", "insert"} \/ (pc[r] = "lock" /\ TeamFree(req[r].team))
HeldRowsComeBack ==
  /\ \A r \in Requests : pc[r] # "idle" => GoesOn(r) \/ GoesOn(lock[req[r].team])
  /\ \A c \in Challenges : solver[c] # NoTeam =>
       TeamFree(solver[c]) \/ GoesOn(lock[solver[c]])
=============================================================================
