-------------------------- MODULE ScoreboardProofs --------------------------
(* For any number of teams, challenges, brackets and readers, and any TTL    *)
(* and length of a load: how stale a cached board can be, what a frozen      *)
(* board can show, and when the boards of all teams are exact.               *)
EXTENDS Scoreboard, FiniteSetTheorems, TLAPS

(* A copy is a board with the cut it was computed for.  A board of a frozen  *)
(* competition shows points only for what happened up to its cut.            *)
IsCopy(x) ==
  /\ x = [board |-> x.board, cut |-> x.cut, stale |-> x.stale]
  /\ x.cut \in Cuts /\ x.stale \in Nat

Earliest(t, cut) ==
  \/ \E s \in solves : s.team = t /\ s.at <= cut
  \/ \E a \in awards : a.team = t /\ a.at <= cut

Honest(x) ==
  x.cut # Never => \A t \in DOMAIN x.board : x.board[t] # 0 => Earliest(t, x.cut)

(* Every cut in use is a freeze that has passed.  If an administrator has    *)
(* moved it since, whoever uses it is gone before moved comes to zero.       *)
Expiring(cut, life) == cut # Never => cut < now /\ (cut = freeze \/ moved > life)

ReaderOK(r) ==
  reader[r].pc # "idle" => Expiring(reader[r].cut, Window - reader[r].age)

(* Each load has a reader that has waited for it as long as it runs: no      *)
(* board in flight is older than a call of GetScoreboard may take.           *)
Awaited(k) ==
  \E r \in Readers :
    /\ reader[r].pc = "wait" /\ KeyOf(r) = k
    /\ reader[r].cut = flight[k].copy.cut /\ flight[k].copy.stale <= reader[r].age

FlightOK(k) ==
  /\ flight[k] = [phase |-> flight[k].phase, copy |-> flight[k].copy]
  /\ IsCopy(flight[k].copy) /\ Honest(flight[k].copy)
  /\ flight[k].phase = "query" => flight[k].copy = Unread(flight[k].copy.cut)
  /\ clean /\ flight[k].phase = "store" /\ k[1] = Overall =>
       flight[k].copy.board = Truth(k, flight[k].copy)
  /\ Awaited(k)

RedisOK(k) ==
  /\ redis[k] = [copy |-> redis[k].copy, ttl |-> redis[k].ttl]
  /\ IsCopy(redis[k].copy) /\ Honest(redis[k].copy)
  /\ redis[k].copy.stale + redis[k].ttl <= Window
  /\ Expiring(redis[k].copy.cut, redis[k].ttl)
  /\ clean /\ k[1] = Overall => redis[k].copy.board = Truth(k, redis[k].copy)

BoardInv ==
  /\ TypeOK
  /\ \A r \in Readers : ReaderOK(r)
  /\ \A k \in DOMAIN flight : FlightOK(k)
  /\ \A k \in DOMAIN redis : RedisOK(k)

-----------------------------------------------------------------------------
(* Boards as functions of the tables they are computed from. *)
SolvePoints(w, S) == MapThenSumSet(LAMBDA s : w[s.challenge], S)
AwardPoints(A) == MapThenSumSet(LAMBDA a : a.value, A)
PointsOf(S, A, w, t, cut) ==
  SolvePoints(w, {s \in S : s.team = t /\ Counted(s.at, cut)})
  + AwardPoints({a \in A : a.team = t /\ Counted(a.at, cut)})
BoardFrom(L, br, S, A, w, scope, cut) ==
  [t \in {u \in L : scope = Overall \/ br[u] = scope} |-> PointsOf(S, A, w, t, cut)]

LEMMA BoardIsFrom ==
  ASSUME NEW scope, NEW cut
  PROVE  /\ BoardOf(scope, cut) = BoardFrom(listed, bracket, solves, awards, worth, scope, cut)
         /\ BoardOf(scope, cut)' =
              BoardFrom(listed', bracket', solves', awards', worth', scope, cut)
<1>1. BoardOf(scope, cut) = BoardFrom(listed, bracket, solves, awards, worth, scope, cut)
  BY DEF BoardOf, BoardFrom, Points, PointsOf, SolvePoints, AwardPoints
<1>2. BoardOf(scope, cut)' =
        BoardFrom(listed', bracket', solves', awards', worth', scope, cut)
  BY DEF BoardOf, BoardFrom, Points, PointsOf, SolvePoints, AwardPoints,
         MapThenSumSet, MapThenFoldSet
<1> QED
  BY <1>1, <1>2

(* What no board shows does not change one. *)
LEMMA BoardKept ==
  ASSUME UNCHANGED <<solves, awards, worth, listed, bracket>>, NEW scope, NEW cut
  PROVE  BoardOf(scope, cut)' = BoardOf(scope, cut)
BY BoardIsFrom

(* A sum over no rows is zero. *)
LEMMA NoSolvesNoPoints ==
  ASSUME NEW w
  PROVE  SolvePoints(w, {}) = 0
<1> DEFINE Rec(f) == [s \in SUBSET {} |-> IF s = {} THEN 0 ELSE
                        LET x == CHOOSE x \in s : TRUE IN w[x.challenge] + f[s \ {x}]]
           Zero == [s \in SUBSET {} |-> 0]
<1>1. SolvePoints(w, {}) = (CHOOSE f : f = Rec(f))[{}]
  BY DEF SolvePoints, MapThenSumSet, MapThenFoldSet
<1>2. Zero = Rec(Zero)
  OBVIOUS
<1>3. \A f : f = Rec(f) => f[{}] = 0
  OBVIOUS
<1> HIDE DEF Rec, Zero
<1> QED
  BY <1>1, <1>2, <1>3, Zenon

LEMMA NoAwardsNoPoints ==
  AwardPoints({}) = 0
<1> DEFINE Rec(f) == [s \in SUBSET {} |-> IF s = {} THEN 0 ELSE
                        LET x == CHOOSE x \in s : TRUE IN x.value + f[s \ {x}]]
           Zero == [s \in SUBSET {} |-> 0]
<1>1. AwardPoints({}) = (CHOOSE f : f = Rec(f))[{}]
  BY DEF AwardPoints, MapThenSumSet, MapThenFoldSet
<1>2. Zero = Rec(Zero)
  OBVIOUS
<1>3. \A f : f = Rec(f) => f[{}] = 0
  OBVIOUS
<1> HIDE DEF Rec, Zero
<1> QED
  BY <1>1, <1>2, <1>3, Zenon

(* So points come from rows. *)
LEMMA NoRowsNoPoints ==
  ASSUME NEW t, NEW cut, cut # Never, ~Earliest(t, cut)
  PROVE  Points(t, cut) = 0
<1>1. /\ {s \in solves : s.team = t /\ Counted(s.at, cut)} = {}
      /\ {a \in awards : a.team = t /\ Counted(a.at, cut)} = {}
  BY DEF Earliest, Counted
<1>2. Points(t, cut) = PointsOf(solves, awards, worth, t, cut)
  BY DEF Points, PointsOf, SolvePoints, AwardPoints
<1>3. PointsOf(solves, awards, worth, t, cut) = SolvePoints(worth, {}) + AwardPoints({})
  BY <1>1, Zenon DEF PointsOf
<1>4. SolvePoints(worth, {}) = 0 /\ AwardPoints({}) = 0
  BY NoSolvesNoPoints, NoAwardsNoPoints
<1> QED
  BY <1>2, <1>3, <1>4

LEMMA CopyIsHonest ==
  ASSUME NEW k, NEW cut \in Cuts
  PROVE  /\ IsCopy(Copy(k, cut)) /\ Honest(Copy(k, cut))
         /\ Copy(k, cut).cut = cut /\ Copy(k, cut).stale = 0
         /\ Copy(k, cut).board = Truth(k, Copy(k, cut))
<1>1. /\ Copy(k, cut).cut = cut /\ Copy(k, cut).stale = 0
      /\ Copy(k, cut).board = BoardOf(k[1], cut)
  BY DEF Copy
<1>2. ASSUME cut # Never, NEW t \in DOMAIN BoardOf(k[1], cut), BoardOf(k[1], cut)[t] # 0
      PROVE  Earliest(t, cut)
  <2>1. BoardOf(k[1], cut)[t] = Points(t, cut)
    BY <1>2 DEF BoardOf
  <2> QED
    BY <1>2, <2>1, NoRowsNoPoints
<1>3. Honest(Copy(k, cut))
  BY <1>1, <1>2, Zenon DEF Honest
<1>4. IsCopy(Copy(k, cut))
  BY DEF Copy, IsCopy
<1> QED
  BY <1>1, <1>3, <1>4 DEF Truth

-----------------------------------------------------------------------------
(* Steps that leave the caches alone.  A writer commits and is no longer     *)
(* clean; it adds rows and never takes one away.                             *)
WriterStep ==
  \/ \E t \in Teams : CreateAward(t) \/ ListTeam(t) \/ SetBracket(t) \/ DisbandTeam(t)
  \/ \E c \in Challenges : CommitSolve(c) \/ UpdateChallenge(c)
  \/ UpdateCompetition

(* What is not committed, and the time, are on no board. *)
SilentStep ==
  \/ PassInstant
  \/ \E c \in Challenges : RollBackSolve(c) \/ \E t \in Teams : InsertSolve(t, c)

LEMMA Bounds ==
  /\ Instants \subseteq Int /\ Cuts \subseteq Int \cup {Never} /\ Never \notin Int
  /\ TTL \in Nat /\ MaxLoad \in Nat /\ Window \in Nat /\ Window = TTL + MaxLoad
<1>1. Instants \subseteq Int
  BY ScoreboardBounds DEF Instants
<1>2. Cuts \subseteq Int \cup {Never}
  BY ScoreboardBounds DEF Cuts
<1>3. TTL \in Nat /\ MaxLoad \in Nat /\ Never \notin Int
  BY ScoreboardBounds
<1>4. Window \in Nat /\ Window = TTL + MaxLoad
  BY <1>3 DEF Window
<1> QED
  BY <1>1, <1>2, <1>3, <1>4

LEMMA CommitTyped ==
  ASSUME TypeOK, Commit
  PROVE  pending' \in 0..MaxPending /\ clean' = FALSE
BY ScoreboardBounds DEF TypeOK, Commit

LEMMA EditTyped ==
  ASSUME TypeOK, Edit
  PROVE  edits' \in 0..MaxEdits
BY ScoreboardBounds DEF TypeOK, Edit

LEMMA WriterTyped == TypeOK /\ WriterStep => TypeOK'
<1> SUFFICES ASSUME TypeOK, WriterStep PROVE TypeOK'
  OBVIOUS
<1>1. ASSUME NEW t \in Teams, CreateAward(t) PROVE TypeOK'
  <2>1. PICK v \in Gifts : awards' = awards \cup {[team |-> t, value |-> v, at |-> now]}
    BY <1>1 DEF CreateAward
  <2>2. awards' \subseteq [team : Teams, value : Gifts, at : Instants]
    BY <2>1 DEF TypeOK
  <2> QED
    BY <1>1, <2>2, CommitTyped, EditTyped DEF TypeOK, CreateAward, caches
<1>2. ASSUME NEW t \in Teams, ListTeam(t) PROVE TypeOK'
  BY <1>2, CommitTyped, EditTyped DEF TypeOK, ListTeam, caches
<1>3. ASSUME NEW t \in Teams, SetBracket(t) PROVE TypeOK'
  BY <1>3, CommitTyped, EditTyped DEF TypeOK, SetBracket, caches
<1>4. ASSUME NEW t \in Teams, DisbandTeam(t) PROVE TypeOK'
  BY <1>4, EditTyped DEF TypeOK, DisbandTeam, CommitOnly, caches
<1>5. ASSUME NEW c \in Challenges, CommitSolve(c) PROVE TypeOK'
  <2>1. tx[c] \in Teams \X Instants
    BY <1>5 DEF TypeOK, CommitSolve
  <2>2. solves' \subseteq [team : Teams, challenge : Challenges, at : Instants]
    BY <1>5, <2>1 DEF TypeOK, CommitSolve
  <2>3. worth' \in [Challenges -> Prices]
    BY <1>5 DEF TypeOK, CommitSolve
  <2>4. \A d \in DOMAIN tx' : d \in Challenges /\ tx'[d] \in Teams \X Instants
    BY <1>5 DEF TypeOK, CommitSolve, Restrict
  <2> QED
    BY <1>5, <2>2, <2>3, <2>4, CommitTyped DEF TypeOK, CommitSolve, caches
<1>6. ASSUME NEW c \in Challenges, UpdateChallenge(c) PROVE TypeOK'
  BY <1>6, CommitTyped, EditTyped DEF TypeOK, UpdateChallenge, caches
<1>7. CASE UpdateCompetition
  <2>1. moved' \in 0..Window + 1
    BY <1>7, Bounds DEF TypeOK, UpdateCompetition
  <2> QED
    BY <1>7, <2>1, EditTyped DEF TypeOK, UpdateCompetition, CommitOnly, caches
<1> QED
  BY <1>1, <1>2, <1>3, <1>4, <1>5, <1>6, <1>7 DEF WriterStep

LEMMA SilentTyped == TypeOK /\ SilentStep => TypeOK'
<1> SUFFICES ASSUME TypeOK, SilentStep PROVE TypeOK'
  OBVIOUS
<1>1. CASE PassInstant
  BY <1>1, ScoreboardBounds DEF TypeOK, PassInstant, Instants, caches
<1>2. ASSUME NEW c \in Challenges, RollBackSolve(c) PROVE TypeOK'
  BY <1>2 DEF TypeOK, RollBackSolve, Restrict, caches
<1>3. ASSUME NEW c \in Challenges, NEW t \in Teams, InsertSolve(t, c) PROVE TypeOK'
  <2>1. \A d \in DOMAIN tx' : d \in Challenges /\ tx'[d] \in Teams \X Instants
    BY <1>3 DEF TypeOK, InsertSolve
  <2> QED
    BY <1>3, <2>1 DEF TypeOK, InsertSolve, caches
<1> QED
  BY <1>1, <1>2, <1>3 DEF SilentStep

LEMMA HonestKept ==
  ASSUME NEW x, Honest(x), solves \subseteq solves', awards \subseteq awards'
  PROVE  Honest(x)'
BY DEF Honest, Earliest

(* Writers and the clock keep what the caches hold.  Only boards that must   *)
(* be exact notice a commit, and none must be exact after one.               *)
LEMMA CachesKept ==
  ASSUME BoardInv, TypeOK', UNCHANGED <<redis, flight, reader>>,
         solves \subseteq solves', awards \subseteq awards',
         clean' => clean /\ UNCHANGED <<solves, awards, worth, listed, bracket>>,
         \A cut \in Cuts, life \in Int :
           life <= Window /\ Expiring(cut, life) => Expiring(cut, life)'
  PROVE  BoardInv'
<1>1. ASSUME NEW r \in Readers PROVE ReaderOK(r)'
  <2>1. CASE reader[r].pc = "idle"
    BY <2>1 DEF ReaderOK
  <2>2. CASE reader[r].pc # "idle"
    <3>1. PICK cut \in Cuts, age \in 0..MaxLoad : cut = reader[r].cut /\ age = reader[r].age
      BY DEF BoardInv, TypeOK
    <3>2. Window - age \in Int /\ Window - age <= Window
      BY <3>1, Bounds
    <3>3. Expiring(cut, Window - age)
      BY <2>2, <3>1 DEF BoardInv, ReaderOK
    <3>4. Expiring(cut, Window - age)'
      BY <3>2, <3>3
    <3> QED
      BY <3>1, <3>4 DEF ReaderOK, Expiring, Window
  <2> QED
    BY <2>1, <2>2
<1>2. ASSUME NEW k \in DOMAIN flight PROVE FlightOK(k)'
  <2>1. Honest(flight[k].copy)'
    <3>1. PICK x : x = flight[k].copy /\ Honest(x)
      BY <1>2 DEF BoardInv, FlightOK
    <3>2. Honest(x)'
      BY <3>1, HonestKept
    <3> QED
      BY <3>1, <3>2 DEF Honest, Earliest
  <2>2. Awaited(k)'
    BY <1>2 DEF BoardInv, FlightOK, Awaited, KeyOf
  <2>3. clean' => Truth(k, flight[k].copy)' = Truth(k, flight[k].copy)
    <3>1. PICK x : x = flight[k].copy.cut
      OBVIOUS
    <3> QED
      BY <3>1, BoardKept DEF Truth
  <2> QED
    BY <1>2, <2>1, <2>2, <2>3 DEF BoardInv, FlightOK, IsCopy, Unread
<1>3. ASSUME NEW k \in DOMAIN redis PROVE RedisOK(k)'
  <2>1. Honest(redis[k].copy)'
    <3>1. PICK x : x = redis[k].copy /\ Honest(x)
      BY <1>3 DEF BoardInv, RedisOK
    <3>2. Honest(x)'
      BY <3>1, HonestKept
    <3> QED
      BY <3>1, <3>2 DEF Honest, Earliest
  <2>2. Expiring(redis[k].copy.cut, redis[k].ttl)'
    <3>1. PICK cut \in Cuts, life \in 0..TTL : cut = redis[k].copy.cut /\ life = redis[k].ttl
      BY <1>3 DEF BoardInv, TypeOK, RedisOK, IsCopy
    <3>2. life \in Int /\ life <= Window /\ Expiring(cut, life)
      BY <1>3, <3>1, Bounds DEF BoardInv, RedisOK
    <3>3. Expiring(cut, life)'
      BY <3>2
    <3> QED
      BY <3>1, <3>3 DEF Expiring
  <2>3. clean' => Truth(k, redis[k].copy)' = Truth(k, redis[k].copy)
    <3>1. PICK x : x = redis[k].copy.cut
      OBVIOUS
    <3> QED
      BY <3>1, BoardKept DEF Truth
  <2> QED
    BY <1>3, <2>1, <2>2, <2>3 DEF BoardInv, RedisOK, IsCopy
<1> QED
  BY <1>1, <1>2, <1>3 DEF BoardInv

LEMMA WriterKeepsInv == BoardInv /\ WriterStep => BoardInv'
<1> SUFFICES ASSUME BoardInv, WriterStep PROVE BoardInv'
  OBVIOUS
<1>1. TypeOK'
  BY WriterTyped DEF BoardInv
<1>2. /\ UNCHANGED <<redis, flight, reader, now>>
      /\ solves \subseteq solves' /\ awards \subseteq awards'
      /\ clean' = FALSE
      /\ \/ UNCHANGED <<freeze, moved>>
         \/ moved' = IF Frozen THEN Window + 1 ELSE moved
  BY DEF WriterStep, CreateAward, ListTeam, SetBracket, DisbandTeam, CommitSolve,
         UpdateChallenge, UpdateCompetition, Commit, CommitOnly, caches
<1>3. ASSUME NEW cut \in Cuts, NEW life \in Int, life <= Window, Expiring(cut, life)
      PROVE  Expiring(cut, life)'
  <2>1. CASE UNCHANGED <<freeze, moved>>
    BY <1>2, <1>3, <2>1 DEF Expiring
  <2>2. CASE moved' = IF Frozen THEN Window + 1 ELSE moved
    <3>1. CASE cut = freeze /\ cut # Never
      <4>1. Frozen
        BY <1>3, <3>1 DEF Expiring, Frozen
      <4> QED
        BY <1>2, <1>3, <2>2, <4>1, Bounds DEF Expiring
    <3>2. CASE cut # freeze \/ cut = Never
      BY <1>2, <1>3, <2>2, <3>2, Bounds DEF Expiring, BoardInv, TypeOK
    <3> QED
      BY <3>1, <3>2
  <2> QED
    BY <1>2, <2>1, <2>2
<1> QED
  BY <1>1, <1>2, <1>3, CachesKept

LEMMA SilentKeepsInv == BoardInv /\ SilentStep => BoardInv'
<1> SUFFICES ASSUME BoardInv, SilentStep PROVE BoardInv'
  OBVIOUS
<1>1. TypeOK'
  BY SilentTyped DEF BoardInv
<1>2. UNCHANGED <<redis, flight, reader, solves, awards, worth, listed, bracket,
                  freeze, moved, clean>>
  BY DEF SilentStep, PassInstant, RollBackSolve, InsertSolve, caches
<1>3. now' \in {now, now + 1} /\ now \in Int
  BY Bounds DEF SilentStep, PassInstant, RollBackSolve, InsertSolve, BoardInv, TypeOK
<1>4. ASSUME NEW cut \in Cuts, NEW life \in Int, Expiring(cut, life)
      PROVE  Expiring(cut, life)'
  BY <1>2, <1>3, <1>4, Bounds DEF Expiring
<1> QED
  BY <1>1, <1>2, <1>4, CachesKept

-----------------------------------------------------------------------------
(* Steps on the caches. *)
ReaderRow == [pc : {"idle", "get", "wait"}, scope : Scopes, cut : Cuts, age : 0..MaxLoad]

LEMMA KeyIs ==
  ASSUME TypeOK, NEW r \in Readers
  PROVE  /\ reader[r] \in ReaderRow
         /\ KeyOf(r) \in Keys /\ (reader[r].cut = Never <=> KeyOf(r)[2] = "live")
<1>1. reader[r] \in ReaderRow
  BY DEF TypeOK, ReaderRow
<1>2. reader[r].scope \in Scopes
  BY <1>1 DEF ReaderRow
<1> QED
  BY <1>1, <1>2 DEF KeyOf, CacheKey, Keys

LEMMA RestingRow == Resting \in ReaderRow /\ Resting.pc = "idle"
BY Bounds DEF Resting, ReaderRow, Scopes, Cuts

(* A row that is not touched stays right while no table changes. *)
LEMMA DbFrame ==
  ASSUME UNCHANGED <<db, moved, clean>>
  PROVE  /\ \A x : Honest(x) => Honest(x)'
         /\ \A cut, life : Expiring(cut, life) => Expiring(cut, life)'
         /\ \A k, x : Truth(k, x)' = Truth(k, x)
<1>1. UNCHANGED <<solves, awards, worth, listed, bracket, freeze, now>>
  BY DEF db
<1>2. ASSUME NEW x, Honest(x) PROVE Honest(x)'
  BY <1>1, <1>2, HonestKept
<1>3. ASSUME NEW cut, NEW life, Expiring(cut, life) PROVE Expiring(cut, life)'
  BY <1>1, <1>3 DEF Expiring
<1>4. ASSUME NEW k, NEW x PROVE Truth(k, x)' = Truth(k, x)
  <2>1. BoardOf(k[1], x.cut)' = BoardOf(k[1], x.cut)
    BY <1>1, BoardKept
  <2> QED
    BY <2>1 DEF Truth
<1> QED
  BY <1>2, <1>3, <1>4

LEMMA FlightRowKept ==
  ASSUME UNCHANGED <<db, moved, clean>>, NEW k, FlightOK(k), flight'[k] = flight[k],
         Awaited(k)'
  PROVE  FlightOK(k)'
<1>1. PICK x : x = flight[k].copy
  OBVIOUS
<1>2. Honest(x)' /\ Truth(k, x)' = Truth(k, x)
  BY <1>1, DbFrame DEF FlightOK
<1>3. Honest(flight[k].copy)'
  BY <1>1, <1>2 DEF Honest, Earliest
<1>4. Truth(k, flight[k].copy)' = Truth(k, flight[k].copy)
  BY <1>1, <1>2 DEF Truth, BoardOf
<1> QED
  BY <1>3, <1>4 DEF FlightOK, IsCopy, Unread

LEMMA RedisRowKept ==
  ASSUME UNCHANGED <<db, moved, clean>>, NEW k, RedisOK(k), redis'[k] = redis[k]
  PROVE  RedisOK(k)'
<1>1. PICK x, n : x = redis[k].copy /\ n = redis[k].ttl
  OBVIOUS
<1>2. Honest(x)' /\ Truth(k, x)' = Truth(k, x) /\ Expiring(x.cut, n)'
  BY <1>1, DbFrame DEF RedisOK
<1>3. Honest(redis[k].copy)'
  BY <1>1, <1>2 DEF Honest, Earliest
<1>4. Truth(k, redis[k].copy)' = Truth(k, redis[k].copy)
  BY <1>1, <1>2 DEF Truth, BoardOf
<1>5. Expiring(redis[k].copy.cut, redis[k].ttl)'
  BY <1>1, <1>2 DEF Expiring
<1> QED
  BY <1>3, <1>4, <1>5 DEF RedisOK, IsCopy

LEMMA ReaderRowKept ==
  ASSUME UNCHANGED <<db, moved, clean>>, NEW r, ReaderOK(r),
         \/ reader'[r].pc = "idle"
         \/ /\ reader[r].pc # "idle"
            /\ reader'[r].cut = reader[r].cut /\ reader'[r].age = reader[r].age
  PROVE  ReaderOK(r)'
<1>1. PICK cut, life : cut = reader[r].cut /\ life = Window - reader[r].age
  OBVIOUS
<1>2. Expiring(cut, life) => Expiring(cut, life)'
  BY DbFrame
<1> QED
  BY <1>1, <1>2 DEF ReaderOK, Expiring, Window

(* GetScoreboard picks the cut of the moment. *)
LEMMA GetScoreboardKeepsInv ==
  ASSUME BoardInv, NEW r \in Readers, NEW scope \in Scopes, GetScoreboard(r, scope)
  PROVE  BoardInv'
<1>1. UNCHANGED <<db, moved, clean, redis, flight>>
  BY DEF GetScoreboard
<1> DEFINE cut == IF Frozen THEN freeze ELSE Never
           row == [pc |-> "get", scope |-> scope, cut |-> cut, age |-> 0]
<1>2. row \in ReaderRow
  BY Bounds DEF BoardInv, TypeOK, ReaderRow, Cuts
<1>3. reader' = [reader EXCEPT ![r] = row] /\ reader \in [Readers -> ReaderRow]
  BY DEF GetScoreboard, BoardInv, TypeOK, ReaderRow
<1>4. TypeOK'
  <2>1. reader' \in [Readers -> ReaderRow]
    BY <1>2, <1>3
  <2> QED
    BY <2>1 DEF GetScoreboard, BoardInv, TypeOK, ReaderRow, db
<1>5. ASSUME NEW q \in Readers PROVE ReaderOK(q)'
  <2>1. CASE q = r
    <3>1. PICK x : x = cut
      OBVIOUS
    <3>2. reader'[q].cut = x
      BY <1>3, <2>1, <3>1
    <3>3. x # Never => x < now' /\ x = freeze'
      BY <1>1, <3>1 DEF Frozen, db, BoardInv, TypeOK
    <3> QED
      BY <3>2, <3>3 DEF ReaderOK, Expiring
  <2>2. CASE q # r
    BY <1>1, <1>3, <2>2, ReaderRowKept DEF BoardInv
  <2> QED
    BY <2>1, <2>2
<1>6. ASSUME NEW k \in DOMAIN flight PROVE FlightOK(k)'
  <2>1. FlightOK(k) /\ Awaited(k) /\ reader[r].pc = "idle"
    BY <1>6 DEF BoardInv, FlightOK, GetScoreboard
  <2>2. Awaited(k)'
    BY <1>1, <1>3, <2>1 DEF Awaited, KeyOf
  <2> QED
    BY <1>1, <2>1, <2>2, FlightRowKept
<1>7. ASSUME NEW k \in DOMAIN redis PROVE RedisOK(k)'
  BY <1>1, <1>7, RedisRowKept DEF BoardInv
<1> QED
  BY <1>1, <1>4, <1>5, <1>6, <1>7 DEF BoardInv

LEMMA HitKeepsInv ==
  ASSUME BoardInv, NEW r \in Readers, Hit(r)
  PROVE  BoardInv'
<1>1. UNCHANGED <<db, moved, clean, redis, flight>>
  BY DEF Hit
<1>2. reader' = [reader EXCEPT ![r] = Resting] /\ reader \in [Readers -> ReaderRow]
  BY DEF Hit, BoardInv, TypeOK, ReaderRow
<1>3. TypeOK'
  <2>1. reader' \in [Readers -> ReaderRow]
    BY <1>2, RestingRow
  <2> QED
    BY <2>1 DEF Hit, BoardInv, TypeOK, ReaderRow, db
<1>4. ASSUME NEW q \in Readers PROVE ReaderOK(q)'
  <2>1. reader'[q] = reader[q] \/ reader'[q] = Resting
    BY <1>2
  <2> QED
    BY <1>1, <2>1, RestingRow, ReaderRowKept DEF BoardInv
<1>5. ASSUME NEW k \in DOMAIN flight PROVE FlightOK(k)'
  <2>1. FlightOK(k) /\ Awaited(k) /\ reader[r].pc = "get"
    BY <1>5 DEF BoardInv, FlightOK, Hit
  <2>2. Awaited(k)'
    BY <1>1, <1>2, <2>1 DEF Awaited, KeyOf
  <2> QED
    BY <1>1, <2>1, <2>2, FlightRowKept
<1>6. ASSUME NEW k \in DOMAIN redis PROVE RedisOK(k)'
  BY <1>1, <1>6, RedisRowKept DEF BoardInv
<1> QED
  BY <1>1, <1>3, <1>4, <1>5, <1>6 DEF BoardInv

(* Miss: the reader waits for the load it starts or for the one that runs. *)
LEMMA MissKeepsInv ==
  ASSUME BoardInv, NEW r \in Readers, Miss(r)
  PROVE  BoardInv'
<1>1. UNCHANGED <<db, moved, clean, redis>>
  BY DEF Miss
<1>2. /\ reader[r].pc = "get" /\ reader' \in [Readers -> ReaderRow]
      /\ \A q \in Readers : /\ reader'[q].scope = reader[q].scope
                            /\ reader'[q].cut = reader[q].cut
                            /\ reader'[q].age = reader[q].age
                            /\ q # r => reader'[q] = reader[q]
      /\ reader'[r].pc = "wait"
  <2>1. reader \in [Readers -> ReaderRow]
    BY DEF BoardInv, TypeOK, ReaderRow
  <2> QED
    BY <2>1 DEF Miss, ReaderRow
<1>3. ASSUME NEW q \in Readers PROVE KeyOf(q)' = KeyOf(q)
  BY <1>2 DEF KeyOf
<1> DEFINE new == [phase |-> "query", copy |-> Unread(reader[r].cut)]
<1>4. /\ \A k \in DOMAIN flight' : k \in DOMAIN flight \/ k = KeyOf(r)
      /\ \A k \in DOMAIN flight : flight'[k] = flight[k]
      /\ KeyOf(r) \notin DOMAIN flight => flight'[KeyOf(r)] = new
  BY DEF Miss
<1>5. TypeOK'
  <2>1. \A k \in DOMAIN flight' : k \in Keys /\ flight'[k].phase \in {"query", "store"}
    BY <1>4, KeyIs DEF BoardInv, TypeOK
  <2> QED
    BY <1>2, <2>1 DEF Miss, BoardInv, TypeOK, ReaderRow, db
<1>6. ASSUME NEW q \in Readers PROVE ReaderOK(q)'
  <2>1. ReaderOK(q) /\ reader'[q].cut = reader[q].cut /\ reader'[q].age = reader[q].age
    BY <1>2 DEF BoardInv
  <2>2. reader'[q].pc = "idle" \/ reader[q].pc # "idle"
    BY <1>2
  <2> QED
    BY <1>1, <2>1, <2>2, ReaderRowKept
<1>7. ASSUME NEW k \in DOMAIN flight' PROVE FlightOK(k)'
  <2>1. CASE k \in DOMAIN flight
    <3>1. FlightOK(k) /\ Awaited(k) /\ flight'[k] = flight[k]
      BY <1>4, <2>1 DEF BoardInv, FlightOK
    <3>2. Awaited(k)'
      BY <1>2, <1>3, <3>1 DEF Awaited
    <3> QED
      BY <1>1, <3>1, <3>2, FlightRowKept
  <2>2. CASE k \notin DOMAIN flight
    <3>1. PICK x \in Cuts : x = reader[r].cut
      BY KeyIs DEF BoardInv, ReaderRow
    <3>2. k = KeyOf(r) /\ flight'[k] = [phase |-> "query", copy |-> Unread(x)]
      BY <1>4, <2>2, <3>1
    <3>3. /\ Unread(x).cut = x /\ Unread(x).stale = 0 /\ IsCopy(Unread(x))
          /\ DOMAIN Unread(x).board = {}
      BY <3>1 DEF Unread, IsCopy, Empty
    <3>4. Awaited(k)'
      <4>1. KeyOf(r)' = k /\ reader'[r].cut = x /\ 0 <= reader'[r].age
        BY <1>2, <1>3, <3>1, <3>2 DEF ReaderRow
      <4> QED
        BY <1>2, <3>2, <3>3, <4>1 DEF Awaited
    <3>5. Honest(Unread(x))'
      BY <3>3 DEF Honest
    <3>6. IsCopy(flight'[k].copy) /\ Honest(flight[k].copy)'
      BY <3>2, <3>3, <3>5 DEF Honest
    <3> QED
      BY <3>2, <3>3, <3>4, <3>6 DEF FlightOK, IsCopy
  <2> QED
    BY <2>1, <2>2
<1>8. ASSUME NEW k \in DOMAIN redis PROVE RedisOK(k)'
  BY <1>1, <1>8, RedisRowKept DEF BoardInv
<1> QED
  BY <1>1, <1>5, <1>6, <1>7, <1>8 DEF BoardInv

(* The load reads what is committed: a board that is true when it is read. *)
LEMMA QueryKeepsInv ==
  ASSUME BoardInv, NEW k \in Keys, Query(k)
  PROVE  BoardInv'
<1>1. UNCHANGED <<db, moved, clean, redis, reader>> /\ k \in DOMAIN flight
  BY DEF Query
<1>2. PICK x \in Cuts : x = flight[k].copy.cut
  BY <1>1 DEF BoardInv, FlightOK, IsCopy
<1>3. PICK y : y = Copy(k, x)
  OBVIOUS
<1>4. flight' = [flight EXCEPT ![k] = [phase |-> "store", copy |-> y]]
  BY <1>2, <1>3 DEF Query
<1>5. /\ DOMAIN flight' = DOMAIN flight
      /\ flight'[k] = [phase |-> "store", copy |-> y]
      /\ \A j \in DOMAIN flight : j # k => flight'[j] = flight[j]
  BY <1>1, <1>4
<1>6. TypeOK'
  <2>1. \A j \in DOMAIN flight' : j \in Keys /\ flight'[j].phase \in {"query", "store"}
    BY <1>5 DEF BoardInv, TypeOK
  <2> QED
    BY <2>1 DEF Query, BoardInv, TypeOK, db
<1>7. ASSUME NEW q \in Readers PROVE ReaderOK(q)'
  BY <1>1, <1>7, ReaderRowKept DEF BoardInv
<1>8. ASSUME NEW j \in DOMAIN flight' PROVE FlightOK(j)'
  <2>1. FlightOK(j) /\ Awaited(j)
    BY <1>5 DEF BoardInv, FlightOK
  <2>2. CASE j = k
    <3>1. /\ IsCopy(y) /\ Honest(y) /\ y.cut = x /\ y.stale = 0
          /\ y.board = Truth(k, y)
      BY <1>3, CopyIsHonest
    <3>2. Honest(y)' /\ Truth(k, y)' = Truth(k, y)
      BY <1>1, <3>1, DbFrame
    <3>3. flight'[j].copy = y
      BY <1>5, <2>2
    <3>4. Awaited(j)'
      <4>1. PICK r \in Readers : /\ reader[r].pc = "wait" /\ KeyOf(r) = k
                                 /\ reader[r].cut = x /\ 0 <= reader[r].age
        BY <1>2, <2>1, <2>2, KeyIs DEF Awaited, BoardInv, ReaderRow
      <4> QED
        BY <1>1, <2>2, <3>1, <3>3, <4>1 DEF Awaited, KeyOf
    <3>5. Honest(flight[j].copy)'
      BY <3>2, <3>3 DEF Honest, Earliest
    <3>6. flight'[j].copy.board = Truth(k, flight[j].copy)'
      BY <3>1, <3>2, <3>3 DEF Truth, BoardOf
    <3> QED
      BY <1>5, <2>2, <3>1, <3>3, <3>4, <3>5, <3>6 DEF FlightOK, IsCopy
  <2>3. CASE j # k
    <3>1. flight'[j] = flight[j]
      BY <1>5, <2>3
    <3>2. Awaited(j)'
      BY <1>1, <2>1, <3>1 DEF Awaited, KeyOf
    <3> QED
      BY <1>1, <2>1, <3>1, <3>2, FlightRowKept
  <2> QED
    BY <2>2, <2>3
<1>9. ASSUME NEW j \in DOMAIN redis PROVE RedisOK(j)'
  BY <1>1, <1>9, RedisRowKept DEF BoardInv
<1> QED
  BY <1>1, <1>6, <1>7, <1>8, <1>9 DEF BoardInv

(* A load that ends takes with it exactly the readers that wait for it. *)
LEMMA ReleaseKeepsInv ==
  ASSUME BoardInv, NEW k \in Keys, Release(k), UNCHANGED <<db, moved, clean>>
  PROVE  /\ reader' \in [Readers -> ReaderRow]
         /\ \A q \in Readers : ReaderOK(q)'
         /\ \A j \in DOMAIN flight' : /\ FlightOK(j)' /\ j \in Keys
                                      /\ flight'[j].phase \in {"query", "store"}
<1>1. /\ DOMAIN flight' = DOMAIN flight \ {k}
      /\ \A j \in DOMAIN flight' : flight'[j] = flight[j]
  BY DEF Release, Restrict
<1>2. \A q \in Readers :
        reader'[q] = IF reader[q].pc = "wait" /\ KeyOf(q) = k THEN Resting ELSE reader[q]
  BY DEF Release
<1>3. reader' \in [Readers -> ReaderRow]
  BY RestingRow, KeyIs DEF Release, BoardInv
<1>4. ASSUME NEW q \in Readers PROVE ReaderOK(q)'
  <2>1. reader'[q] = reader[q] \/ reader'[q] = Resting
    BY <1>2
  <2> QED
    BY <2>1, RestingRow, ReaderRowKept DEF BoardInv
<1>5. ASSUME NEW j \in DOMAIN flight' PROVE FlightOK(j)'
  <2>1. j # k /\ FlightOK(j) /\ Awaited(j) /\ flight'[j] = flight[j]
    BY <1>1 DEF BoardInv, FlightOK
  <2>2. Awaited(j)'
    BY <1>2, <2>1 DEF Awaited, KeyOf
  <2> QED
    BY <2>1, <2>2, FlightRowKept
<1>6. \A j \in DOMAIN flight' : j \in Keys /\ flight'[j].phase \in {"query", "store"}
  BY <1>1 DEF BoardInv, TypeOK
<1> QED
  BY <1>3, <1>4, <1>5, <1>6

LEMMA StoreKeepsInv ==
  ASSUME BoardInv, NEW k \in Keys, Store(k)
  PROVE  BoardInv'
<1>1. UNCHANGED <<db, moved, clean>> /\ Release(k) /\ k \in DOMAIN flight
  BY DEF Store
<1>2. /\ reader' \in [Readers -> ReaderRow]
      /\ \A q \in Readers : ReaderOK(q)'
      /\ \A j \in DOMAIN flight' : FlightOK(j)' /\ j \in Keys
                                   /\ flight'[j].phase \in {"query", "store"}
  BY <1>1, ReleaseKeepsInv
<1>3. PICK x : x = flight[k].copy
  OBVIOUS
<1>4. \A j \in DOMAIN redis' :
        \/ j \in DOMAIN redis /\ redis'[j] = redis[j]
        \/ j = k /\ redis'[j] = [copy |-> x, ttl |-> TTL]
  BY <1>3 DEF Store, Set
<1>5. FlightOK(k) /\ Awaited(k) /\ IsCopy(x) /\ flight[k].phase = "store"
  BY <1>1, <1>3 DEF BoardInv, FlightOK, Store
<1>6. PICK r \in Readers : /\ reader[r].pc = "wait" /\ KeyOf(r) = k
                           /\ reader[r].cut = x.cut /\ x.stale <= reader[r].age
  BY <1>3, <1>5 DEF Awaited
<1>7. reader[r].age \in 0..MaxLoad /\ (x.cut = Never <=> k[2] = "live")
  BY <1>6, KeyIs DEF BoardInv, ReaderRow
<1>8. Expiring(x.cut, TTL)
  <2>1. Expiring(x.cut, Window - reader[r].age)
    BY <1>6 DEF BoardInv, ReaderOK
  <2> QED
    BY <1>7, <2>1, Bounds DEF Expiring, BoardInv, TypeOK
<1>9. ASSUME NEW j \in DOMAIN redis'
      PROVE  /\ RedisOK(j)' /\ j \in Keys /\ redis'[j].ttl \in 0..TTL
             /\ (redis'[j].copy.cut = Never <=> j[2] = "live")
  <2>1. CASE j \in DOMAIN redis /\ redis'[j] = redis[j]
    BY <1>1, <2>1, RedisRowKept DEF BoardInv, TypeOK
  <2>2. CASE j = k /\ redis'[j] = [copy |-> x, ttl |-> TTL]
    <3>1. Honest(x)' /\ Truth(k, x)' = Truth(k, x) /\ Expiring(x.cut, TTL)'
      BY <1>1, <1>3, <1>5, <1>8, DbFrame DEF FlightOK
    <3>2. Honest(redis[j].copy)' /\ Expiring(redis[j].copy.cut, redis[j].ttl)'
      BY <2>2, <3>1 DEF Honest, Earliest, Expiring
    <3>3. clean' /\ j[1] = Overall => x.board = Truth(k, x)
      BY <1>1, <1>3, <1>5, <2>2 DEF FlightOK
    <3>4. clean' /\ j[1] = Overall => redis'[j].copy.board = Truth(j, redis[j].copy)'
      BY <2>2, <3>1, <3>3 DEF Truth, BoardOf
    <3>5. x.stale + TTL <= Window
      BY <1>5, <1>6, <1>7, Bounds DEF IsCopy
    <3>6. RedisOK(j)'
      BY <1>5, <2>2, <3>2, <3>4, <3>5 DEF RedisOK, IsCopy
    <3> QED
      BY <1>7, <2>2, <3>6, Bounds
  <2> QED
    BY <1>4, <2>1, <2>2
<1>10. TypeOK'
  BY <1>2, <1>9 DEF Store, BoardInv, TypeOK, ReaderRow, db
<1> QED
  BY <1>2, <1>9, <1>10 DEF BoardInv

LEMMA LoadFailsKeepsInv ==
  ASSUME BoardInv, NEW k \in Keys, LoadFails(k)
  PROVE  BoardInv'
<1>1. UNCHANGED <<db, moved, clean, redis>> /\ Release(k)
  BY DEF LoadFails
<1>2. /\ reader' \in [Readers -> ReaderRow]
      /\ \A q \in Readers : ReaderOK(q)'
      /\ \A j \in DOMAIN flight' : FlightOK(j)' /\ j \in Keys
                                   /\ flight'[j].phase \in {"query", "store"}
  BY <1>1, ReleaseKeepsInv
<1>3. ASSUME NEW j \in DOMAIN redis PROVE RedisOK(j)'
  BY <1>1, <1>3, RedisRowKept DEF BoardInv
<1>4. TypeOK'
  BY <1>2 DEF LoadFails, BoardInv, TypeOK, ReaderRow, db
<1> QED
  BY <1>1, <1>2, <1>3, <1>4 DEF BoardInv

(* A tick changes the age of a copy, not what it shows. *)
LEMMA AgedCopy ==
  ASSUME NEW k, NEW x, IsCopy(x)
  PROVE  /\ IsCopy(Aged(k, x)) /\ Aged(k, x).board = x.board /\ Aged(k, x).cut = x.cut
         /\ Aged(k, x).stale <= x.stale + 1
<1>1. PICK b, cut, n : /\ cut \in Cuts /\ n \in Nat
                       /\ x = [board |-> b, cut |-> cut, stale |-> n]
  BY Zenon DEF IsCopy
<1>2. \E m \in {0, n + 1} : Aged(k, x) = [board |-> b, cut |-> cut, stale |-> m]
  BY <1>1 DEF Aged
<1>3. PICK m \in {0, n + 1} : Aged(k, x) = [board |-> b, cut |-> cut, stale |-> m]
  BY <1>2
<1>4. m \in Nat /\ m <= n + 1
  <2>1. n \in Nat
    BY <1>1
  <2> QED
    BY <1>3, <2>1
<1> QED
  BY <1>1, <1>3, <1>4 DEF IsCopy

LEMMA AgedRow ==
  ASSUME NEW row \in ReaderRow, row.age < MaxLoad
  PROVE  /\ [row EXCEPT !.age = @ + 1] \in ReaderRow
         /\ [row EXCEPT !.age = @ + 1].pc = row.pc
         /\ [row EXCEPT !.age = @ + 1].scope = row.scope
         /\ [row EXCEPT !.age = @ + 1].cut = row.cut
         /\ [row EXCEPT !.age = @ + 1].age = row.age + 1
BY Bounds DEF ReaderRow

LEMMA TickReaders ==
  ASSUME BoardInv, Tick, NEW r \in Readers
  PROVE  /\ reader'[r] \in ReaderRow /\ reader'[r].pc = reader[r].pc
         /\ reader'[r].scope = reader[r].scope /\ reader'[r].cut = reader[r].cut
         /\ reader[r].pc # "idle" =>
              /\ reader'[r].age = reader[r].age + 1 /\ reader'[r].age <= MaxLoad
<1>1. reader[r] \in ReaderRow
  BY KeyIs DEF BoardInv
<1>2. CASE reader[r].pc = "idle"
  BY <1>1, <1>2 DEF Tick
<1>3. CASE reader[r].pc # "idle"
  <2>1. reader[r].age < MaxLoad /\ reader'[r] = [reader[r] EXCEPT !.age = @ + 1]
    BY <1>3 DEF Tick
  <2>2. reader'[r].age \in 0..MaxLoad
    BY <1>1, <2>1, AgedRow DEF ReaderRow
  <2> QED
    BY <1>1, <2>1, <2>2, AgedRow, Bounds
<1> QED
  BY <1>2, <1>3

LEMMA TickExpiry ==
  ASSUME BoardInv, Tick, NEW cut \in Cuts, NEW life \in Nat, life > 0, Expiring(cut, life)
  PROVE  Expiring(cut, life - 1)'
<1>1. UNCHANGED <<freeze, now>> /\ moved \in Int
  BY Bounds DEF Tick, db, BoardInv, TypeOK
<1>2. moved > life => moved' = moved - 1
  BY <1>1 DEF Tick
<1> QED
  BY <1>1, <1>2 DEF Expiring

LEMMA TickFrame ==
  ASSUME Tick
  PROVE  /\ \A x : Honest(x) => Honest(x)'
         /\ \A k, x : Truth(k, x)' = Truth(k, x)
<1>1. UNCHANGED <<solves, awards, worth, listed, bracket>>
  BY DEF Tick, db
<1>2. ASSUME NEW x, Honest(x) PROVE Honest(x)'
  BY <1>1, <1>2, HonestKept
<1>3. ASSUME NEW k, NEW x PROVE Truth(k, x)' = Truth(k, x)
  <2>1. BoardOf(k[1], x.cut)' = BoardOf(k[1], x.cut)
    BY <1>1, BoardKept
  <2> QED
    BY <2>1 DEF Truth
<1> QED
  BY <1>2, <1>3

LEMMA TickFlight ==
  ASSUME BoardInv, Tick, NEW k \in DOMAIN flight
  PROVE  FlightOK(k)' /\ flight'[k].phase \in {"query", "store"}
<1>1. FlightOK(k) /\ flight[k].phase \in {"query", "store"}
  BY DEF BoardInv, TypeOK
<1>2. PICK p, x : flight[k] = [phase |-> p, copy |-> x]
  BY <1>1 DEF FlightOK
<1>3. PICK y : y = IF p = "query" THEN x ELSE Aged(k, x)
  OBVIOUS
<1>4. IsCopy(x) /\ Honest(x)
  BY <1>1, <1>2 DEF FlightOK
<1>5. /\ IsCopy(y) /\ y.board = x.board /\ y.cut = x.cut /\ y.stale <= x.stale + 1
  BY <1>3, <1>4, AgedCopy DEF IsCopy
<1>6. flight'[k] = [phase |-> p, copy |-> y]
  BY <1>2, <1>3 DEF Tick
<1>7. Honest(flight[k].copy)'
  <2>1. Honest(x)'
    BY <1>4, TickFrame
  <2> QED
    BY <1>5, <1>6, <2>1 DEF Honest, Earliest
<1>8. Truth(k, flight[k].copy)' = Truth(k, x)
  <2>1. Truth(k, x)' = Truth(k, x)
    BY TickFrame
  <2> QED
    BY <1>5, <1>6, <2>1 DEF Truth, BoardOf
<1>9. Awaited(k)'
  <2>1. PICK r \in Readers : /\ reader[r].pc = "wait" /\ KeyOf(r) = k
                             /\ reader[r].cut = x.cut /\ x.stale <= reader[r].age
    BY <1>1, <1>2 DEF FlightOK, Awaited
  <2>2. /\ reader'[r].pc = "wait" /\ reader'[r].cut = y.cut
        /\ reader'[r].scope = reader[r].scope /\ reader'[r].cut = reader[r].cut
        /\ reader'[r].age = reader[r].age + 1
    BY <1>5, <2>1, TickReaders
  <2>3. KeyOf(r)' = k
    BY <2>1, <2>2 DEF KeyOf
  <2>4. reader[r].age \in Int /\ x.stale \in Int /\ y.stale \in Int
    BY <1>4, <1>5, KeyIs, Bounds DEF BoardInv, ReaderRow, IsCopy
  <2>5. y.stale <= reader'[r].age
    BY <1>5, <2>1, <2>2, <2>4
  <2>6. (flight[k].copy)' = y
    BY <1>6
  <2> QED
    BY <2>2, <2>3, <2>5, <2>6 DEF Awaited
<1>10. p = "query" => y = Unread(y.cut)
  BY <1>1, <1>2, <1>3 DEF FlightOK
<1>11. clean' /\ p = "store" /\ k[1] = Overall => y.board = Truth(k, x)
  BY <1>1, <1>2, <1>5 DEF FlightOK, Tick
<1> QED
  BY <1>1, <1>2, <1>5, <1>6, <1>7, <1>8, <1>9, <1>10, <1>11 DEF FlightOK, IsCopy, Unread

LEMMA TickRedis ==
  ASSUME BoardInv, Tick, NEW k \in DOMAIN redis'
  PROVE  /\ RedisOK(k)' /\ k \in Keys /\ redis'[k].ttl \in 0..TTL
         /\ (redis'[k].copy.cut = Never <=> k[2] = "live")
<1>1. k \in DOMAIN redis /\ redis[k].ttl > 0
  BY DEF Tick
<1>2. RedisOK(k) /\ redis[k].ttl \in 0..TTL /\ k \in Keys
  BY <1>1 DEF BoardInv, TypeOK
<1>3. PICK x, n : redis[k] = [copy |-> x, ttl |-> n]
  BY <1>2 DEF RedisOK
<1>4. PICK y : y = Aged(k, x)
  OBVIOUS
<1>5. redis'[k] = [copy |-> y, ttl |-> n - 1]
  BY <1>3, <1>4 DEF Tick
<1>6. IsCopy(x) /\ Honest(x) /\ x.stale + n <= Window /\ Expiring(x.cut, n) /\ n > 0 /\ n <= TTL
  BY <1>1, <1>2, <1>3, Bounds DEF RedisOK
<1>6a. n \in Nat /\ x.cut \in Cuts /\ x.stale \in Nat
  <2>1. n \in 0..TTL
    BY <1>2, <1>3
  <2> QED
    BY <1>6, <2>1, Bounds DEF IsCopy
<1>7. /\ IsCopy(y) /\ y.board = x.board /\ y.cut = x.cut /\ y.stale <= x.stale + 1
  BY <1>4, <1>6, AgedCopy
<1>8. Honest(redis[k].copy)'
  <2>1. Honest(x)'
    BY <1>6, TickFrame
  <2> QED
    BY <1>5, <1>7, <2>1 DEF Honest, Earliest
<1>9. Truth(k, redis[k].copy)' = Truth(k, x)
  <2>1. Truth(k, x)' = Truth(k, x)
    BY TickFrame
  <2> QED
    BY <1>5, <1>7, <2>1 DEF Truth, BoardOf
<1>10. Expiring(redis[k].copy.cut, redis[k].ttl)'
  <2>1. Expiring(x.cut, n - 1)'
    BY <1>6, <1>6a, TickExpiry
  <2> QED
    BY <1>5, <1>7, <2>1 DEF Expiring
<1>11. y.stale + (n - 1) <= Window /\ n - 1 \in 0..TTL
  <2>1. y.stale \in Nat /\ Window \in Nat
    BY <1>7, Bounds DEF IsCopy, Window
  <2> QED
    BY <1>6, <1>7, <1>6a, <2>1, Bounds
<1>12. clean' /\ k[1] = Overall => y.board = Truth(k, x)
  BY <1>2, <1>3, <1>7 DEF RedisOK, Tick
<1>13. y.cut = Never <=> k[2] = "live"
  BY <1>1, <1>3, <1>7 DEF BoardInv, TypeOK
<1> QED
  BY <1>2, <1>5, <1>7, <1>8, <1>9, <1>10, <1>11, <1>12, <1>13 DEF RedisOK, IsCopy

LEMMA TickKeepsInv == BoardInv /\ Tick => BoardInv'
<1> SUFFICES ASSUME BoardInv, Tick PROVE BoardInv'
  OBVIOUS
<1>1. ASSUME NEW r \in Readers PROVE ReaderOK(r)'
  <2>1. CASE reader[r].pc = "idle"
    BY <2>1, TickReaders DEF ReaderOK
  <2>2. CASE reader[r].pc # "idle"
    <3>1. PICK cut \in Cuts, age \in 0..MaxLoad :
            cut = reader[r].cut /\ age = reader[r].age /\ age + 1 <= MaxLoad
      BY <2>2, KeyIs, TickReaders DEF BoardInv, ReaderRow
    <3>2. Window - age \in Nat /\ Window - age > 0
      BY <3>1, Bounds
    <3>3. Expiring(cut, Window - age)
      BY <2>2, <3>1 DEF BoardInv, ReaderOK
    <3>4. Expiring(cut, Window - age - 1)'
      BY <3>2, <3>3, TickExpiry
    <3>5. reader'[r].cut = cut /\ Window - reader'[r].age = Window - age - 1
      BY <2>2, <3>1, TickReaders, Bounds
    <3> QED
      BY <3>4, <3>5 DEF ReaderOK, Expiring, Window
  <2> QED
    BY <2>1, <2>2
<1>2. DOMAIN flight' = DOMAIN flight
  BY DEF Tick
<1>3. reader' \in [Readers -> ReaderRow]
  <2>1. \A r \in Readers : reader'[r] \in ReaderRow
    BY TickReaders
  <2>2. reader' = [r \in Readers |-> reader'[r]]
    BY DEF Tick
  <2> QED
    BY <2>1, <2>2
<1>4. TypeOK'
  <2>1. moved' \in 0..Window + 1
    BY Bounds DEF Tick, BoardInv, TypeOK
  <2>2. \A k \in DOMAIN flight' : k \in Keys /\ flight'[k].phase \in {"query", "store"}
    BY <1>2, TickFlight DEF BoardInv, TypeOK
  <2>3. \A k \in DOMAIN redis' : /\ k \in Keys /\ redis'[k].ttl \in 0..TTL
                                 /\ (redis'[k].copy.cut = Never <=> k[2] = "live")
    BY TickRedis
  <2> QED
    BY <1>3, <2>1, <2>2, <2>3 DEF Tick, BoardInv, TypeOK, ReaderRow, db
<1> QED
  BY <1>1, <1>2, <1>4, TickFlight, TickRedis DEF BoardInv

(* An invalidation that reaches Redis leaves no board of all teams there; it *)
(* is clean if no load has one either.                                       *)
LEMMA InvalidateKeepsInv == BoardInv /\ InvalidateAll => BoardInv'
<1> SUFFICES ASSUME BoardInv, InvalidateAll PROVE BoardInv'
  OBVIOUS
<1>1. UNCHANGED <<db, flight, reader, moved>>
  BY DEF InvalidateAll
<1>2. UNCHANGED <<solves, awards, worth, listed, bracket, freeze, now>>
  BY <1>1 DEF db
<1>3. pending' \in 0..MaxPending
  BY ScoreboardBounds DEF InvalidateAll, BoardInv, TypeOK
<1>4. CASE UNCHANGED <<redis, clean>>
  <2>1. TypeOK'
    BY <1>3, <1>4 DEF InvalidateAll, BoardInv, TypeOK, db
  <2>2. \A cut, life : Expiring(cut, life) => Expiring(cut, life)'
    BY <1>1, <1>4, DbFrame
  <2> QED
    BY <1>1, <1>2, <1>4, <2>1, <2>2, CachesKept
<1>5. CASE redis' = Del /\ clean' = (\A k \in Loaded : k[1] # Overall)
  <2>1. ASSUME NEW k \in DOMAIN redis'
        PROVE  k \in DOMAIN redis /\ redis'[k] = redis[k] /\ k[1] # Overall
    <3>1. /\ k \in DOMAIN redis /\ redis'[k] = redis[k]
          /\ k # <<Overall, "live">> /\ k # <<Overall, "frozen">>
      BY <1>5, <2>1 DEF Del, Restrict
    <3>2. k \in Scopes \X {"live", "frozen"}
      BY <3>1 DEF BoardInv, TypeOK, Keys
    <3> QED
      BY <3>1, <3>2
  <2>2. TypeOK'
    BY <1>3, <1>5, <2>1 DEF InvalidateAll, BoardInv, TypeOK, db
  <2>3. ASSUME NEW cut, NEW life PROVE Expiring(cut, life) <=> Expiring(cut, life)'
    BY <1>1, <1>2 DEF Expiring
  <2>4. ASSUME NEW r \in Readers PROVE ReaderOK(r)'
    BY <1>1, <1>2 DEF BoardInv, ReaderOK, Expiring
  <2>5. ASSUME NEW k \in DOMAIN flight PROVE FlightOK(k)'
    <3>1. FlightOK(k)
      BY DEF BoardInv
    <3>2. Honest(flight[k].copy)' /\ Awaited(k)'
      BY <1>1, <1>2, <3>1 DEF FlightOK, Honest, Earliest, Awaited, KeyOf
    <3>3. ~(clean' /\ flight'[k].phase = "store" /\ k[1] = Overall)
      BY <1>1, <1>5 DEF Loaded
    <3> QED
      BY <1>1, <3>1, <3>2, <3>3 DEF FlightOK, IsCopy, Unread
  <2>6. ASSUME NEW k \in DOMAIN redis' PROVE RedisOK(k)'
    <3>1. RedisOK(k) /\ redis'[k] = redis[k] /\ k[1] # Overall
      BY <2>1 DEF BoardInv
    <3>2. Honest(redis[k].copy)' /\ Expiring(redis[k].copy.cut, redis[k].ttl)'
      BY <1>1, <1>2, <3>1 DEF RedisOK, Honest, Earliest, Expiring
    <3> QED
      BY <3>1, <3>2 DEF RedisOK, IsCopy
  <2> QED
    BY <1>1, <2>2, <2>4, <2>5, <2>6 DEF BoardInv
<1> QED
  BY <1>4, <1>5 DEF InvalidateAll

-----------------------------------------------------------------------------
LEMMA InitBoardInv == Init => BoardInv
<1> SUFFICES ASSUME Init PROVE BoardInv
  OBVIOUS
<1>1. \A r \in Readers : reader[r] = Resting
  BY DEF Init
<1>2. DOMAIN tx = {} /\ DOMAIN redis = {} /\ DOMAIN flight = {}
  BY DEF Init, Empty
<1>3. reader \in [Readers -> ReaderRow]
  BY RestingRow DEF Init
<1>4. now \in Instants /\ pending \in 0..MaxPending /\ edits \in 0..MaxEdits
      /\ moved \in 0..Window + 1
  BY Bounds, ScoreboardBounds DEF Init, Instants
<1>5. TypeOK
  BY <1>2, <1>3, <1>4 DEF Init, TypeOK, ReaderRow
<1>6. \A r \in Readers : ReaderOK(r)
  BY <1>1, RestingRow DEF ReaderOK
<1> QED
  BY <1>2, <1>5, <1>6 DEF BoardInv

LEMMA StutterKeepsInv == BoardInv /\ UNCHANGED vars => BoardInv'
<1> SUFFICES ASSUME BoardInv, UNCHANGED vars PROVE BoardInv'
  OBVIOUS
<1>1. TypeOK'
  BY DEF BoardInv, TypeOK, vars
<1>2. UNCHANGED <<db, moved, clean>>
  BY DEF vars, db
<1>3. \A cut, life : Expiring(cut, life) => Expiring(cut, life)'
  BY <1>2, DbFrame
<1> QED
  BY <1>1, <1>3, CachesKept DEF vars

LEMMA BoardInvStep == BoardInv /\ [Next]_vars => BoardInv'
<1> SUFFICES ASSUME BoardInv, [Next]_vars PROVE BoardInv'
  OBVIOUS
<1>1. CASE UNCHANGED vars
  BY <1>1, StutterKeepsInv
<1>2. CASE Next
  <2>1. CASE WriterStep \/ SilentStep
    BY <2>1, WriterKeepsInv, SilentKeepsInv
  <2>2. CASE ~(WriterStep \/ SilentStep)
    BY <1>2, <2>2, TickKeepsInv, InvalidateKeepsInv, HitKeepsInv, MissKeepsInv,
       GetScoreboardKeepsInv, QueryKeepsInv, StoreKeepsInv, LoadFailsKeepsInv
       DEF Next, WriterStep, SilentStep
  <2> QED
    BY <2>1, <2>2
<1> QED
  BY <1>1, <1>2

LEMMA BoardInvHolds == Spec => []BoardInv
<1> QED
  BY InitBoardInv, BoardInvStep, PTL DEF Spec

(* Tables, cached boards, loads and readers keep their types; a key says     *)
(* whether its board is live or frozen.                                      *)
THEOREM ScoreboardTypeOK == Spec => []TypeOK
<1>1. BoardInv => TypeOK
  BY DEF BoardInv
<1> QED
  BY <1>1, BoardInvHolds, PTL

(* No cached board has been untrue for longer than the TTL and one load      *)
(* (pkg/cache), however many loads, writers and failures there are.          *)
THEOREM StalenessIsBounded == Spec => []BoundedStaleness
<1>1. BoardInv => BoundedStaleness
  <2> SUFFICES ASSUME BoardInv PROVE BoundedStaleness
    OBVIOUS
  <2>1. ASSUME NEW k \in DOMAIN redis PROVE redis[k].copy.stale <= Window
    <3>1. RedisOK(k) /\ redis[k].ttl \in 0..TTL
      BY DEF BoardInv, TypeOK
    <3> QED
      BY <3>1, Bounds DEF RedisOK, IsCopy
  <2>2. ASSUME NEW k \in DOMAIN flight PROVE flight[k].copy.stale <= MaxLoad
    <3>1. FlightOK(k)
      BY DEF BoardInv
    <3>2. PICK r \in Readers : flight[k].copy.stale <= reader[r].age
      BY <3>1 DEF FlightOK, Awaited
    <3>3. reader[r].age \in 0..MaxLoad
      BY KeyIs DEF BoardInv, ReaderRow
    <3> QED
      BY <3>1, <3>2, <3>3, Bounds DEF FlightOK, IsCopy
  <2> QED
    BY <2>1, <2>2 DEF BoundedStaleness
<1> QED
  BY <1>1, BoardInvHolds, PTL

(* Behind a freeze nobody moved lately, a cached board shows points only of  *)
(* teams that had some by the freeze (GetScoreboard, solve.go).              *)
THEOREM FreezeHides == Spec => []FrozenHidesLateSolves
<1>1. BoardInv => FrozenHidesLateSolves
  <2> SUFFICES ASSUME BoardInv, NEW k \in DOMAIN redis, k[2] = "frozen", moved = 0,
                      NEW t \in DOMAIN redis[k].copy.board, redis[k].copy.board[t] # 0
               PROVE  Earliest(t, freeze)
    BY DEF FrozenHidesLateSolves, Earliest
  <2>1. /\ RedisOK(k) /\ redis[k].ttl \in 0..TTL /\ redis[k].copy.cut # Never
    BY DEF BoardInv, TypeOK
  <2>2. redis[k].copy.cut = freeze
    BY <2>1, Bounds DEF RedisOK, Expiring
  <2> QED
    BY <2>1, <2>2 DEF RedisOK, Honest
<1> QED
  BY <1>1, BoardInvHolds, PTL

(* After an invalidation that met no loaded board the cached boards of all   *)
(* teams are what the tables say, until the next commit.                     *)
THEOREM SettledIsExact == Spec => []SettledBoardIsExact
<1>1. BoardInv => SettledBoardIsExact
  BY DEF BoardInv, RedisOK, SettledBoardIsExact
<1> QED
  BY <1>1, BoardInvHolds, PTL
=============================================================================
