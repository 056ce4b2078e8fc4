----------------------------- MODULE Scoreboard -----------------------------
(* GetScoreboard (internal/usecase/competition/solve.go) behind the cache    *)
(* (pkg/cache): the key is chosen from the competition row, Redis is asked,  *)
(* and on a miss one load per key runs for everybody who waits, its result   *)
(* kept for TTL ticks.  Writers commit and then delete the two boards of all *)
(* teams; the boards of a bracket only time out.                             *)
EXTENDS Integers, FiniteSets, FiniteSetsExt, Functions

CONSTANTS Teams, Challenges, Brackets, Readers,
          Overall,     \* scope of the board of all teams
          NoBracket, Never,
          Prices,      \* points a challenge may be worth
          Gifts,       \* values of an award
          FreezeTimes, \* instants an administrator may freeze the board at
          MaxInstant,  \* bound: the competition's instants are 0..MaxInstant
          TTL,         \* ticks Redis keeps a board (15 s)
          MaxLoad,     \* bound: ticks from reading the competition to the answer
          MaxEdits,    \* bound: steps of administrators and captains
          MaxPending   \* bound: writers between commit and invalidation

ASSUME ScoreboardNames == /\ Overall \notin Brackets /\ NoBracket \notin Brackets
                          /\ NoBracket # Overall
ASSUME ScoreboardBounds == /\ MaxInstant \in Nat /\ Never \notin Int
                           /\ FreezeTimes \subseteq Int
                           /\ TTL \in Nat /\ MaxLoad \in Nat
                           /\ MaxEdits \in Nat /\ MaxPending \in Nat \ {0}
                           /\ Prices \subseteq Nat /\ Gifts \subseteq Int \ {0}

VARIABLES solves,   \* solves table: team, challenge, solved_at
          awards,   \* awards table: team, value, created_at
          worth,    \* challenges.points
          listed,   \* teams that are neither banned, hidden nor deleted
          gone,     \* teams with deleted_at set
          bracket,  \* teams.bracket_id
          freeze,   \* competition.freeze_time
          now,      \* instant of the competition
          tx,       \* uncommitted solve under the lock of each challenges row
          pending,  \* writers that have committed and not yet invalidated
          redis,    \* cached boards by key
          flight,   \* singleflight group: the load running for each key
          reader,   \* the calls of GetScoreboard
          edits, moved, clean

db == <<solves, awards, worth, listed, gone, bracket, freeze, now, tx>>
caches == <<redis, flight, reader>>
vars == <<solves, awards, worth, listed, gone, bracket, freeze, now, tx,
          pending, redis, flight, reader, edits, moved, clean>>

Instants == 0..MaxInstant
Cuts == FreezeTimes \cup {Never}         \* Never: the live board
Scopes == {Overall} \cup Brackets
Keys == Scopes \X {"live", "frozen"}
Window == TTL + MaxLoad
Empty == [x \in {} |-> 0]

----------------------------------------------------------------------------
(* The four scoreboard queries (queries/solves.sql).                         *)
Counted(stamp, cut) == cut = Never \/ stamp <= cut
(* Variant: awards are summed without the cut. *)
PointsWithEveryAward(t, cut) ==
  MapThenSumSet(LAMBDA s : worth[s.challenge],
                {s \in solves : s.team = t /\ Counted(s.at, cut)})
  + MapThenSumSet(LAMBDA a : a.value, {a \in awards : a.team = t})
Points(t, cut) ==
  MapThenSumSet(LAMBDA s : worth[s.challenge],
                {s \in solves : s.team = t /\ Counted(s.at, cut)})
  + MapThenSumSet(LAMBDA a : a.value,
                {a \in awards : a.team = t /\ Counted(a.at, cut)})
BoardOf(scope, cut) ==
  [t \in {u \in listed : scope = Overall \/ bracket[u] = scope} |-> Points(t, cut)]

Copy(k, cut) == [board |-> BoardOf(k[1], cut), cut |-> cut, stale |-> 0]
Unread(cut) == [board |-> Empty, cut |-> cut, stale |-> 0]
Truth(k, copy) == BoardOf(k[1], copy.cut)

TypeOK ==
  /\ solves \subseteq [team : Teams, challenge : Challenges, at : Instants]
  /\ awards \subseteq [team : Teams, value : Gifts, at : Instants]
  /\ worth \in [Challenges -> Prices]
  /\ listed \subseteq Teams \ gone /\ gone \subseteq Teams
  /\ bracket \in [Teams -> Brackets \cup {NoBracket}]
  /\ freeze \in Cuts /\ now \in Instants
  /\ \A c \in DOMAIN tx : c \in Challenges /\ tx[c] \in Teams \X Instants
  /\ pending \in 0..MaxPending
  /\ \A k \in DOMAIN redis : /\ k \in Keys /\ redis[k].ttl \in 0..TTL
                             /\ redis[k].copy.cut = Never <=> k[2] = "live"
  /\ \A k \in DOMAIN flight : k \in Keys /\ flight[k].phase \in {"query", "store"}
  /\ reader \in [Readers -> [pc : {"idle", "get", "wait"}, scope : Scopes,
                             cut : Cuts, age : 0..MaxLoad]]
  /\ edits \in 0..MaxEdits /\ moved \in 0..Window + 1 /\ clean \in BOOLEAN

Resting == [pc |-> "idle", scope |-> Overall, cut |-> Never, age |-> 0]

Init ==
  /\ solves = {} /\ awards = {} /\ worth \in [Challenges -> Prices]
  /\ listed = Teams /\ gone = {}
  /\ bracket = [t \in Teams |-> NoBracket]
  /\ freeze \in Cuts /\ now = 0 /\ tx = Empty /\ pending = 0
  /\ redis = Empty /\ flight = Empty /\ reader = [r \in Readers |-> Resting]
  /\ edits = 0 /\ moved = 0 /\ clean = TRUE

----------------------------------------------------------------------------
Frozen == freeze # Never /\ now > freeze
(* Variant: one key for the live and the frozen board. *)
KeyWithoutFreeze(scope, cut) == <<scope, "live">>
(* GetScoreboard.  A key is a scope and whether the board is frozen.         *)
CacheKey(scope, cut) == <<scope, IF cut = Never THEN "live" ELSE "frozen">>
KeyOf(r) == CacheKey(reader[r].scope, reader[r].cut)

GetScoreboard(r, scope) ==
  /\ reader[r].pc = "idle"
  /\ reader' = [reader EXCEPT ![r] = [pc |-> "get", scope |-> scope, age |-> 0,
                                      cut |-> IF Frozen THEN freeze ELSE Never]]
  /\ UNCHANGED <<db, pending, redis, flight, edits, moved, clean>>

(* Redis has the board; or it has not, or does not answer, and the call      *)
(* starts a load for the key or joins the one that runs (singleflight.Do).   *)
Hit(r) ==
  /\ reader[r].pc = "get" /\ KeyOf(r) \in DOMAIN redis
  /\ reader' = [reader EXCEPT ![r] = Resting]
  /\ UNCHANGED <<db, pending, redis, flight, edits, moved, clean>>

Miss(r) ==
  /\ reader[r].pc = "get"
  /\ reader' = [reader EXCEPT ![r].pc = "wait"]
  /\ flight' = IF KeyOf(r) \in DOMAIN flight THEN flight
               ELSE [k \in DOMAIN flight \cup {KeyOf(r)} |->
                       IF k = KeyOf(r) THEN [phase |-> "query", copy |-> Unread(reader[r].cut)]
                       ELSE flight[k]]
  /\ UNCHANGED <<db, pending, redis, edits, moved, clean>>

(* The statement of the load sees what is committed when it runs.            *)
Query(k) ==
  /\ k \in DOMAIN flight /\ flight[k].phase = "query"
  /\ flight' = [flight EXCEPT ![k] = [phase |-> "store", copy |-> Copy(k, flight[k].copy.cut)]]
  /\ UNCHANGED <<db, pending, redis, reader, edits, moved, clean>>

(* Everybody who waits for the load of k gets its result, or its error.      *)
Release(k) ==
  /\ flight' = Restrict(flight, DOMAIN flight \ {k})
  /\ reader' = [r \in Readers |-> IF reader[r].pc = "wait" /\ KeyOf(r) = k
                                  THEN Resting ELSE reader[r]]

(* Variant: a board is kept a tick too long. *)
SetForever(k) ==
  redis' = [j \in DOMAIN redis \cup {k} |->
              IF j = k THEN [copy |-> flight[k].copy, ttl |-> TTL + 1] ELSE redis[j]]
Set(k) ==
  redis' = [j \in DOMAIN redis \cup {k} |->
              IF j = k THEN [copy |-> flight[k].copy, ttl |-> TTL] ELSE redis[j]]

Store(k) ==
  /\ k \in DOMAIN flight /\ flight[k].phase = "store"
  /\ Set(k) \/ UNCHANGED redis
  /\ Release(k)
  /\ UNCHANGED <<db, pending, edits, moved, clean>>

LoadFails(k) ==
  /\ k \in DOMAIN flight
  /\ Release(k)
  /\ UNCHANGED <<db, pending, redis, edits, moved, clean>>

----------------------------------------------------------------------------
(* A tick: boards time out, and copies that are not true grow stale.         *)
Aged(k, copy) == [copy EXCEPT !.stale = IF copy.board = Truth(k, copy) THEN 0 ELSE @ + 1]

Tick ==
  /\ \A r \in Readers : reader[r].pc = "idle" \/ reader[r].age < MaxLoad
  /\ redis' = [k \in {j \in DOMAIN redis : redis[j].ttl > 0} |->
                 [copy |-> Aged(k, redis[k].copy), ttl |-> redis[k].ttl - 1]]
  /\ flight' = [k \in DOMAIN flight |-> IF flight[k].phase = "query" THEN flight[k]
                                   ELSE [flight[k] EXCEPT !.copy = Aged(k, @)]]
  /\ reader' = [r \in Readers |-> IF reader[r].pc = "idle" THEN reader[r]
                                  ELSE [reader[r] EXCEPT !.age = @ + 1]]
  /\ moved' = IF moved = 0 THEN 0 ELSE moved - 1
  /\ UNCHANGED <<db, pending, edits, clean>>

(* The next instant of the competition comes, perhaps past the freeze.       *)
PassInstant ==
  /\ now < MaxInstant /\ now' = now + 1
  /\ UNCHANGED <<solves, awards, worth, listed, gone, bracket, freeze, tx,
                 pending, caches, edits, moved, clean>>

----------------------------------------------------------------------------
(* Writers.  A commit that will invalidate adds a pending invalidation.      *)
Commit == pending < MaxPending /\ pending' = pending + 1 /\ clean' = FALSE
CommitOnly == pending' = pending /\ clean' = FALSE
Edit == edits < MaxEdits /\ edits' = edits + 1

(* submitRecordSolve stamps the solve when it inserts the row.               *)
InsertSolve(t, c) ==
  /\ c \notin DOMAIN tx /\ t \notin gone
  /\ ~\E s \in solves : s.team = t /\ s.challenge = c
  /\ tx' = [d \in DOMAIN tx \cup {c} |-> IF d = c THEN <<t, now>> ELSE tx[d]]
  /\ UNCHANGED <<solves, awards, worth, listed, gone, bracket, freeze, now,
                 pending, caches, edits, moved, clean>>

CommitSolve(c) ==
  /\ c \in DOMAIN tx /\ Commit
  /\ solves' = solves \cup {[team |-> tx[c][1], challenge |-> c, at |-> tx[c][2]]}
  /\ \E p \in Prices : p <= worth[c] /\ worth' = [worth EXCEPT ![c] = p]
  /\ tx' = Restrict(tx, DOMAIN tx \ {c})
  /\ UNCHANGED <<awards, listed, gone, bracket, freeze, now, caches, edits, moved>>

RollBackSolve(c) ==
  /\ c \in DOMAIN tx /\ tx' = Restrict(tx, DOMAIN tx \ {c})
  /\ UNCHANGED <<solves, awards, worth, listed, gone, bracket, freeze, now,
                 pending, caches, edits, moved, clean>>

(* CreateAward, and the negative award of a hint.                            *)
CreateAward(t) ==
  /\ Edit /\ Commit
  /\ \E v \in Gifts : awards' = awards \cup {[team |-> t, value |-> v, at |-> now]}
  /\ UNCHANGED <<solves, worth, listed, gone, bracket, freeze, now, tx, caches, moved>>

UpdateChallenge(c) ==
  /\ c \notin DOMAIN tx /\ Edit /\ Commit
  /\ \E p \in Prices \ {worth[c]} : worth' = [worth EXCEPT ![c] = p]
  /\ UNCHANGED <<solves, awards, listed, gone, bracket, freeze, now, tx, caches, moved>>

(* BanTeam, UnbanTeam and SetHidden.                                         *)
ListTeam(t) ==
  /\ t \notin gone /\ Edit /\ Commit
  /\ listed' = IF t \in listed THEN listed \ {t} ELSE listed \cup {t}
  /\ UNCHANGED <<solves, awards, worth, gone, bracket, freeze, now, tx, caches, moved>>

SetBracket(t) ==
  /\ t \notin gone /\ Edit /\ Commit
  /\ \E b \in Brackets \cup {NoBracket} : b # bracket[t] /\ bracket' = [bracket EXCEPT ![t] = b]
  /\ UNCHANGED <<solves, awards, worth, listed, gone, freeze, now, tx, caches, moved>>

(* DisbandTeam leaves the cache as it is.                                    *)
DisbandTeam(t) ==
  /\ t \notin gone /\ Edit /\ CommitOnly
  /\ gone' = gone \cup {t} /\ listed' = listed \ {t}
  /\ UNCHANGED <<solves, awards, worth, bracket, freeze, now, tx, caches, moved>>

(* So does a new freeze time; moved counts the ticks the old one may show.   *)
UpdateCompetition ==
  /\ Edit /\ CommitOnly
  /\ freeze' \in Cuts \ {freeze}
  /\ moved' = IF Frozen THEN Window + 1 ELSE moved
  /\ UNCHANGED <<solves, awards, worth, listed, gone, bracket, now, tx, caches>>

(* Variant: the frozen board is not deleted. *)
ForgetFrozen == Restrict(redis, DOMAIN redis \ {<<Overall, "live">>})
Del == Restrict(redis, DOMAIN redis \ {<<Overall, "live">>, <<Overall, "frozen">>})

Loaded == {k \in DOMAIN flight : flight[k].phase = "store"}

(* The two overall keys are deleted, or the call to Redis fails.             *)
InvalidateAll ==
  /\ pending > 0 /\ pending' = pending - 1
  /\ \/ redis' = Del /\ clean' = (\A k \in Loaded : k[1] # Overall)
     \/ UNCHANGED <<redis, clean>>
  /\ UNCHANGED <<db, flight, reader, edits, moved>>

Next ==
  \/ Tick \/ PassInstant \/ UpdateCompetition \/ InvalidateAll
  \/ \E r \in Readers : Hit(r) \/ Miss(r) \/ \E s \in Scopes : GetScoreboard(r, s)
  \/ \E k \in Keys : Query(k) \/ Store(k) \/ LoadFails(k)
  \/ \E t \in Teams : \/ CreateAward(t) \/ ListTeam(t) \/ SetBracket(t) \/ DisbandTeam(t)
                      \/ \E c \in Challenges : InsertSolve(t, c)
  \/ \E c \in Challenges : CommitSolve(c) \/ RollBackSolve(c) \/ UpdateChallenge(c)

Spec == Init /\ [][Next]_vars

----------------------------------------------------------------------------
(* What is cached was true, for the cut it was asked for, at most TTL and    *)
(* one load ago, whatever the writers and the shared loads do.               *)
BoundedStaleness ==
  /\ \A k \in DOMAIN redis : redis[k].copy.stale <= Window
  /\ \A k \in DOMAIN flight : flight[k].copy.stale <= MaxLoad

(* Behind the freeze a team with nothing before it shows no points, save     *)
(* for the window after an administrator moved a freeze already passed.      *)
FrozenHidesLateSolves ==
  \A k \in DOMAIN redis : Frozen /\ k[2] = "frozen" /\ moved = 0 =>
    \A t \in DOMAIN redis[k].copy.board :
      redis[k].copy.board[t] # 0 =>
        \/ \E s \in solves : s.team = t /\ s.at <= freeze
        \/ \E a \in awards : a.team = t /\ a.at <= freeze

(* Once an invalidation has met no loaded board on its way to Redis, the     *)
(* boards of all teams are exact until the next commit.                      *)
SettledBoardIsExact ==
  clean => \A k \in DOMAIN redis :
             k[1] = Overall => redis[k].copy.board = Truth(k, redis[k].copy)
=============================================================================
