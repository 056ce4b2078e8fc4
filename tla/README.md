# CTFBoard: a TLA+ model of the platform and its proofs

CTFBoard is a Go server for capture-the-flag competitions: users form teams,
teams submit flags for challenges, points and hints are accounted, a scoreboard
and a WebSocket feed show the state.  The server keeps its state in PostgreSQL
and caches some of it in Redis; every HTTP request runs in a goroutine of its
own, so the correctness of the platform is mostly the correctness of concurrent
database transactions.  This directory holds TLA+ modules for the parts where
that is hardest to get right, TLC configurations that check them, and TLAPS
proofs of the properties that matter most.

Paths below are relative to `src/backend/` unless they start with `src/`.

## 1. The system

| component | state | operations | talks to |
|---|---|---|---|
| teams (`internal/usecase/team/team.go`, `tx_team.go`, `tx_user.go`) | `users.team_id`, `teams` (captain, solo, `deleted_at`, banned, hidden) | create, create solo, join, leave, transfer captain, disband, kick, ban, hide, bracket | competition guard, scoreboard cache |
| competition (`competition.go`, `guard.go`, `entity/competition.go`) | the single `competition` row; a 5 s Redis copy | update, status, submission and team-switch guards | every handler behind the middleware |
| challenges and submissions (`challenge.go`, `scoring.go`, `solve.go`, `submission.go`) | `challenges`, `solves`, `submissions` | create, edit, delete a challenge; submit a flag; log the submission | teams, cache, WebSocket |
| hints and awards (`hint.go`, `award.go`) | `hints`, `hint_unlocks`, `awards` | create, edit, delete, unlock a hint; give an award | teams (row lock), scores |
| scoreboard (`solve.go`, `queries/solves.sql`, `pkg/cache`) | Redis copies per (bracket, frozen), 15 s | read through the cache, invalidate | submissions, teams, awards |
| dynamic configuration (`dynamic_config.go`) | `configs` rows, a 30 s in-process copy | get, set, delete, reload | administrator |
| settings (`settings.go`, `validator.go`, `field.go`) | `app_settings`, `fields`, a 5 min copy | get, update, custom fields | user registration |
| users and API tokens (`user.go`, `apitoken.go`, `pkg/jwt`) | `users`, `api_tokens` | register, log in, issue and revoke tokens | e-mail |
| e-mail (`email.go`, `pkg/mailer/async.go`) | `verification_tokens`, an in-memory queue of 100 with 2 workers | send, verify, reset, stop | users |
| notifications and WebSocket (`notification.go`, `pkg/websocket`) | connected clients with bounded buffers, a hub queue, Redis pub/sub | register, unregister, broadcast | submissions, notifications |
| ratings (`rating.go`) | `ctf_events`, `team_ratings`, `global_ratings` | create and finalize an event | scoreboard |
| backup (`backup.go`, `backup_postgres.go`) | a ZIP of challenges, hints, teams, awards and stored files | export, import (keep or erase existing rows) | every table, file storage |
| files, tags, comments, pages, brackets, statistics | their own tables, file storage | create, read, update, delete | challenges |
| cleanup job (`cmd/cleanup`, `usecase/cleanup.go`) | `teams.deleted_at` | nightly hard delete after 30 days | teams, and by cascade users and solves |
| persistence (`internal/repo/persistent`, `schema/`, `queries/`) | all tables, their unique indexes and foreign keys | one SQL statement per method; `RunTransaction` | all |
| shell (`internal/app`, `config`, `wire`, controllers, middleware) | none of its own | routing, rate limits, authentication | all |

How they interact.  A request passes the middleware (token, user row, cached
competition, rate limit), calls one use case, which runs one or more statements
on the connection pool or inside a READ COMMITTED transaction
(`RunTransaction`), and then invalidates caches and broadcasts after the commit.
Nothing holds a Go lock across a statement; what orders concurrent requests are
row locks (`SELECT ... FOR UPDATE`), unique indexes and foreign keys.

What is hard here: check-then-act across statements; reads inside a transaction
that go through the pool instead (`userRepo.GetByID` in the team use case);
locks taken in different orders (user before team, team before members); rows
read before their lock; soft deletion next to foreign keys; work after the
commit that can be lost; stale cache fills; bounded queues and shutdown.

Correctness, per component:

* teams: an active team has a captain who is its member; sizes stay bounded; a
  captain's decision is still true when it is committed; requests end in spite
  of lock cycles; every transaction behaves like one atomic operation.
* submissions: one solve per team and challenge; `solve_count` and the dynamic
  price agree with the solves; first blood is one team's; what the log calls
  correct was solved; submissions end.
* hints: a hint is paid once, one of its prices, in the step that unlocks it, and
  unlocking alone never takes a score below zero.
* scoreboard, configuration, competition caches: a reader sees a change at the
  latest when the copy expires; a frozen board shows nothing later than the
  freeze.
* mailer: an accepted message is sent, also at shutdown; the last mail a user was
  promised carries a link that works, and a link does what it was issued for.
* hub: an event reaches every client that stays connected, once per route; a slow
  client never stops the others; nothing is sent to a closed channel.
* backup and files: an import is all or nothing for the rows; an archive taken at
  rest and put back changes nothing; a validated import that reports no error
  has put the right objects in place.

## 2. Plan

In the order of importance, with what each is for.

1. `Roster` (abstract) and `TeamRoster` (transactions): teams.  *Checked, proved.*
2. `SolveLedger` (abstract) and `FlagSubmission` (handler and transaction):
   submissions, dynamic price, first blood.  *Checked, proved.*
3. `DynamicScore`: the scoring function against a reference.  *Checked, proved.*
4. `HintShop` (abstract) and `HintUnlock` (transaction): hints against everything
   that moves a team's score.  *Checked, proved.*
5. `Scoreboard`: `GetOrLoad` with singleflight, the freeze and the invalidations
   of every writer.  *Checked, proved.*
6. `AsyncMailer`, composed with registration and links into `AccountMail`; `WsHub`
   of several instances over Redis: bounded queues, shutdown, failure.
   *Checked, proved.*
7. `Backup`: export and import among writers, with file storage.
   *Checked, proved.*

Every invariant and action property that a passing run checks, and each of the
three refinements, is a theorem as well (section 5).  Left, as hazards that no
property covers yet: the exhaustion of the connection pool, names of soft-deleted
teams, two administrators at one challenge, and the late fills of the other caches.

## 3. The modules

### `Roster`, `TeamRoster` (teams)

`Roster` is what the team operations promise: each is one atomic step on four
columns (`team` = `users.team_id`, `status` = whether a `teams` row exists and
is soft-deleted, `captain`, `solo`).  `TeamRoster` EXTENDS it and runs the same
operations as `team.go` does: `Begin` is the guard's read of the competition row
outside the transaction; `LockUser`, `FindTeam`, `LockTeam`, `JoinCheck`,
`CheckOldTeam`, `DropOldTeam`, `CaptainCheck`, `LockPendingRow` are the
statements, with `pc` naming the next one; the `Commit...` actions make the
writes visible and release the locks; `Rollback` may come at any statement.
`UpdateCompetition` is the administrator, `CleanupDeletedTeams` the nightly job.

How it abstracts.  A user runs one request at a time (a second one waits on the
user's own row).  Writes become visible at the commit.  Team names and invite tokens
are left out: a name collision is a `Rollback`.  `TryCreate` is read-only for a user
in a team, otherwise it is `Create` without confirmation.  Teams that are solo or
auto-created are one kind (`shouldCleanupSoloTeam` treats them alike; no code sets
`is_auto_created`).  The foreign-key lock on a new captain's row is a full row lock.
A wait cycle is broken by PostgreSQL, which fails one of its members.  Reads through
the pool inside a transaction are reads of committed rows; the second connection
they need is not modelled.  Ban, hide and bracket decide nothing here; they are in
`FlagSubmission` and `Scoreboard`.  A `teams` row that the cleanup job removed can
be used again for a new team: that is only how a small set of rows stands for an
unbounded table.

### `SolveLedger`, `FlagSubmission`, `DynamicScore` (submissions)

`SolveLedger` keeps, per challenge, the history of stored solves in the order of
`solved_at` (`recorded`) and the positions whose row still exists (`standing`);
`blood` are the first-blood announcements and `credited` the submissions logged
as correct.  `FlagSubmission` EXTENDS it with the steps of `SubmitFlag` and its
handler: `Submit` (middleware and team validation), `CheckFlag` (the unlocked
read of the challenge), `CheckExisting` (the lookup before the lock),
`LockChallenge` (`FOR UPDATE`, the row the price is computed from), `Record`
(insert, increment, reprice, commit), `RefuseDuplicate` (the unique index),
`Fail`, `Notify`, `LogSubmission`, and `Abandon` (the process stops after the
commit, or the log row cannot be written).  The administrator creates, edits
(`ReadForUpdate` then `WriteUpdate`, as in the code an unlocked read and a later
write) and deletes challenges and bans teams; teams are disbanded, reset with
their solves, or hard-deleted.

How it abstracts.  A flag is a model value; the format regex is part of `Fail`.
Only entries of the submission log that say "correct" are kept.  `solved_at` is
the position in the history: it is taken while the challenge row is locked.
Insert, increment, reprice and commit are one step because the row lock covers
them and a concurrent erasure sees none of them before the commit.  The team of
a request is any active team, since the middleware's user row may be stale.
Cache invalidation after the commit is in `Scoreboard`.
`solve_count` deliberately has no relation to the number of rows that still
stand: a reset or a hard delete removes solves and leaves the count, and
`SolveCountExact` states what it does count.

`DynamicScore` is `CalculateDynamicScore` in exact integers.  Go computes in
float64; where `(min-initial)/decay^2` has no exact representation and the true
value is an integer, rounding up can give one point more (for example initial
900, min 20, decay 12, 10 solves: 406 instead of 405).  The model does not
follow that, and none of its instances has such a curve.

### `HintShop`, `HintUnlock` (hints and awards)

`HintShop` is the promise: a hint is on sale at one or more prices, `Buy` takes one
of them and gives the hint in the same step, at most once per team.  `HintUnlock`
is `UnlockHint` with the statements another session can come between: `ReadHint`
(before the transaction), `LockTeam` (`FOR UPDATE`), `CheckUnlock` (already
unlocked, score against the price that was read), `InsertUnlock` (the award of the
opposite sign, the `hint_unlocks` row and the commit), `FailUnlock`.  Around it
hints are created, edited and deleted (`CreateHint`, `UpdateHint`, `DeleteHint`
with its cascade), and points move: `CreateAward`, `LockChallenge` and
`RecordSolve`, `Reprice`, `DeleteChallenge`, `HardDeleteTeam`.  The refinement is
`INSTANCE HintShop WITH owned <- unlocked, offered <- asked`: a hint may be sold
at any cost it has had since it was created, because the cost is read before the
lock.  Awards are kept as sums, `paid` for those `UnlockHint` wrote and `granted`
for all others.  Deleting a challenge deletes its hints too; the model deletes
them one by one.  `RecordSolve` may leave any price, a superset of the curve.

### `Scoreboard` (scoreboard and its cache)

A call of `GetScoreboard` reads the competition row and chooses a key (scope, live
or frozen) and a cut (the freeze time it read); `Hit` answers from Redis, `Miss`
starts or joins the singleflight load of the key; `Query` is the load's statement,
`Store` writes the board to Redis (which may fail) and answers everybody who
waits, `LoadFails` passes the error on.  Writers commit, and `InvalidateAll`
deletes the two overall keys some time later, or fails to; `DisbandTeam` and
`UpdateCompetition` invalidate nothing, and no writer the boards of a bracket.  A
`Tick` is a unit of the 15 s a board lives; a `PassInstant` brings the next instant
of the competition, which is all the freeze depends on, so the two clocks are
independent.  A board is the map from listed teams to points; ties and the order
of the rows are left out.  `stale` counts the ticks since a copy was last what its
query would return.  `clean` says that the last invalidation succeeded and met no
loaded overall board between its query and Redis.

### `Backup` (archives and stored files)

Rows are the captains' user rows, teams, awards, challenges with `solve_count` and
`is_hidden`, solves and files, with their foreign keys; hints go with challenges
and the competition row has no references, so both are left out.  Writers are one
action each; the file use case is two (`UploadFile` then `CreateFileRow`,
`DeleteFile` then `DeleteFileRow`), either of which may fail.  `StartExport`,
`ReadTable` in any order and `StreamFile` are the export, which has no snapshot:
`GetAll` of challenges leaves hidden ones out, `GetAll` of teams the soft-deleted
ones, while awards and files are read whole.  `ImportZIP` is the whole transaction
in the order of the code; `ReferencesHold` are the foreign keys, by which it
commits or rolls back.  `Upload` and `DropWrong` are the goroutines that write one
entry and check its hash, `FinishImport` the answer.  A file's number stands for
its row, its location and its content; two files with one challenge and name have
one path in the ZIP, and `Target` is the location both entries go to.  One import
runs at a time, and an export and an import do not overlap.

### `AsyncMailer`, `AccountMail` (registration, links, mail)

`AsyncMailer` is the queue with its workers: `Receive`, `SendNow`, `SeeQuit`,
`Drained`, and `Stop` in its three steps (flag, channel, wait).  `Send` is two
steps, `Stopped` and `Enqueue`, so that a sender may be between them while `Stop`
runs.  `AccountMail` EXTENDS it with the calls that use it: `Register` and
`CreateUser`; `AskForLink` (resend and reset), whose common tail is
`DeleteOldLinks`, `CreateLink`, `CheckStopped`, `EnqueueMail`, with `FailSend` at
each; `FindLink`, `UseLink`, `DeleteLinks` with `FailRedeem`.  `Restart` ends the
process at any moment, in order or by a crash, and keeps only the database.  Links
are numbered; a token is never guessed (`FindLink` takes links that were handed to
the delegate), and an expired one is a link nobody presents.  The delegate's
errors are only logged, so `handed` is what the mailer promises.

### `WsHub` (hubs, clients, Redis)

Several instances of the application, each with its `Run` goroutine, queue and
subscription.  `HandleWS`, `ReadPumpEnds` and `Unregister` are a connection's life,
`WritePump` empties its channel, of which only the length matters.
`BroadcastEvent` queues an event or gives up on a full queue, then waits until
`BroadcastToClients` has offered it or the 5 s timer (`StopWaiting`) goes, and
`Publish`es; `Hear` and `Broadcast` relay what the subscription brings, the
publisher's own events included.  Redis may bring a message to any subset of the
instances, once, in order.  `Shutdown` makes `Run` and the subscription return
while requests still run, `Exit` ends the process.

## 4. The runs

| run | question | bounds, and why they are enough |
|---|---|---|
| `team_roster` (`TeamRoster.cfg`) | do concurrent transactions keep the roster sound and act atomically, and does every wait for a row resolve? | 3 users, 2 team rows, size limit 2, 2 requests at a time: all pairs of operations interleave at every statement, a third user makes a team full and a captaincy transferable; the rows are reused after cleanup |
| `team_roster_live` (`TeamRosterLive.cfg`) | does every request end, and does a frozen roster settle? | 2 users, 2 rows, the switch may close; five operations, with the lock cycles among them |
| `roster_stranded` (`RosterStranded.cfg`) | is a joined team always visible? *No*, see section 6 | 2 users, 2 rows |
| `flag_submission` (`FlagSubmission.cfg`) | do concurrent submissions, edits and erasures keep solves, count, price, first blood and log consistent? | 2 users who may submit for either of 2 teams, 1 challenge (the row lock makes challenges independent), an administrator with a falling and a fixed price |
| `flag_submission_live` (`FlagSubmissionLive.cfg`) | does every submission end? | as above without edits |
| `banned_team_scores` (`BannedTeamScores.cfg`) | does a ban stop solves at once? *No*, see section 6 | as above |
| `hint_unlock` (`HintUnlock.cfg`) | is a hint paid once, at one of its prices, out of points the team has, and does an unlock end? | 1 team (the team's row lock makes teams independent), 2 hints so that one payment meets another, 1 challenge worth 1 or 3, 2 requests, costs -1 (accepted, and free) and 2, awards of 2 and -2 that sum to at most 2 |
| `scoreboard` (`Scoreboard.cfg`) | how stale can a board be, and does a frozen one hide what came later? | 1 team, 1 challenge, 1 bracket besides the overall board, 2 readers so that a load is shared, instants 0 and 1, freeze before, at 0 or never and moved once, `TTL` 1 tick, loads that end within the tick they begin in (`MaxLoad` 0; with 1 the properties hold too, 15.1 million states, which take longer than a run should), one writer between commit and invalidation |
| `backup` (`Backup.cfg`) | what do exports and imports among writers leave? | 1 team, 1 challenge, 2 files under one name, 7 writes: enough to register, create, upload both files, give an award and then delete or hide one of them |
| `account_mail` (`AccountMail.cfg`) | do links act as issued, does the last promised mail work, is accepted mail kept and sent? | 1 user, 2 calls at a time, 2 links, 2 workers as in the code, queue of 1 so that it is full; restarts at any step, any number of times (the invariants also hold with 3 links, 10.8 million states) |
| `ws_hub` (`WsHub.cfg`) | does an event reach every client that stays, once per route, and is none dropped on the way? | 2 instances with 1 client each, 2 events from the first so that its queue of 1 is full and its own relay competes with it, buffers of 1 |
| `dynamic_score` (`DynamicScore.cfg`) | is the score monotone, in range and the rounded parabola? | every curve with values up to 12 and decay up to 7, through decay + 3 solves; `min <= initial`, which the code does not enforce |

Three runs check `TypeOK`, where a wrong value is a mistake of its own: a count below
zero, a board under the key of another kind, a reference to a row that is not
there.  The types of the other modules, `MembersChangeUnderTeamLock` and
`HeldRowsComeBack` are properties of every instance by a theorem (section 5) and
were checked by TLC on the same configurations before; they are not repeated in the
runs.  Deadlock is checked in every run but three that really
end: `dynamic_score` after its last solve, `hint_unlock` when its only team and
hints are gone, `ws_hub` when both instances have exited.  In `account_mail` a
restart is always possible, so what must go on is asked by its liveness property
instead.  Symmetry (users, team rows, readers) is used in safety runs only.

Fairness.  `FairSpec` of `TeamRoster` asks strong fairness of each request's
steps, because a lock may be taken and released by others any number of times and
PostgreSQL queues waiters; weak fairness of the error returns and of the victim
of a wait cycle, which the server and the deadlock detector carry out by
themselves; and weak fairness of the cleanup job, which cron starts every night.
`FlagSubmission` asks weak fairness of a handler's steps and strong fairness of
its lock; `HintUnlock` the same, because a contended teams row is granted in the
order of arrival.  `AccountMail` asks that a mailer worker goes on, which needs the
delegate's call to return: its HTTP client has that in its hands, not this code.
`WsHub` asks weak fairness of `Run` (a ready channel of a `select` is taken: with
weak fairness on each branch it is assumed that the runtime's random choice does
not avoid one for ever), of the subscription, of the timer and of the publishing
request.  Nothing is assumed of users, administrators, failures, crashes or Redis.

Each property of a passing run has a mutant: a variant of one definition with a
plausible mistake (a dropped `FOR UPDATE`, a missing unique index, a forgotten
rollback), kept next to it and marked "Variant", under which TLC finds the
property violated.

## 5. What is proved

For any finite sets of users and teams and any size limit of at least one
(`UsersAssumption`, `TeamsAssumption`, `SizeAssumption`, `ModesAssumption`,
`TableAssumption`), the team transactions:

* `TeamRosterProofs` first shows `RosterSafe` and `RosterMoves`, that the atomic
  roster keeps its invariant (types, captain is a member, sizes, no dangling
  `team_id`) and that a move deletes the old team.
* Then `RosterTransactionsInv`, the inductive invariant `IInv` of the transactions;
  from it `TypeCorrect`, `CaptainDecisionsStand` (`CaptainReadsStayValid`), the
  action properties `OwnRowStands` (`OwnTeamIdStable`) and `MembershipIsSerialized`
  (`MembersChangeUnderTeamLock`), and `Refinement`, `Spec => RosterSpec`; from the
  refinement and the atomic roster's theorems `CaptainStays`, `TeamsNeverOverfull`,
  `ForeignKeysHold` and `MovesDeleteOldTeam` for the detailed specification.
* `WaitsEnd` (`WaitsAreResolved`), that every wait for a row resolves; see below.

The argument.  None of the safety properties is inductive: a commit is only
sound because what was read some statements earlier is still true.  `IInv`
therefore says, for each step a request can stand at, which row locks it holds
and which of its reads they protect: a request past `lockUser` holds its user
row, so its own `team_id` cannot change; one past `lockTeam` holds its team row,
so the team's members and captain cannot change except by itself; a captain's
request holds exactly the member rows it is going to write.  The lemmas show per
action that nobody else can disturb those reads, so that each commit satisfies
the guard of the corresponding atomic action; all other steps stutter.  The one
read that no lock protects, the invite-token lookup of a join, is visible in
`JoinTeam`, which must allow a soft-deleted team.

For any sets of users, administrators, teams, challenges, flags, prices and
curves (`EntitiesAssumption`, `UsersAssumption`, `FlagsAssumption`,
`PricesAssumption` of `FlagSubmission`), the submissions:

* `FlagSubmissionProofs` first shows `LedgerSafe`, that the atomic ledger keeps
  `LedgerInv` (types, `OneSolvePerTeam`, `CreditIsEarned`, and that whoever was
  announced is the team of the very first solve), and `LedgerFirstBlood`.
* Then `SubmissionSafe`, the inductive invariant `SubmissionInv`; from it
  `SubmissionsWellTyped`, `PricedUnderLock` (`LockedRowIsCurrent`), `CountIsExact`
  (`SolveCountExact`), `PriceFollowsCount` (`PointsFollowCount`) and
  `ImplementsLedger`, `Spec => LedgerSpec`; from the refinement and the ledger's
  theorems `SolvesAreSingle`, `FirstBloodIsUnique` and `CreditEarned` for the
  interleaved system.

The argument.  `SolveCountExact` and `PointsFollowCount` depend on the row lock,
and first blood and credit on what the answer variables of a submission carry
from its commit to its last step, so neither is inductive alone.
`SubmissionInv` adds: a submission about to record owns the challenge row, the
row is live and is the one it read (`RowHeld`: nobody else writes a locked row,
`LocksRespected`); a challenge not yet created has no solves; an administrator's
edit copies a live row, so writing it back never un-creates a challenge; and a
submission that will answer "correct", or announce first blood, has a solve of
its team in the history, the first one if it announces (`RightEarned`,
`FirstEarned`; the history only grows, `HistoryOnlyGrows`).  `OneSolvePerTeam`
itself needs none of this: it follows from the guard of the insert, the unique
index, which is why it comes from the ledger.

For every curve, with values and decay in `Nat` and `minScore <= initial`, and any
number of solves (`BoundsAssumption`), `DynamicScoreProofs` shows
`PriceNeverRises`, `PriceSpansTheRange` and `PriceIsCeiling`.  The argument is
arithmetic on the definition: what is lost to the first `n - 1` solves is the floor
of a quotient, which grows with `n` (`Division`, `ProductGrows`), reaches the whole
range at the end of the decay, and turns into the ceiling when it is subtracted.

For any number of teams, hints, challenges and requests (`HintEntities`,
`NamesDiffer`, `Amounts`; `TablesFinite`: hints and challenges are finite sets,
without which a score is no sum), `HintUnlockProofs` shows:

* `UnlockTypeOK` and `ShopInvHolds`, the invariant `ShopInv`: from its check to its
  inserts a request holds its team's row and does not own the hint; the row it
  copied was asked at that price; what was paid is owned while the hint exists.
* `UnlockImplementsShop`, `Spec => ShopSpec`: `InsertUnlock` is `Buy`, edits and
  deletions are the shop's, every other step stutters.
* `UnlocksNeverOverdraw` (`OnlySqueezedOverdraw`), from `ScoreInv`: the price a
  request found affordable is still backed when it pays, unless somebody lowered
  what the team has earned.  A score is a sum over finite sets, which the library
  defines by recursion on subsets.  What the proof needs of it (the sum of one more
  element, of the difference of two sets, of pointwise smaller terms) is not
  provable by the library's induction rules, which take an operator; the lemmas on
  sums therefore argue by a least counterexample among the subsets of a finite set,
  whose existence the library states without one (`WFMin`).

For any number of teams, challenges, brackets and readers, any time to live and any
length of a load (`ScoreboardNames`, `ScoreboardBounds`), `ScoreboardProofs` shows
`ScoreboardTypeOK`, `StalenessIsBounded`, `FreezeHides` and `SettledIsExact` from
`BoardInv`, which adds to the types: every load in flight has a reader that has
waited at least as long as its board is stale, so that a board enters Redis no
staler than a load may last, and from then on its staleness and its remaining time
to live add up to no more than the window; every cut in use is the present freeze or
one that its user will not outlive; a board of a frozen competition shows points
only for rows up to its cut; and while no commit follows an invalidation that met no
load, the boards of all teams are the tables' own.  The boards are sums here too,
but the argument only needs that equal tables give equal sums and that a team
without rows has none.

For any number of teams, challenges and files, with every two files allowed to share
a path (`FileNumbers`, `FilePaths`, `WritesBounded`; `TeamsFinite`, which the range
of `solve_count` needs), `BackupProofs` shows `BackupTypeOK`,
`ValidatedImportHolds`, `RoundTrip` and `ImportIsAllOrNothing` from `BackupInv`:

* the references between tables hold (`RowsOK`); each write keeps them by its
  guards or by the cascades, an import because it is refused otherwise;
* an import only runs over a complete archive (`ArchiveOK`, `ImportOK`), and no
  upload under way has a location that an archive knows (`FreshUploads`), so that
  an upload that is undone cannot take away an object the import has put in place;
* while nobody writes, the tables contain what the archive has of them (`QuietOK`).
  Equality is not inductive: an import that erases first changes the tables, and
  leaves exactly what is contained;
* what a goroutine has put in place is there, or an administrator deleted it, or a
  wrong copy lies over it and its error is still to be reported (`UploadsOK`).  This
  is why the order of the goroutines does not matter.  That a path has an oldest
  file at all is `NatMinimum`.

For any number of users, calls and workers and any queue (`LinksBounded`,
`QueueHasRoom`), `AccountMailProofs` shows `LinksAreSound` (`LinksActAsIssued`) and
`SomeMailedLinkLives` (`LastMailHasLiveLink`) from `MailInv`.  The first is nearly
inductive: it needs only that a call holds a link of its own pair (`CallOK`).  The
second is not: calls for one user delete each other's links.  `SendsOK` says why one
always survives: as long as no send of the pair failed, a live link has been handed
over or waits in the mailer, or a call will still mail one (it has deleted and is
about to create, or nobody has deleted the one it created).

For any number of instances, clients and events and any sizes of queues and buffers
(`BuffersHold`, `Placed`), `WsHubProofs` shows `DeliveryBounded`
(`DeliveryIsBounded`) from `HubInv`.  A bound on the offers made is not inductive, a
budget is: an event has one route to a client through the local queue and one
through Redis, and the offers made and the routes still open are together no more
than the routes there are (`BudgetOK`).  That a route is used up by its offer
follows from where an event can be on its way through an instance: heard, about to
be queued or queued, in one of these places and once (`RoutesOK`).

What must happen, as far as it is safety.  Liveness itself is out of the provers'
reach, but most of what makes these systems live is a fact about states or steps,
and that is proved for any number of participants:

* `WaitsEnd` (`WaitsAreResolved`): take any requests that wait for no others than
  themselves; one of them can go on, or lies on a wait cycle, which PostgreSQL
  breaks.  If none can go on, each of them waits for a running request
  (`WaiterWaits`), which is again one of them, so that the group itself is a wait
  cycle.  That a lock has a running request for its holder is `IInv` for teams rows
  and `UserLocksOK` for users rows.  `CreationsFit` counts: a creation about to
  commit finds a row, because no more of them are under way than rows are spare.
  The set of teams is finite for that (`TableAssumption`), which is a bound of the
  model as is the guard of `Begin`: the real table grows.
* `SubmissionsNeverWaitInVain` and `UnlocksNeverWaitInVain` (`HeldRowsComeBack`):
  here no cycle can arise at all, because whoever holds a row that others wait for
  waits for nothing itself.  `HoldersGoOn`, that a row's holder is at one of the
  steps between its lock and its release, is inductive, next to
  `SubmissionInv` for submissions and to the types for unlocks.
* `AcceptedMailStays` (`AcceptedMailIsKept`): from `ExitsOK`, that a worker which
  has returned holds no mail and `Stop` returns after all of them; the last worker
  goes by `Drained`, which finds the queue empty.
* `EventsAreNotDropped` (`NothingIsDropped`): an event that is queued, heard,
  relayed or about to be published stays on its way to a client that is connected
  until the step that offers it; only a shutdown or a message that Redis did not
  bring to the instance excuses it.  What the invariant of deliveries lacks is added by
  `WayInv`: a connected client is in the map of its hub.  The rest is a step by step
  argument about the places an event can be at (`HubKeepsWay`, `CallKeepsWay`),
  with the little theory of sequences it needs (`AppendKeeps`, `TailKeeps`).

`GoesOn` writes out when a step of a request is possible, instead of ENABLED, which
the provers cannot expand here; TLC confirmed on the runs' instances that the two
agree.

Each of these inductive invariants was first checked by TLC as an invariant of the
configuration of its component's run.

Only model-checked: liveness (`RequestsEnd`, `FrozenRosterSettles`,
`SubmissionsEnd`, `UnlocksEnd`, `AcceptedMailIsHandedOver`, `QueuedReachesAll`),
which rests on fairness and ENABLED, beyond what TLAPS decides here.  The theorems
above say that nothing is stuck and nothing is lost; that what can go on does is
the part left to fairness.  The proofs about submissions use of the scoring function
only that it returns an integer (`ScoreIsInt`).

## 6. Disagreements found

* `roster_stranded`: `team_test.go` says that a player who joins by invite token
  and the captain see the same team.  `joinTx` looks the token up before it locks
  the team and does not look again, so a join that races with a disband commits
  into a soft-deleted team; and a sole member of a solo team who joins that very
  team with `confirm_reset` deletes it and is then pointed at it.  `GET /teams/my`
  then fails for the user, who cannot leave it either (the leave reads active
  teams only) until the cleanup job's cascade clears `team_id` thirty days later;
  `FrozenRosterSettles` shows that it does end.
* `banned_team_scores`: `full_flow_test.go` says a banned team cannot submit
  flags.  The ban is read before the transaction, so a submission that passed the
  check stores its solve after the ban.

What the models show besides, which no run states as a violation because no
document of the repository promises otherwise, or only in other words:

* A frozen board sums the *current* price of the challenges solved before the
  freeze (`queries/solves.sql:109`), so a solve of a dynamic challenge after the
  freeze lowers frozen points.  `FrozenHidesLateSolves` therefore speaks of teams
  that have anything before the freeze, not of the sum.
* An administrator who moves a freeze already passed leaves the board of the old
  one in the cache for its 15 s (`moved`); disbanding a team leaves it on the
  boards for as long.
* An import that erases can never bring back a team or an award: users are erased,
  no archive of the API holds them, and a team needs its captain.  Such an import is
  refused and rolled back (`ImportKeepsOrReplaces`).
* An export holds the awards of soft-deleted teams and the files of hidden
  challenges without the rows they refer to, so an import elsewhere is refused;
  `hint_unlocks` are not part of it.  An import sets `solve_count` back to the
  archive's, after which first blood may be announced again.
* Two files of one challenge and name have one path in the ZIP: an import writes
  both entries to one location.  With `validate_files` it is then reported as a
  mismatch, and the object of the remaining file may be deleted with it.  A
  download that failed during the export leaves a blank entry, which an import
  without validation writes over a good object.
* `Delete` of the filesystem storage fails for an object that is not there
  (`internal/storage/filesystem.go`), so a file row whose object is gone cannot be
  deleted.
* When creating or mailing a link fails, the old ones are already deleted, and the
  user has dead links only until the next attempt (`LastMailHasLiveLink` excuses
  exactly that).  A link found by two calls at once acts twice.
* `BroadcastEvent` that meets a full queue for 100 ms is not published to the other
  instances either, although their queues may be empty.

## 7. Not modelled, and why

* Dynamic configuration, settings and the competition row are read through the same
  kind of cache as the scoreboard (30 s in process, 5 min, 5 s in Redis); what
  `Scoreboard` shows of late fills holds for them with those times, and they have
  no second key or cut that could be mixed up.
* Ratings are one administrator's sequence of single statements after the
  competition.  Its partial failure is named in `PROJECT.json`.
* Users beyond registration, API tokens, notifications, tags, comments, pages,
  brackets, fields and statistics are single statements or library calls without
  concurrency of their own.  `SolveUseCase.Create`, `InvalidateForTeam`,
  `MarkUsed` and `DeleteExpired` are called by nobody.
* Controllers and wiring keep no state; the part of a handler that matters (the
  order of its calls, what it does after an error) is in the module of the use
  case it calls.
* Rendering, validation of input formats, password hashing, tokens and encryption
  are library calls.  The frontend, deployment and monitoring are configuration.
* The exhaustion of the connection pool by transactions that need a second
  connection, name collisions with soft-deleted teams, and two administrators who
  edit one challenge are hazards named in `PROJECT.json` that no property covers.

The larger part of the repository's lines is not behaviour of its own: some 18,500
lines of `internal/openapi` and the queries in `sqlc` are generated, and most of
the rest maps rows to structs, requests to parameters and results to JSON.  The
lines that decide something, and on whose order something depends, are in the use
cases, the transactions, the queries and four packages of `pkg`, and those are what
the modules stand for.
