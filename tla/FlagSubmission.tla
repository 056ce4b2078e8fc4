--------------------------- MODULE FlagSubmission ---------------------------
(* SubmitFlag of internal/usecase/challenge/challenge.go with its handler,   *)
(* step by step: the checks that run before the transaction, the row lock    *)
(* on the challenge, the solve, and what follows the commit.  Around it the  *)
(* administrator edits, creates and deletes challenges and bans teams, and   *)
(* teams are disbanded, reset or cleaned up.  Requests of one user never     *)
(* overlap here; requests of the same team do.                               *)
EXTENDS SolveLedger, DynamicScore, FiniteSets

CONSTANTS Users, Admins, NoUser,
          Flags,       \* flags challenges may have
          WrongFlag,   \* a submitted text that is no challenge's flag
          Prices,      \* points an administrator may give
          Curves       \* [initial, minScore, decay] an administrator may give

ASSUME EntitiesAssumption == Teams # {} /\ Challenges # {}
ASSUME UsersAssumption == NoUser \notin Users
ASSUME FlagsAssumption == WrongFlag \notin Flags /\ Flags # {}
ASSUME PricesAssumption ==
  /\ Prices \subseteq Int
  /\ Curves \subseteq [initial : Int, minScore : Int, decay : Int]

VARIABLES chal,      \* challenges table
          edited,    \* history: points were set by hand since the last solve
          life,      \* teams table: is_banned and deleted_at
          pc, sub,   \* step and arguments of each user's submission
          held,      \* challenge row the transaction read when it locked it
          right,     \* valid, as SubmitFlag returns it
          first,     \* solveCount == 1
          lock,      \* submission holding each challenges row
          edit       \* entity each administrator's Update works on

reqVars == <<pc, sub, held, right, first>>
vars == <<recorded, standing, blood, credited, chal, edited, life,
          pc, sub, held, right, first, lock, edit>>

Row == [state : {"none", "live", "gone"}, flag : Flags, points : Int,
        curve : [initial : Int, minScore : Int, decay : Int], count : Nat]

Submission == [team : Teams, challenge : Challenges, guess : Flags \cup {WrongFlag}]

Edit == [on : BOOLEAN, challenge : Challenges, row : Row]

Steps == {"idle", "read", "check", "lock", "record", "notify", "log"}

TypeOK ==
  /\ LedgerTypeOK
  /\ chal \in [Challenges -> Row]
  /\ edited \in [Challenges -> BOOLEAN]
  /\ life \in [Teams -> {"active", "banned", "deleted"}]
  /\ pc \in [Users -> Steps]
  /\ sub \in [Users -> Submission]
  /\ held \in [Users -> Row]
  /\ right \in [Users -> BOOLEAN]
  /\ first \in [Users -> BOOLEAN]
  /\ lock \in [Challenges -> Users \cup {NoUser}]
  /\ edit \in [Admins -> Edit]

NoRow == [state |-> "none", flag |-> CHOOSE f \in Flags : TRUE, points |-> 0,
          curve |-> [initial |-> 0, minScore |-> 0, decay |-> 0], count |-> 0]

NoSubmission == [team |-> CHOOSE t \in Teams : TRUE,
                 challenge |-> CHOOSE c \in Challenges : TRUE, guess |-> WrongFlag]

NoEdit == [on |-> FALSE, challenge |-> CHOOSE c \in Challenges : TRUE, row |-> NoRow]

Init ==
  /\ LedgerInit
  /\ chal = [c \in Challenges |-> NoRow]
  /\ edited = [c \in Challenges |-> FALSE]
  /\ life = [t \in Teams |-> "active"]
  /\ pc = [u \in Users |-> "idle"]
  /\ sub = [u \in Users |-> NoSubmission]
  /\ held = [u \in Users |-> NoRow]
  /\ right = [u \in Users |-> FALSE]
  /\ first = [u \in Users |-> FALSE]
  /\ lock = [c \in Challenges |-> NoUser]
  /\ edit = [a \in Admins |-> NoEdit]

Goto(u, step) == pc' = [pc EXCEPT ![u] = step]
Answer(u, valid) == right' = [right EXCEPT ![u] = valid]

(* Variant: GetChallengeByIDTx without FOR UPDATE. *)
LockableAlways(c) == TRUE
Lockable(c) == lock[c] = NoUser

(* Variant: ErrAlreadySolved returned without ending the transaction. *)
LockKept(u) == lock' = lock
Unlock(u) == lock' = [c \in Challenges |-> IF lock[c] = u THEN NoUser ELSE lock[c]]

-----------------------------------------------------------------------------
(* A submission.  Refused ones are answered and logged as incorrect; only    *)
(* the correct entries of the log are kept here, so a refusal ends it.       *)

EndRequest(u) ==
  /\ Goto(u, "idle")
  /\ sub' = [sub EXCEPT ![u] = NoSubmission]
  /\ held' = [held EXCEPT ![u] = NoRow]
  /\ Answer(u, FALSE)
  /\ first' = [first EXCEPT ![u] = FALSE]

(* The team is the one the middleware loaded with the user, who may have     *)
(* left it by now; it is neither deleted nor banned when it is validated.    *)
Submit(u, t, c, g) ==
  /\ pc[u] = "idle"
  /\ life[t] = "active"
  /\ Goto(u, "read")
  /\ sub' = [sub EXCEPT ![u] = [team |-> t, challenge |-> c, guess |-> g]]
  /\ UNCHANGED <<ledgerVars, chal, edited, life, held, right, first, lock, edit>>

(* The flag is compared with the row as it is now, before the transaction.   *)
CheckFlag(u) ==
  LET row == chal[sub[u].challenge] IN
  /\ pc[u] = "read"
  /\ IF row.state = "live" /\ row.flag = sub[u].guess
     THEN Goto(u, "check") /\ UNCHANGED <<sub, held, right, first>>
     ELSE EndRequest(u)
  /\ UNCHANGED <<ledgerVars, chal, edited, life, lock, edit>>

(* Variant: looks for a solve of the challenge by any team. *)
SolvedByAnyone(t, c) == standing[c] # {}
AlreadySolved(t, c) == Solved(t, c)

CheckExisting(u) ==
  LET known == AlreadySolved(sub[u].team, sub[u].challenge) IN
  /\ pc[u] = "check"
  /\ Goto(u, IF known THEN "log" ELSE "lock")
  /\ Answer(u, known)
  /\ UNCHANGED <<ledgerVars, chal, edited, life, sub, held, first, lock, edit>>

LockChallenge(u) ==
  LET c == sub[u].challenge IN
  /\ pc[u] = "lock"
  /\ Lockable(c)
  /\ IF chal[c].state = "live"
     THEN /\ held' = [held EXCEPT ![u] = chal[c]]
          /\ lock' = [lock EXCEPT ![c] = u]
          /\ Goto(u, "record") /\ UNCHANGED <<sub, right, first>>
     ELSE EndRequest(u) /\ UNCHANGED lock
  /\ UNCHANGED <<ledgerVars, chal, edited, life, edit>>

(* Variant: the number of a solve is counted from the rows of the table. *)
NumberFromRows(c) == Cardinality(standing[c]) + 1
SolveNumber(c) == chal[c].count + 1

Dynamic(row) == row.curve.initial > 0 /\ row.curve.decay > 0

CurvePoints(row, n) ==
  CalculateDynamicScore(row.curve.initial, row.curve.minScore, row.curve.decay, n)

(* Variant: the price of the solve before this one. *)
PriceBefore(row, points, n) == IF Dynamic(row) THEN CurvePoints(row, n - 1) ELSE points
(* row is what the transaction read, points what the table says: equal       *)
(* prices write nothing.                                                     *)
PriceAfter(row, points, n) ==
  IF Dynamic(row) /\ CurvePoints(row, n) # row.points THEN CurvePoints(row, n) ELSE points

(* Variant: the check before the lock is the only one. *)
Insertable(t, c) == TRUE
(* The unique index on (team_id, challenge_id) accepts the row.              *)
Storable(t, c) == ~Solved(t, c)

(* Insert, increment, reprice and commit, all under the row lock.            *)
Record(u) ==
  LET t == sub[u].team
      c == sub[u].challenge
      n == SolveNumber(c)
  IN /\ pc[u] = "record"
     /\ Storable(t, c)
     /\ recorded' = [recorded EXCEPT ![c] = Append(@, t)]
     /\ standing' = [standing EXCEPT ![c] = @ \cup {Len(recorded[c]) + 1}]
     /\ chal' = [chal EXCEPT ![c].count = @ + 1,
                             ![c].points = PriceAfter(held[u], @, n)]
     /\ edited' = [edited EXCEPT ![c] = @ /\ ~Dynamic(held[u])]
     /\ first' = [first EXCEPT ![u] = (n = 1)]
     /\ held' = [held EXCEPT ![u] = NoRow]
     /\ Goto(u, "notify") /\ Answer(u, TRUE) /\ Unlock(u)
     /\ UNCHANGED <<blood, credited, life, sub, edit>>

(* The unique index refuses a second row: ErrAlreadySolved, still "valid".   *)
RefuseDuplicate(u) ==
  /\ pc[u] = "record"
  /\ Solved(sub[u].team, sub[u].challenge)
  /\ held' = [held EXCEPT ![u] = NoRow]
  /\ Goto(u, "log") /\ Answer(u, TRUE) /\ Unlock(u)
  /\ UNCHANGED <<ledgerVars, chal, edited, life, sub, first, edit>>

(* Variant: the commit fails and the handler answers as if it had not. *)
AnswerAnyway(u) ==
  /\ pc[u] \in {"read", "check", "lock", "record"}
  /\ held' = [held EXCEPT ![u] = NoRow]
  /\ Goto(u, "notify") /\ Answer(u, TRUE) /\ Unlock(u)
  /\ UNCHANGED <<ledgerVars, chal, edited, life, sub, first, edit>>
(* A statement fails, or the flag is not of the required format.             *)
Fail(u) ==
  /\ pc[u] \in {"read", "check", "lock", "record"}
  /\ EndRequest(u) /\ Unlock(u)
  /\ UNCHANGED <<ledgerVars, chal, edited, life, edit>>

Notify(u) ==
  /\ pc[u] = "notify"
  /\ blood' = IF first[u] THEN blood \cup {<<sub[u].challenge, sub[u].team>>} ELSE blood
  /\ Goto(u, "log")
  /\ UNCHANGED <<recorded, standing, credited, chal, edited, life, sub, held,
                 right, first, lock, edit>>

LogSubmission(u) ==
  /\ pc[u] = "log"
  /\ credited' = IF right[u] THEN credited \cup {<<sub[u].challenge, sub[u].team>>}
                             ELSE credited
  /\ EndRequest(u)
  /\ UNCHANGED <<recorded, standing, blood, chal, edited, life, lock, edit>>

(* After the commit the process may stop, or the log row be refused, which   *)
(* the handler only reports: the solve stands, its announcement may be lost. *)
Abandon(u) ==
  /\ pc[u] \in {"notify", "log"}
  /\ EndRequest(u)
  /\ UNCHANGED <<ledgerVars, chal, edited, life, lock, edit>>

-----------------------------------------------------------------------------
(* Challenges, as the administrator changes them.                            *)

CreateChallenge(c, f, p, k) ==
  /\ chal[c].state = "none"
  /\ chal' = [chal EXCEPT ![c] =
       [state |-> "live", flag |-> f, points |-> p, curve |-> k, count |-> 0]]
  /\ UNCHANGED <<ledgerVars, edited, life, reqVars, lock, edit>>

(* Update reads the row without a lock and works on the copy.  An empty flag *)
(* keeps the flag that was read.                                             *)
ReadForUpdate(a, c, f, p, k) ==
  /\ ~edit[a].on
  /\ chal[c].state = "live"
  /\ edit' = [edit EXCEPT ![a] =
       [on |-> TRUE, challenge |-> c,
        row |-> [chal[c] EXCEPT !.flag = f, !.points = p, !.curve = k]]]
  /\ UNCHANGED <<ledgerVars, chal, edited, life, reqVars, lock>>

(* Variant: UPDATE challenges sets solve_count too. *)
OverwriteAll(row, copy) == copy
(* UPDATE challenges sets every column of the copy but solve_count.          *)
Overwrite(row, copy) == [copy EXCEPT !.count = row.count]

WriteUpdate(a) ==
  LET c == edit[a].challenge IN
  /\ edit[a].on
  /\ Lockable(c)
  /\ edit' = [edit EXCEPT ![a] = NoEdit]
  /\ IF chal[c].state = "live"
     THEN /\ chal' = [chal EXCEPT ![c] = Overwrite(chal[c], edit[a].row)]
          /\ edited' = [edited EXCEPT ![c] = TRUE]
     ELSE UNCHANGED <<chal, edited>>
  /\ UNCHANGED <<ledgerVars, life, reqVars, lock>>

(* The solves of the challenge go with it (ON DELETE CASCADE).               *)
DeleteChallenge(c) ==
  /\ chal[c].state = "live"
  /\ Lockable(c)
  /\ chal' = [chal EXCEPT ![c].state = "gone"]
  /\ EraseChallenge(c)
  /\ UNCHANGED <<edited, life, reqVars, lock, edit>>

-----------------------------------------------------------------------------
(* Teams, as far as submissions see them.                                    *)

TeamBecomes(t, from, to) == life[t] \in from /\ life' = [life EXCEPT ![t] = to]

KeepSubmissions == UNCHANGED <<chal, edited, reqVars, lock, edit>>

BanTeam(t) ==
  TeamBecomes(t, {"active"}, "banned") /\ UNCHANGED ledgerVars /\ KeepSubmissions

UnbanTeam(t) ==
  TeamBecomes(t, {"banned"}, "active") /\ UNCHANGED ledgerVars /\ KeepSubmissions

(* Disbanding, or the last member leaving by a join, keeps the solves.       *)
DisbandTeam(t) ==
  TeamBecomes(t, {"active", "banned"}, "deleted") /\ UNCHANGED ledgerVars /\ KeepSubmissions

(* Variant: the reset counts its solves back, of every challenge. *)
ResetCountsBack(t) ==
  /\ TeamBecomes(t, {"active", "banned"}, "deleted") /\ EraseTeam(t)
  /\ chal' = [c \in Challenges |-> [chal[c] EXCEPT !.count = @ - 1]]
  /\ UNCHANGED <<edited, reqVars, lock, edit>>
(* A confirmed solo reset deletes the team and its solves; solve_count stays. *)
ResetSoloTeam(t) ==
  TeamBecomes(t, {"active", "banned"}, "deleted") /\ EraseTeam(t) /\ KeepSubmissions

(* The cleanup job removes teams deleted for thirty days: no submission that  *)
(* began before the deletion is still running.                               *)
HardDeleteTeam(t) ==
  /\ life[t] = "deleted"
  /\ \A u \in Users : pc[u] # "idle" => sub[u].team # t
  /\ EraseTeam(t) /\ KeepSubmissions /\ UNCHANGED life

-----------------------------------------------------------------------------
SubmissionStep(u) ==
  \/ CheckFlag(u) \/ CheckExisting(u) \/ LockChallenge(u)
  \/ Record(u) \/ RefuseDuplicate(u) \/ Notify(u) \/ LogSubmission(u)

Next ==
  \/ \E u \in Users :
       \/ \E t \in Teams, c \in Challenges, g \in Flags \cup {WrongFlag} : Submit(u, t, c, g)
       \/ SubmissionStep(u) \/ Fail(u) \/ Abandon(u)
  \/ \E c \in Challenges, f \in Flags, p \in Prices, k \in Curves :
       CreateChallenge(c, f, p, k) \/ \E a \in Admins : ReadForUpdate(a, c, f, p, k)
  \/ \E a \in Admins : WriteUpdate(a)
  \/ \E c \in Challenges : DeleteChallenge(c)
  \/ \E t \in Teams : \/ BanTeam(t) \/ UnbanTeam(t) \/ DisbandTeam(t)
                      \/ ResetSoloTeam(t) \/ HardDeleteTeam(t)

Spec == Init /\ [][Next]_vars

(* A handler runs on; PostgreSQL grants a contended row in arrival order.    *)
Fairness ==
  \A u \in Users : WF_vars(SubmissionStep(u)) /\ SF_vars(LockChallenge(u))

FairSpec == Spec /\ Fairness

-----------------------------------------------------------------------------
(* While a submission is between its FOR UPDATE and its commit, the row it   *)
(* prices the solve from is the row of the table.                            *)
LockedRowIsCurrent ==
  \A u \in Users : pc[u] = "record" => held[u] = chal[sub[u].challenge]

(* solve_count counts every solve ever stored for the challenge: no update   *)
(* is lost to a concurrent solve or edit, and no refused submission counts.  *)
SolveCountExact == \A c \in Challenges : chal[c].count = Len(recorded[c])

(* Unless an administrator has set the price since, a dynamic challenge is   *)
(* worth what the curve says for its number of solves.                       *)
PointsFollowCount ==
  \A c \in Challenges :
    Dynamic(chal[c]) /\ chal[c].count > 0 /\ ~edited[c] =>
      chal[c].points = CurvePoints(chal[c], chal[c].count)

(* Every submission comes to an end, whoever holds the challenge row.        *)
SubmissionsEnd == \A u \in Users : pc[u] # "idle" ~> pc[u] = "idle"

(* Nobody waits for a challenges row in vain: whoever holds it is a submission *)
(* that has come to its inserts and waits for no other row, so submissions    *)
(* and edits never wait in a circle.                                          *)
GoesOn(u) == pc[u] \notin {"idle", "lock"} \/ (pc[u] = "lock" /\ Lockable(sub[u].challenge))
HeldRowsComeBack ==
  /\ \A u \in Users : pc[u] # "idle" => GoesOn(u) \/ GoesOn(lock[sub[u].challenge])
  /\ \A a \in Admins : edit[a].on =>
       Lockable(edit[a].challenge) \/ GoesOn(lock[edit[a].challenge])

(* A banned team gains no solve (e2e-test/full_flow_test.go).                *)
BannedTeamGainsNothing ==
  [][\A c \in Challenges :
       recorded'[c] # recorded[c] => life[recorded'[c][Len(recorded'[c])]] # "banned"]_vars
=============================================================================
