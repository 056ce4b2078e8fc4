----------------------------- MODULE TeamRoster -----------------------------
(* The team operations as the code runs them: READ COMMITTED transactions    *)
(* that lock user and team rows one at a time, read some rows without a      *)
(* lock, check, write and commit (internal/usecase/team/team.go over         *)
(* internal/repo/persistent).  Writes become visible at the commit; a lock   *)
(* is held until the commit or the rollback.  Each user has at most one      *)
(* request running: more would queue on the user's own row.                  *)
EXTENDS Roster

CONSTANTS Modes,         \* competition modes the administrator may set
          Opens,         \* values of allow_team_switch the administrator may set
          Offered,       \* bound: operations the users of an instance ask for
          MaxInFlight    \* bound: requests running at one time

ASSUME ModesAssumption ==
  /\ Modes # {} /\ Modes \subseteq {"flexible", "solo_only", "teams_only"}
  /\ TRUE \in Opens /\ Opens \subseteq BOOLEAN
(* Bound: the table is finite, so that its spare rows can be counted.         *)
ASSUME TableAssumption == IsFiniteSet(Teams)

VARIABLES comp,        \* competition row: [open |-> allow_team_switch, mode |-> mode]
          req,         \* request each user is running
          pc,          \* next statement of that request
          target,      \* team the request locks or joins
          pending,     \* user rows the request still means to update
          userLock,    \* request holding each users row
          teamLock     \* request holding each teams row

txVars == <<req, pc, target, pending, userLock, teamLock>>
vars == <<team, status, captain, solo, comp, req, pc, target, pending, userLock, teamLock>>

Ops == {"Create", "CreateSolo", "Join", "Leave", "Transfer", "Disband", "Kick"}
MoveOps == {"Create", "CreateSolo", "Join"}

Steps == {"idle", "lockUser", "findTeam", "lockTeam", "checkTeam", "checkOld",
          "dropOld", "lockRows", "commit"}

(* confirm is confirm_reset, token the team of an invite token, peer the     *)
(* member a captain names.                                                   *)
Request ==
  [op : Ops, confirm : BOOLEAN, token : Teams \cup {NoTeam}, peer : Users \cup {NoUser}]

NoRequest == [op |-> "Leave", confirm |-> FALSE, token |-> NoTeam, peer |-> NoUser]

Admissible ==
  {r \in Request :
     /\ r.op \in Offered
     /\ (r.token # NoTeam) <=> (r.op = "Join")
     /\ (r.peer # NoUser) <=> (r.op \in {"Transfer", "Kick"})
     /\ r.confirm => r.op \in MoveOps}

TypeOK ==
  /\ RosterTypeOK
  /\ comp \in [open : Opens, mode : Modes]
  /\ req \in [Users -> Request]
  /\ pc \in [Users -> Steps]
  /\ target \in [Users -> Teams \cup {NoTeam}]
  /\ \A u \in Users :
       pc[u] \in {"lockTeam", "checkTeam", "lockRows"} => target[u] \in Teams
  /\ pending \in [Users -> SUBSET Users]
  /\ userLock \in [Users -> Users \cup {NoUser}]
  /\ teamLock \in [Teams -> Users \cup {NoUser}]

Init ==
  /\ RosterInit
  /\ comp \in [open : {TRUE}, mode : Modes]
  /\ req = [u \in Users |-> NoRequest]
  /\ pc = [u \in Users |-> "idle"]
  /\ target = [u \in Users |-> NoTeam]
  /\ pending = [u \in Users |-> {}]
  /\ userLock = [u \in Users |-> NoUser]
  /\ teamLock = [t \in Teams |-> NoUser]

Running == {u \in Users : pc[u] # "idle"}

-----------------------------------------------------------------------------
(* Locks and the end of a transaction.                                       *)

UserLockable(u, m) == userLock[m] \in {NoUser, u}
(* Variant: LockTeamTx without FOR UPDATE. *)
TeamLockableAlways(u, t) == TRUE
TeamLockable(u, t) == teamLock[t] \in {NoUser, u}

LockUserRow(u, m) == userLock' = [userLock EXCEPT ![m] = u]
LockTeamRow(u, t) == teamLock' = [teamLock EXCEPT ![t] = u]

Goto(u, step) == pc' = [pc EXCEPT ![u] = step]

(* Variant: an error return that forgets the rollback. *)
FinishWithoutRollback(u) ==
  /\ pc' = [pc EXCEPT ![u] = "idle"]
  /\ req' = [req EXCEPT ![u] = NoRequest]
  /\ target' = [target EXCEPT ![u] = NoTeam]
  /\ pending' = [pending EXCEPT ![u] = {}]
  /\ UNCHANGED <<userLock, teamLock>>

(* Commit or rollback: every row lock of the transaction is released. *)
Finish(u) ==
  /\ pc' = [pc EXCEPT ![u] = "idle"]
  /\ req' = [req EXCEPT ![u] = NoRequest]
  /\ target' = [target EXCEPT ![u] = NoTeam]
  /\ pending' = [pending EXCEPT ![u] = {}]
  /\ userLock' = [m \in Users |-> IF userLock[m] = u THEN NoUser ELSE userLock[m]]
  /\ teamLock' = [t \in Teams |-> IF teamLock[t] = u THEN NoUser ELSE teamLock[t]]

(* Any statement can fail: a lost connection, a cancelled context, a unique  *)
(* violation on the team name.                                               *)
Rollback(u) == pc[u] # "idle" /\ Finish(u) /\ UNCHANGED <<rosterVars, comp>>

-----------------------------------------------------------------------------
(* The guard reads the competition row before the transaction begins.        *)

(* Variant: the guard looks at the mode only. *)
AllowedByMode(r) ==
  /\ r.op = "Create" => comp.mode \in {"flexible", "teams_only"}
  /\ r.op = "CreateSolo" => comp.mode \in {"flexible", "solo_only"}

Allowed(r) ==
  /\ comp.open
  /\ r.op = "Create" => comp.mode \in {"flexible", "teams_only"}
  /\ r.op = "CreateSolo" => comp.mode \in {"flexible", "solo_only"}

(* Bound: a creation begins only while the finite table has a row left for   *)
(* it; the real table never fills.                                           *)
SpareRow ==
  Cardinality({v \in Running : req[v].op \in {"Create", "CreateSolo"}})
    < Cardinality({t \in Teams : status[t] = "none"})

Begin(u, r) ==
  /\ pc[u] = "idle" /\ Cardinality(Running) < MaxInFlight
  /\ r.op \in {"Create", "CreateSolo"} => SpareRow
  /\ Allowed(r)
  /\ r.peer # u
  /\ r.token # NoTeam => status[r.token] # "none"
  /\ req' = [req EXCEPT ![u] = r]
  /\ Goto(u, "lockUser")
  /\ UNCHANGED <<rosterVars, comp, target, pending, userLock, teamLock>>

(* LockUserTx, then the user row is read; a captain's or a leaver's request  *)
(* goes on to the team read there.                                           *)
LockUser(u) ==
  /\ pc[u] = "lockUser" /\ UserLockable(u, u)
  /\ LockUserRow(u, u)
  /\ \/ req[u].op = "Join" /\ Goto(u, "findTeam") /\ UNCHANGED target
     \/ req[u].op \in {"Create", "CreateSolo"} /\ Goto(u, "checkOld") /\ UNCHANGED target
     \/ /\ req[u].op \notin MoveOps /\ team[u] # NoTeam
        /\ Goto(u, "lockTeam")
        /\ target' = [target EXCEPT ![u] = team[u]]
  /\ UNCHANGED <<rosterVars, comp, req, pending, teamLock>>

(* Variant: Join without LockTeamTx. *)
FindTeamUnlocked(u) ==
  /\ pc[u] = "findTeam" /\ status[req[u].token] = "active"
  /\ target' = [target EXCEPT ![u] = req[u].token]
  /\ Goto(u, "checkTeam")
  /\ UNCHANGED <<rosterVars, comp, req, pending, userLock, teamLock>>

(* GetTeamByInviteTokenTx sees active teams only, and takes no lock. *)
FindTeam(u) ==
  /\ pc[u] = "findTeam" /\ status[req[u].token] = "active"
  /\ target' = [target EXCEPT ![u] = req[u].token]
  /\ Goto(u, "lockTeam")
  /\ UNCHANGED <<rosterVars, comp, req, pending, userLock, teamLock>>

(* LockTeamTx does not look at deleted_at. *)
LockTeam(u) ==
  /\ pc[u] = "lockTeam" /\ TeamLockable(u, target[u])
  /\ LockTeamRow(u, target[u])
  /\ Goto(u, "checkTeam")
  /\ UNCHANGED <<rosterVars, comp, req, target, pending, userLock>>

HasRoom(t) == Cardinality(Members(t)) < MaxTeamSize

JoinCheck(u) ==
  /\ pc[u] = "checkTeam" /\ req[u].op = "Join" /\ HasRoom(target[u])
  /\ Goto(u, "checkOld")
  /\ UNCHANGED <<rosterVars, comp, req, target, pending, userLock, teamLock>>

(* Variant: the sole member of any team counts as solo. *)
SoleMember(u) == status[team[u]] = "active" /\ Members(team[u]) = {u}

(* shouldCleanupSoloTeam, on a team read without its lock. *)
SoleSoloMember(u) ==
  /\ status[team[u]] = "active" /\ solo[team[u]]
  /\ Members(team[u]) = {u}

CheckOldTeam(u) ==
  /\ pc[u] = "checkOld"
  /\ \/ team[u] = NoTeam /\ Goto(u, "commit")
     \/ /\ team[u] # NoTeam /\ SoleSoloMember(u) /\ req[u].confirm
        /\ Goto(u, "dropOld")
  /\ UNCHANGED <<rosterVars, comp, req, target, pending, userLock, teamLock>>

(* SoftDeleteTeamTx waits for the row and re-evaluates deleted_at IS NULL. *)
DropOldTeam(u) ==
  /\ pc[u] = "dropOld" /\ TeamLockable(u, team[u])
  /\ status[team[u]] = "active"
  /\ LockTeamRow(u, team[u])
  /\ Goto(u, "commit")
  /\ UNCHANGED <<rosterVars, comp, req, target, pending, userLock>>

-----------------------------------------------------------------------------
CommitCreate(u) ==
  /\ pc[u] = "commit" /\ req[u].op \in {"Create", "CreateSolo"}
  /\ \E t \in Teams :
       /\ status[t] = "none"
       /\ status' = [OldTeamDropped(u) EXCEPT ![t] = "active"]
       /\ captain' = [captain EXCEPT ![t] = u]
       /\ solo' = [solo EXCEPT ![t] = (req[u].op = "CreateSolo")]
       /\ team' = [team EXCEPT ![u] = t]
  /\ Finish(u) /\ UNCHANGED comp

(* Variant: the old solo team is left as it is. *)
CommitJoinKeepOld(u) ==
  /\ pc[u] = "commit" /\ req[u].op = "Join"
  /\ team' = [team EXCEPT ![u] = target[u]]
  /\ Finish(u) /\ UNCHANGED <<status, captain, solo, comp>>

CommitJoin(u) ==
  /\ pc[u] = "commit" /\ req[u].op = "Join"
  /\ status' = OldTeamDropped(u)
  /\ team' = [team EXCEPT ![u] = target[u]]
  /\ Finish(u) /\ UNCHANGED <<captain, solo, comp>>

(* Variant: without the check that the captain stays. *)
LeaveAllowedToAll(u) ==
  status[target[u]] = "active" /\ Cardinality(Members(target[u])) # 1

LeaveAllowed(u) ==
  /\ status[target[u]] = "active"
  /\ Cardinality(Members(target[u])) # 1
  /\ captain[target[u]] # u

CommitLeave(u) ==
  /\ pc[u] = "checkTeam" /\ req[u].op = "Leave" /\ LeaveAllowed(u)
  /\ team' = [team EXCEPT ![u] = NoTeam]
  /\ Finish(u) /\ UNCHANGED <<status, captain, solo, comp>>

(* The rows a captain's request will touch: the members read under the lock  *)
(* of the team, or the one member it names.                                  *)
CaptainCheck(u) ==
  /\ pc[u] = "checkTeam" /\ Leads(u, target[u])
  /\ \/ /\ req[u].op = "Disband"
        /\ pending' = [pending EXCEPT ![u] = Members(target[u])]
     \/ /\ req[u].op \in {"Kick", "Transfer"}
        /\ team[req[u].peer] = target[u]
        /\ pending' = [pending EXCEPT ![u] = {req[u].peer}]
  /\ Goto(u, "lockRows")
  /\ UNCHANGED <<rosterVars, comp, req, target, userLock, teamLock>>

(* Variant: the update does not wait for the member's own request. *)
TakePendingRow(u, m) ==
  /\ pc[u] = "lockRows" /\ m \in pending[u]
  /\ LockUserRow(u, m)
  /\ UNCHANGED <<rosterVars, comp, req, pc, target, pending, teamLock>>

(* UPDATE users locks a member's row; UPDATE teams SET captain_id takes the  *)
(* foreign-key lock of the new captain's row.                                *)
LockPendingRow(u, m) ==
  /\ pc[u] = "lockRows" /\ m \in pending[u]
  /\ userLock[m] = NoUser
  /\ LockUserRow(u, m)
  /\ UNCHANGED <<rosterVars, comp, req, pc, target, pending, teamLock>>

RowsLocked(u) == pc[u] = "lockRows" /\ \A m \in pending[u] : userLock[m] = u

CommitTransfer(u) ==
  /\ RowsLocked(u) /\ req[u].op = "Transfer"
  /\ captain' = [captain EXCEPT ![target[u]] = req[u].peer]
  /\ Finish(u) /\ UNCHANGED <<team, status, solo, comp>>

Released(rows) == [m \in Users |-> IF m \in rows THEN NoTeam ELSE team[m]]

CommitKick(u) ==
  /\ RowsLocked(u) /\ req[u].op = "Kick"
  /\ team' = Released(pending[u])
  /\ Finish(u) /\ UNCHANGED <<status, captain, solo, comp>>

CommitDisband(u) ==
  /\ RowsLocked(u) /\ req[u].op = "Disband"
  /\ status' = [status EXCEPT ![target[u]] = "deleted"]
  /\ team' = Released(pending[u])
  /\ Finish(u) /\ UNCHANGED <<captain, solo, comp>>

-----------------------------------------------------------------------------
(* Early returns: the request ends with an error and rolls back. *)
Refused(u) ==
  \/ pc[u] = "lockUser" /\ UserLockable(u, u) /\ req[u].op \notin MoveOps /\ team[u] = NoTeam
  \/ pc[u] = "findTeam" /\ status[req[u].token] # "active"
  \/ pc[u] = "checkTeam" /\ req[u].op = "Join" /\ ~HasRoom(target[u])
  \/ pc[u] = "checkTeam" /\ req[u].op = "Leave" /\ ~LeaveAllowed(u)
  \/ /\ pc[u] = "checkTeam" /\ req[u].op \in {"Disband", "Kick", "Transfer"}
     /\ \/ ~Leads(u, target[u])
        \/ req[u].op # "Disband" /\ team[req[u].peer] # target[u]
  \/ pc[u] = "checkOld" /\ team[u] # NoTeam /\ ~(SoleSoloMember(u) /\ req[u].confirm)
  \/ pc[u] = "dropOld" /\ TeamLockable(u, team[u]) /\ status[team[u]] # "active"

(* The request whose row lock u waits for. *)
WaitsFor(u) ==
  {v \in Users \ {u} :
     \/ pc[u] = "lockUser" /\ userLock[u] = v
     \/ pc[u] = "lockTeam" /\ teamLock[target[u]] = v
     \/ pc[u] = "dropOld" /\ teamLock[team[u]] = v
     \/ pc[u] = "lockRows" /\ \E m \in pending[u] : userLock[m] = v}

(* PostgreSQL looks for a wait cycle and fails one of the requests in it. *)
Deadlocked(u) ==
  \E cycle \in SUBSET Users :
    u \in cycle /\ \A v \in cycle : WaitsFor(v) \cap cycle # {}

(* The competition row is updated by the administrator. *)
UpdateCompetition ==
  /\ comp' \in [open : Opens, mode : Modes]
  /\ UNCHANGED <<rosterVars, txVars>>

(* Variant: no retention period, so a row goes as soon as its members do. *)
RetainedByMembers(t) == \E u \in Running : t = team[u]

(* The nightly job removes rows deleted 30 days ago: no request that runs    *)
(* now began before that, so none refers to the row.                         *)
Retained(t) ==
  \E u \in Running : t \in {target[u], team[u], req[u].token}

CleanupDeletedTeams(t) ==
  /\ ~Retained(t)
  /\ \A m \in Members(t) : userLock[m] = NoUser
  /\ HardDelete(t)
  /\ UNCHANGED <<comp, txVars>>

UserStep(u) ==
  \/ LockUser(u) \/ FindTeam(u) \/ LockTeam(u) \/ JoinCheck(u)
  \/ CheckOldTeam(u) \/ DropOldTeam(u) \/ CaptainCheck(u)
  \/ \E m \in Users : LockPendingRow(u, m)
  \/ CommitCreate(u) \/ CommitJoin(u) \/ CommitLeave(u)
  \/ CommitTransfer(u) \/ CommitKick(u) \/ CommitDisband(u)

Next ==
  \/ \E u \in Users :
       \/ \E r \in Admissible : Begin(u, r)
       \/ UserStep(u)
       \/ Rollback(u)
  \/ UpdateCompetition
  \/ \E t \in Teams : CleanupDeletedTeams(t)

Spec == Init /\ [][Next]_vars

(* The server runs every request on: a statement that can run does, a waiter *)
(* that can have its lock again and again gets it, an error return or a      *)
(* deadlock victim rolls back, and cron runs the cleanup job.                *)
Fairness ==
  /\ \A u \in Users :
       /\ SF_vars(UserStep(u))
       /\ WF_vars((Refused(u) \/ Deadlocked(u)) /\ Rollback(u))
  /\ \A t \in Teams : WF_vars(CleanupDeletedTeams(t))

FairSpec == Spec /\ Fairness

-----------------------------------------------------------------------------
(* What a captain's request decided on stays true until it commits: while it *)
(* waits for rows it still leads the team, and exactly the rows it means to  *)
(* update are (all the) members, so no write lands on a user who has moved.  *)
CaptainReadsStayValid ==
  \A u \in Users : pc[u] = "lockRows" =>
    /\ Leads(u, target[u]) /\ team[u] = target[u]
    /\ pending[u] \subseteq Members(target[u])
    /\ req[u].op = "Disband" => pending[u] = Members(target[u])

(* A user's team_id never changes under a request of that user that has read *)
(* it, unless the request itself commits.                                    *)
OwnTeamIdStable ==
  [][\A u \in Users :
       (pc[u] \notin {"idle", "lockUser"} /\ pc'[u] # "idle") => team'[u] = team[u]]_vars

(* The members of a live team change only in the step of a request that      *)
(* holds the lock of its row, or when a team is created.                     *)
MembersChangeUnderTeamLock ==
  [][\A t \in Teams :
       (status[t] = "active" /\ Members(t)' # Members(t)) => teamLock[t] # NoUser]_vars

(* Waiting always leads somewhere: among the running requests, and among any  *)
(* of them that wait for no others, some request can go on, returns early, or *)
(* is in a wait cycle, which PostgreSQL breaks.  In particular no row lock    *)
(* outlives the request that took it.                                         *)
GoesOn(u) ==
  \/ pc[u] = "lockUser" /\ UserLockable(u, u)
  \/ pc[u] = "findTeam"
  \/ pc[u] = "lockTeam" /\ TeamLockable(u, target[u])
  \/ pc[u] \in {"checkTeam", "checkOld"}
  \/ pc[u] = "dropOld" /\ TeamLockable(u, team[u])
  \/ pc[u] = "lockRows" /\ \/ \E m \in pending[u] : userLock[m] = NoUser
                           \/ RowsLocked(u)
  \/ pc[u] = "commit" /\ (req[u].op = "Join" \/ \E t \in Teams : status[t] = "none")
WaitsAreResolved ==
  \A group \in (SUBSET Running) \ {{}} :
    (\A u \in group : WaitsFor(u) \cap Running \subseteq group) =>
      \E u \in group : GoesOn(u) \/ Deadlocked(u)

(* Every admitted request comes to an end, deadlocks included. *)
RequestsEnd == \A u \in Users : pc[u] # "idle" ~> pc[u] = "idle"

(* A frozen roster settles: once allow_team_switch stays off, the requests    *)
(* admitted before drain, and a user whom a race left in a soft-deleted team *)
(* is in the end released from it.                                           *)
FrozenRosterSettles ==
  <>[](~comp.open) =>
    <>[](Running = {} /\ \A u \in Users : team[u] # NoTeam => status[team[u]] = "active")

(* A user's successful join puts the user in a team the user can see.        *)
JoinedTeamIsVisible ==
  \A u \in Users : team[u] # NoTeam => status[team[u]] = "active"
=============================================================================
