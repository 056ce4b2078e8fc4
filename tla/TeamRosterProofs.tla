-------------------------- MODULE TeamRosterProofs --------------------------
(* The transactions of TeamRoster implement the atomic roster, for any       *)
(* number of users, teams, places and concurrent requests.                   *)
EXTENDS TeamRoster, FiniteSetTheorems, TLAPS

-----------------------------------------------------------------------------
(* The atomic roster.                                                        *)

(* Inductive as it stands: a captain is kept a member by the guards of every *)
(* operation, and the room a joiner needs is counted without the joiner.     *)
RosterInv ==
  RosterTypeOK /\ CaptainIsMember /\ NoDanglingTeamId /\ TeamSizeBounded

(* Some members of a team that is within the limit are within the limit. *)
LEMMA FewerMembers ==
  ASSUME NEW S \in SUBSET Users, NEW R \in SUBSET S, Cardinality(S) <= MaxTeamSize
  PROVE  Cardinality(R) <= MaxTeamSize
<1>1. IsFiniteSet(S)
  BY FS_Subset, UsersAssumption
<1>2. IsFiniteSet(R) /\ Cardinality(R) <= Cardinality(S)
  BY <1>1, FS_Subset
<1> QED
  BY <1>1, <1>2, FS_CardinalityType, SizeAssumption

(* Room without the joiner is room for the joiner. *)
LEMMA RoomForOne ==
  ASSUME NEW S \in SUBSET Users, NEW u \in Users,
         Cardinality(S \ {u}) < MaxTeamSize
  PROVE  Cardinality(S \cup {u}) <= MaxTeamSize
<1>1. IsFiniteSet(S \ {u})
  BY FS_Subset, UsersAssumption
<1>2. Cardinality((S \ {u}) \cup {u}) = Cardinality(S \ {u}) + 1
  BY <1>1, FS_AddElement
<1>3. (S \ {u}) \cup {u} = S \cup {u}
  OBVIOUS
<1>4. Cardinality(S \ {u}) \in Nat
  BY <1>1, FS_CardinalityType
<1>5. Cardinality(S \cup {u}) = Cardinality(S \ {u}) + 1
  BY <1>2, <1>3
<1> QED
  BY <1>4, <1>5, SizeAssumption

(* An unused row has no members. *)
LEMMA NoneIsEmpty ==
  ASSUME RosterTypeOK, NoDanglingTeamId, NEW t \in Teams, status[t] = "none"
  PROVE  Members(t) = {}
BY TeamsAssumption DEF RosterTypeOK, NoDanglingTeamId, Members

LEMMA RosterInitInv == RosterInit => RosterInv
<1> SUFFICES ASSUME RosterInit PROVE RosterInv
  OBVIOUS
<1>1. RosterTypeOK
  BY DEF RosterInit, RosterTypeOK, Statuses
<1>2. CaptainIsMember /\ NoDanglingTeamId
  BY DEF RosterInit, CaptainIsMember, NoDanglingTeamId
<1>3. \A t \in Teams : Members(t) = {}
  BY TeamsAssumption DEF RosterInit, Members
<1>4. TeamSizeBounded
  BY <1>3, FS_EmptySet, SizeAssumption DEF TeamSizeBounded
<1> QED
  BY <1>1, <1>2, <1>4 DEF RosterInv

LEMMA CreatePreservesInv ==
  ASSUME RosterInv, NEW u \in Users, NEW t \in Teams, NEW s \in BOOLEAN,
         CreateTeam(u, t, s)
  PROVE  RosterInv'
<1> USE DEF RosterInv, CreateTeam, OldTeamDropped
<1>1. RosterTypeOK'
  BY DEF RosterTypeOK, Statuses
<1>2. CaptainIsMember'
  <2> SUFFICES ASSUME NEW r \in Teams, status'[r] = "active"
               PROVE  captain'[r] \in Members(r)'
    BY DEF CaptainIsMember
  <2>1. CASE r = t
    BY <2>1 DEF RosterTypeOK, Members
  <2>2. CASE r # t
    <3>1. status[r] = "active" /\ r # team[u]
      BY <2>2 DEF RosterTypeOK
    <3>2. captain'[r] = captain[r] /\ captain[r] \in Members(r)
      BY <2>2, <3>1 DEF RosterTypeOK, CaptainIsMember
    <3> QED
      BY <3>1, <3>2 DEF RosterTypeOK, Members
  <2> QED
    BY <2>1, <2>2
<1>3. NoDanglingTeamId'
  BY TeamsAssumption DEF RosterTypeOK, NoDanglingTeamId
<1>4. TeamSizeBounded'
  <2> SUFFICES ASSUME NEW r \in Teams
               PROVE  Cardinality(Members(r)') <= MaxTeamSize
    BY DEF TeamSizeBounded
  <2>1. CASE r = t
    <3>1. Members(t) = {}
      BY NoneIsEmpty
    <3>2. Members(t)' = {u}
      BY <3>1 DEF Members, RosterTypeOK
    <3>3. Cardinality({u}) = 1
      BY FS_Singleton
    <3> QED
      BY <2>1, <3>2, <3>3, SizeAssumption
  <2>2. CASE r # t
    <3>1. Members(r)' \subseteq Members(r) /\ Members(r) \subseteq Users
      BY <2>2 DEF Members, RosterTypeOK
    <3> QED
      BY <3>1, FewerMembers DEF TeamSizeBounded
  <2> QED
    BY <2>1, <2>2
<1> QED
  BY <1>1, <1>2, <1>3, <1>4

LEMMA JoinPreservesInv ==
  ASSUME RosterInv, NEW u \in Users, NEW t \in Teams, JoinTeam(u, t)
  PROVE  RosterInv'
<1> USE DEF RosterInv, JoinTeam, OldTeamDropped
<1>1. RosterTypeOK'
  BY DEF RosterTypeOK, Statuses
<1>2. CaptainIsMember'
  <2> SUFFICES ASSUME NEW r \in Teams, status'[r] = "active"
               PROVE  captain'[r] \in Members(r)'
    BY DEF CaptainIsMember
  <2>1. status[r] = "active" /\ r # team[u]
    BY DEF RosterTypeOK
  <2>2. captain'[r] = captain[r] /\ captain[r] \in Members(r)
    BY <2>1 DEF CaptainIsMember
  <2> QED
    BY <2>1, <2>2 DEF RosterTypeOK, Members
<1>3. NoDanglingTeamId'
  BY DEF RosterTypeOK, NoDanglingTeamId
<1>4. TeamSizeBounded'
  <2> SUFFICES ASSUME NEW r \in Teams
               PROVE  Cardinality(Members(r)') <= MaxTeamSize
    BY DEF TeamSizeBounded
  <2>1. Members(r) \in SUBSET Users
    BY DEF Members
  <2>2. CASE r = t
    <3>1. Members(t)' = Members(t) \cup {u}
      BY DEF Members, RosterTypeOK
    <3> QED
      BY <2>1, <2>2, <3>1, RoomForOne
  <2>3. CASE r # t
    <3>1. Members(r)' \subseteq Members(r)
      BY <2>3 DEF Members, RosterTypeOK
    <3> QED
      BY <2>1, <3>1, FewerMembers DEF TeamSizeBounded
  <2> QED
    BY <2>2, <2>3
<1> QED
  BY <1>1, <1>2, <1>3, <1>4

(* Leaving, kicking, disbanding and the cleanup job only take users out of   *)
(* teams.                                                                    *)
LEMMA ShrinkKeepsSize ==
  ASSUME RosterInv, \A w \in Users : team'[w] \in {NoTeam, team[w]}
  PROVE  TeamSizeBounded'
<1> SUFFICES ASSUME NEW r \in Teams
             PROVE  Cardinality(Members(r)') <= MaxTeamSize
  BY DEF TeamSizeBounded
<1>1. Members(r)' \subseteq Members(r) /\ Members(r) \subseteq Users
  BY TeamsAssumption DEF Members
<1> QED
  BY <1>1, FewerMembers DEF RosterInv, TeamSizeBounded

LEMMA LeavePreservesInv ==
  ASSUME RosterInv, NEW u \in Users, LeaveTeam(u)
  PROVE  RosterInv'
<1> USE DEF RosterInv, LeaveTeam
<1>1. RosterTypeOK' /\ NoDanglingTeamId'
  BY DEF RosterTypeOK, NoDanglingTeamId
<1>2. CaptainIsMember'
  BY DEF RosterTypeOK, CaptainIsMember, Members
<1>3. TeamSizeBounded'
  BY ShrinkKeepsSize DEF RosterTypeOK
<1> QED
  BY <1>1, <1>2, <1>3

LEMMA TransferPreservesInv ==
  ASSUME RosterInv, NEW u \in Users, NEW m \in Users, TransferCaptaincy(u, m)
  PROVE  RosterInv'
<1> USE DEF RosterInv, TransferCaptaincy, Leads
<1>1. RosterTypeOK' /\ NoDanglingTeamId'
  BY DEF RosterTypeOK, NoDanglingTeamId
<1>2. CaptainIsMember'
  BY DEF RosterTypeOK, CaptainIsMember, Members
<1>3. TeamSizeBounded'
  BY ShrinkKeepsSize DEF RosterTypeOK
<1> QED
  BY <1>1, <1>2, <1>3

LEMMA DisbandPreservesInv ==
  ASSUME RosterInv, NEW u \in Users, DisbandOwnTeam(u)
  PROVE  RosterInv'
<1> USE DEF RosterInv, DisbandOwnTeam, Leads
<1>1. RosterTypeOK' /\ NoDanglingTeamId'
  BY DEF RosterTypeOK, NoDanglingTeamId, Statuses
<1>2. CaptainIsMember'
  BY DEF RosterTypeOK, CaptainIsMember, Members
<1>3. TeamSizeBounded'
  BY ShrinkKeepsSize DEF RosterTypeOK
<1> QED
  BY <1>1, <1>2, <1>3

LEMMA KickPreservesInv ==
  ASSUME RosterInv, NEW u \in Users, NEW m \in Users, KickFromTeam(u, m)
  PROVE  RosterInv'
<1> USE DEF RosterInv, KickFromTeam, Leads
<1>1. RosterTypeOK' /\ NoDanglingTeamId'
  BY DEF RosterTypeOK, NoDanglingTeamId
<1>2. CaptainIsMember'
  BY DEF RosterTypeOK, CaptainIsMember, Members
<1>3. TeamSizeBounded'
  BY ShrinkKeepsSize DEF RosterTypeOK
<1> QED
  BY <1>1, <1>2, <1>3

LEMMA HardDeletePreservesInv ==
  ASSUME RosterInv, NEW t \in Teams, HardDelete(t)
  PROVE  RosterInv'
<1> USE DEF RosterInv, HardDelete
<1>1. RosterTypeOK' /\ NoDanglingTeamId'
  BY DEF RosterTypeOK, NoDanglingTeamId, Statuses
<1>2. CaptainIsMember'
  BY DEF RosterTypeOK, CaptainIsMember, Members
<1>3. TeamSizeBounded'
  BY ShrinkKeepsSize DEF RosterTypeOK
<1> QED
  BY <1>1, <1>2, <1>3

(* No operation of the roster breaks its invariant. *)
LEMMA RosterNextInv == RosterInv /\ [RosterNext]_rosterVars => RosterInv'
<1> SUFFICES ASSUME RosterInv, [RosterNext]_rosterVars PROVE RosterInv'
  OBVIOUS
<1>1. CASE UNCHANGED rosterVars
  BY <1>1 DEF RosterInv, RosterTypeOK, CaptainIsMember, NoDanglingTeamId,
              TeamSizeBounded, Members, rosterVars
<1>2. CASE \E u \in Users, t \in Teams : \E s \in BOOLEAN : CreateTeam(u, t, s)
  BY <1>2, CreatePreservesInv
<1>3. CASE \E u \in Users, t \in Teams : JoinTeam(u, t)
  BY <1>3, JoinPreservesInv
<1>4. CASE \E u \in Users : LeaveTeam(u) \/ DisbandOwnTeam(u)
  BY <1>4, LeavePreservesInv, DisbandPreservesInv
<1>5. CASE \E u, m \in Users : TransferCaptaincy(u, m) \/ KickFromTeam(u, m)
  BY <1>5, TransferPreservesInv, KickPreservesInv
<1>6. CASE \E t \in Teams : HardDelete(t)
  BY <1>6, HardDeletePreservesInv
<1> QED
  BY <1>1, <1>2, <1>3, <1>4, <1>5, <1>6 DEF RosterNext

(* The atomic roster keeps its types, its captains, its foreign keys and its *)
(* team size, whatever the number of users, teams and places.                *)
THEOREM RosterSafe == RosterSpec => []RosterInv
<1> QED
  BY RosterInitInv, RosterNextInv, PTL DEF RosterSpec

(* In the atomic roster, a direct move deletes the team it leaves. *)
THEOREM RosterMoves == RosterSpec => MoveDeletesOldTeam
<1> DEFINE Move ==
      \A u \in Users :
        (team[u] # NoTeam /\ team'[u] \notin {NoTeam, team[u]})
          => status'[team[u]] = "deleted"
<1>1. RosterInv /\ [RosterNext]_rosterVars => [Move]_rosterVars
  <2> SUFFICES ASSUME RosterInv, RosterNext, NEW u \in Users,
                      team[u] # NoTeam, team'[u] \notin {NoTeam, team[u]}
               PROVE  status'[team[u]] = "deleted"
    OBVIOUS
  <2> USE DEF RosterInv, RosterTypeOK
  <2>1. CASE \E v \in Users, t \in Teams : \E s \in BOOLEAN : CreateTeam(v, t, s)
    BY <2>1 DEF CreateTeam, OldTeamDropped, Movable
  <2>2. CASE \E v \in Users, t \in Teams : JoinTeam(v, t)
    BY <2>2 DEF JoinTeam, OldTeamDropped, Movable
  <2>3. CASE \E v \in Users : LeaveTeam(v) \/ DisbandOwnTeam(v)
    BY <2>3 DEF LeaveTeam, DisbandOwnTeam
  <2>4. CASE \E v, m \in Users : TransferCaptaincy(v, m) \/ KickFromTeam(v, m)
    BY <2>4 DEF TransferCaptaincy, KickFromTeam
  <2>5. CASE \E t \in Teams : HardDelete(t)
    BY <2>5 DEF HardDelete
  <2> QED
    BY <2>1, <2>2, <2>3, <2>4, <2>5 DEF RosterNext
<1> QED
  BY <1>1, RosterSafe, PTL DEF RosterSpec, MoveDeletesOldTeam

-----------------------------------------------------------------------------
(* The transactions.                                                         *)

(* What a request knows at each of its statements, and the locks that keep   *)
(* it true.                                                                  *)
PhaseOK(u) ==
  /\ pc[u] # "idle" => req[u] \in Admissible /\ req[u].peer # u
  /\ pc[u] = "findTeam" => req[u].op = "Join"
  /\ pc[u] \in {"lockTeam", "checkTeam"} => req[u].op \notin {"Create", "CreateSolo"}
  /\ pc[u] \in {"checkOld", "dropOld", "commit"} => req[u].op \in MoveOps
  /\ pc[u] = "lockRows" => req[u].op \in {"Disband", "Kick", "Transfer"}

(* The statements between which a request works on its target team. *)
OnTarget(u) ==
  \/ pc[u] \in {"lockTeam", "checkTeam", "lockRows"}
  \/ req[u].op = "Join" /\ pc[u] \in {"checkOld", "dropOld", "commit"}

TargetOK(u) ==
  OnTarget(u) =>
    /\ target[u] \in Teams /\ status[target[u]] # "none"
    /\ pc[u] # "lockTeam" => teamLock[target[u]] = u
    /\ req[u].op \notin MoveOps => target[u] = team[u]

RoomOK(u) ==
  (req[u].op = "Join" /\ pc[u] \in {"checkOld", "dropOld", "commit"}) =>
    Cardinality(Members(target[u]) \ {u}) < MaxTeamSize

OldTeamOK(u) ==
  /\ pc[u] = "dropOld" => team[u] # NoTeam /\ solo[team[u]]
  /\ (pc[u] = "commit" /\ team[u] # NoTeam) =>
       teamLock[team[u]] = u /\ status[team[u]] = "active" /\ solo[team[u]]

RowsOK(u) ==
  pc[u] = "lockRows" =>
    /\ Leads(u, target[u]) /\ team[u] = target[u]
    /\ pending[u] \subseteq Members(target[u])
    /\ req[u].op = "Disband" => pending[u] = Members(target[u])
    /\ req[u].op # "Disband" => pending[u] = {req[u].peer}

OwnRowOK(u) == pc[u] \notin {"idle", "lockUser"} => userLock[u] = u

RequestOK(u) ==
  PhaseOK(u) /\ TargetOK(u) /\ RoomOK(u) /\ OldTeamOK(u) /\ RowsOK(u) /\ OwnRowOK(u)

(* Team locks are held by running requests, on the team they work on or on   *)
(* the one they are about to delete.                                         *)
LocksOK ==
  \A t \in Teams, u \in Users : teamLock[t] = u =>
    /\ pc[u] \in {"checkTeam", "checkOld", "dropOld", "commit", "lockRows"}
    /\ t = target[u] \/ (pc[u] = "commit" /\ t = team[u])

(* The inductive invariant. *)
IInv == TypeOK /\ RosterInv /\ LocksOK /\ \A u \in Users : RequestOK(u)

-----------------------------------------------------------------------------
(* Refinement: each commit is an atomic operation of the roster, every other *)
(* statement leaves the tables alone.                                        *)

LEMMA CommitCreateRefines ==
  ASSUME IInv, NEW u \in Users, CommitCreate(u)
  PROVE  \E t \in Teams, s \in BOOLEAN : CreateTeam(u, t, s)
<1>1. PICK t \in Teams :
        /\ status[t] = "none"
        /\ status' = [OldTeamDropped(u) EXCEPT ![t] = "active"]
        /\ captain' = [captain EXCEPT ![t] = u]
        /\ solo' = [solo EXCEPT ![t] = (req[u].op = "CreateSolo")]
        /\ team' = [team EXCEPT ![u] = t]
  BY DEF CommitCreate
<1>2. Movable(u)
  BY DEF CommitCreate, IInv, RequestOK, OldTeamOK, Movable
<1>3. (req[u].op = "CreateSolo") \in BOOLEAN
  OBVIOUS
<1>4. CreateTeam(u, t, req[u].op = "CreateSolo")
  BY <1>1, <1>2 DEF CreateTeam
<1> QED
  BY <1>3, <1>4

LEMMA CommitJoinRefines ==
  ASSUME IInv, NEW u \in Users, CommitJoin(u)
  PROVE  \E t \in Teams : JoinTeam(u, t)
<1>1. Movable(u)
  BY DEF CommitJoin, IInv, RequestOK, OldTeamOK, Movable
<1>2. target[u] \in Teams /\ status[target[u]] # "none"
  BY DEF CommitJoin, IInv, RequestOK, TargetOK, OnTarget
<1>3. Cardinality(Members(target[u]) \ {u}) < MaxTeamSize
  BY DEF CommitJoin, IInv, RequestOK, RoomOK
<1>4. JoinTeam(u, target[u])
  BY <1>1, <1>2, <1>3 DEF CommitJoin, JoinTeam
<1> QED
  BY <1>2, <1>4

LEMMA CommitLeaveRefines ==
  ASSUME IInv, NEW u \in Users, CommitLeave(u)
  PROVE  LeaveTeam(u)
<1>1. target[u] \in Teams /\ target[u] = team[u]
  BY DEF CommitLeave, IInv, RequestOK, TargetOK, OnTarget, MoveOps
<1>2. Members(target[u]) # {u}
  BY FS_Singleton DEF CommitLeave, LeaveAllowed
<1> QED
  BY <1>1, <1>2 DEF CommitLeave, LeaveAllowed, LeaveTeam

LEMMA CommitTransferRefines ==
  ASSUME IInv, NEW u \in Users, CommitTransfer(u)
  PROVE  \E m \in Users : TransferCaptaincy(u, m)
<1>1. /\ Leads(u, target[u]) /\ team[u] = target[u]
      /\ pending[u] = {req[u].peer} /\ pending[u] \subseteq Members(target[u])
  BY DEF CommitTransfer, RowsLocked, IInv, RequestOK, RowsOK
<1>2. req[u].peer # u
  BY DEF CommitTransfer, RowsLocked, IInv, RequestOK, PhaseOK
<1>3. req[u].peer \in Members(team[u]) \ {u} /\ req[u].peer \in Users
  BY <1>1, <1>2 DEF Members
<1>4. TransferCaptaincy(u, req[u].peer)
  BY <1>1, <1>3 DEF CommitTransfer, TransferCaptaincy
<1> QED
  BY <1>3, <1>4

LEMMA CommitKickRefines ==
  ASSUME IInv, NEW u \in Users, CommitKick(u)
  PROVE  \E m \in Users : KickFromTeam(u, m)
<1>1. /\ Leads(u, target[u]) /\ team[u] = target[u]
      /\ pending[u] = {req[u].peer} /\ pending[u] \subseteq Members(target[u])
  BY DEF CommitKick, RowsLocked, IInv, RequestOK, RowsOK
<1>2. req[u].peer # u
  BY DEF CommitKick, RowsLocked, IInv, RequestOK, PhaseOK
<1>3. req[u].peer \in Members(team[u]) \ {u} /\ req[u].peer \in Users
  BY <1>1, <1>2 DEF Members
<1>4. team' = [team EXCEPT ![req[u].peer] = NoTeam]
  BY <1>1, <1>3 DEF CommitKick, Released, IInv, RosterInv, RosterTypeOK
<1>5. KickFromTeam(u, req[u].peer)
  BY <1>1, <1>3, <1>4 DEF CommitKick, KickFromTeam
<1> QED
  BY <1>3, <1>5

LEMMA CommitDisbandRefines ==
  ASSUME IInv, NEW u \in Users, CommitDisband(u)
  PROVE  DisbandOwnTeam(u)
<1>1. /\ Leads(u, target[u]) /\ team[u] = target[u]
      /\ pending[u] = Members(target[u])
  BY DEF CommitDisband, RowsLocked, IInv, RequestOK, RowsOK
<1>2. team' = [v \in Users |-> IF team[v] = team[u] THEN NoTeam ELSE team[v]]
  BY <1>1 DEF CommitDisband, Released, Members
<1> QED
  BY <1>1, <1>2 DEF CommitDisband, DisbandOwnTeam

(* A statement before the commit. *)
Statement(u) ==
  \/ LockUser(u) \/ FindTeam(u) \/ LockTeam(u) \/ JoinCheck(u)
  \/ CheckOldTeam(u) \/ DropOldTeam(u) \/ CaptainCheck(u)
  \/ \E m \in Users : LockPendingRow(u, m)

LEMMA StatementsStutter ==
  ASSUME NEW u \in Users, Statement(u)
  PROVE  UNCHANGED rosterVars /\ UNCHANGED comp
BY DEF Statement, LockUser, FindTeam, LockTeam, JoinCheck, CheckOldTeam,
       DropOldTeam, CaptainCheck, LockPendingRow

LEMMA StepRefines == IInv /\ [Next]_vars => [RosterNext]_rosterVars
<1> SUFFICES ASSUME IInv, [Next]_vars PROVE [RosterNext]_rosterVars
  OBVIOUS
<1>1. CASE UNCHANGED vars
  BY <1>1 DEF vars, rosterVars
<1>2. ASSUME NEW u \in Users, NEW r \in Admissible, Begin(u, r)
      PROVE  UNCHANGED rosterVars
  BY <1>2 DEF Begin
<1>3. ASSUME NEW u \in Users, UserStep(u)
      PROVE  [RosterNext]_rosterVars
  <2>1. CASE Statement(u)
    BY <2>1, StatementsStutter
  <2>2. CASE CommitCreate(u)
    BY <2>2, CommitCreateRefines DEF RosterNext
  <2>3. CASE CommitJoin(u)
    BY <2>3, CommitJoinRefines DEF RosterNext
  <2>4. CASE CommitLeave(u)
    BY <2>4, CommitLeaveRefines DEF RosterNext
  <2>5. CASE CommitTransfer(u)
    BY <2>5, CommitTransferRefines DEF RosterNext
  <2>6. CASE CommitKick(u)
    BY <2>6, CommitKickRefines DEF RosterNext
  <2>7. CASE CommitDisband(u)
    BY <2>7, CommitDisbandRefines DEF RosterNext
  <2> QED
    BY <1>3, <2>1, <2>2, <2>3, <2>4, <2>5, <2>6, <2>7 DEF UserStep, Statement
<1>4. ASSUME NEW u \in Users, Rollback(u) PROVE UNCHANGED rosterVars
  BY <1>4 DEF Rollback
<1>5. CASE UpdateCompetition
  BY <1>5 DEF UpdateCompetition
<1>6. ASSUME NEW t \in Teams, CleanupDeletedTeams(t) PROVE RosterNext
  BY <1>6 DEF CleanupDeletedTeams, RosterNext
<1> QED
  BY <1>1, <1>2, <1>3, <1>4, <1>5, <1>6 DEF Next

-----------------------------------------------------------------------------
(* What the other requests leave alone: the locals of u, the locks u holds,  *)
(* the row of u once u has it locked, and every team u has locked.           *)
Undisturbed(u) ==
  /\ pc'[u] = pc[u] /\ req'[u] = req[u]
  /\ target'[u] = target[u] /\ pending'[u] = pending[u]
  /\ userLock[u] = u => userLock'[u] = u
  /\ (userLock[u] = u /\ pc[u] # "idle") => team'[u] = team[u]
  /\ \A t \in Teams :
       (teamLock[t] = u /\ status[t] # "none" /\ t \in {target[u], team[u]} /\ pc[u] # "idle") =>
         /\ teamLock'[t] = u
         /\ status'[t] = status[t] /\ captain'[t] = captain[t] /\ solo'[t] = solo[t]
         /\ \A w \in Users : team'[w] = t <=> team[w] = t
  /\ \A t \in Teams :
       (status[t] # "none" /\ t \in {target[u], team[u]} /\ pc[u] # "idle") =>
         status'[t] # "none" /\ solo'[t] = solo[t]

LEMMA StatementLeavesOthers ==
  ASSUME IInv, NEW u \in Users, NEW v \in Users, u # v, Statement(v)
  PROVE  Undisturbed(u)
<1>1. team' = team /\ status' = status /\ captain' = captain /\ solo' = solo
  BY StatementsStutter DEF rosterVars
<1>2. /\ pc'[u] = pc[u] /\ req'[u] = req[u]
      /\ target'[u] = target[u] /\ pending'[u] = pending[u]
  BY DEF Statement, LockUser, FindTeam, LockTeam, JoinCheck, CheckOldTeam,
         DropOldTeam, CaptainCheck, LockPendingRow, Goto, IInv, TypeOK
<1>3. userLock[u] = u => userLock'[u] = u
  BY UsersAssumption DEF Statement, LockUser, FindTeam, LockTeam, JoinCheck, CheckOldTeam,
         DropOldTeam, CaptainCheck, LockPendingRow, LockUserRow, UserLockable, IInv, TypeOK
<1>4. \A t \in Teams : teamLock[t] = u => teamLock'[t] = u
  BY UsersAssumption DEF Statement, LockUser, FindTeam, LockTeam, JoinCheck, CheckOldTeam,
         DropOldTeam, CaptainCheck, LockPendingRow, LockTeamRow, TeamLockable, IInv, TypeOK
<1> QED
  BY <1>1, <1>2, <1>3, <1>4 DEF Undisturbed

(* The end of a request releases its own locks only. *)
LEMMA FinishLeavesOthers ==
  ASSUME IInv, NEW u \in Users, NEW v \in Users, u # v, Finish(v)
  PROVE  /\ pc'[u] = pc[u] /\ req'[u] = req[u]
         /\ target'[u] = target[u] /\ pending'[u] = pending[u]
         /\ userLock[u] = u => userLock'[u] = u
         /\ \A t \in Teams : teamLock[t] = u => teamLock'[t] = u
BY DEF Finish, IInv, TypeOK

LEMMA CommitCreateLeavesOthers ==
  ASSUME IInv, NEW u \in Users, NEW v \in Users, u # v, CommitCreate(v)
  PROVE  Undisturbed(u)
<1>1. PICK r \in Teams :
        /\ status[r] = "none"
        /\ status' = [OldTeamDropped(v) EXCEPT ![r] = "active"]
        /\ captain' = [captain EXCEPT ![r] = v]
        /\ solo' = [solo EXCEPT ![r] = (req[v].op = "CreateSolo")]
        /\ team' = [team EXCEPT ![v] = r]
  BY DEF CommitCreate
<1>2. team'[u] = team[u]
  BY <1>1 DEF IInv, TypeOK, RosterTypeOK
<1>3. ASSUME NEW t \in Teams, teamLock[t] = u, status[t] # "none"
      PROVE  /\ status'[t] = status[t] /\ captain'[t] = captain[t] /\ solo'[t] = solo[t]
             /\ \A w \in Users : team'[w] = t <=> team[w] = t
  <2>1. t # team[v]
    BY <1>3, TeamsAssumption DEF CommitCreate, IInv, RequestOK, OldTeamOK
  <2> QED
    BY <1>1, <1>3, <2>1 DEF OldTeamDropped, IInv, TypeOK, RosterTypeOK
<1>4. ASSUME NEW t \in Teams, status[t] # "none"
      PROVE  status'[t] # "none" /\ solo'[t] = solo[t]
  BY <1>1, <1>4 DEF OldTeamDropped, IInv, TypeOK, RosterTypeOK
<1>5. Finish(v)
  BY DEF CommitCreate
<1> QED
  BY <1>2, <1>3, <1>4, <1>5, FinishLeavesOthers DEF Undisturbed

LEMMA CommitJoinLeavesOthers ==
  ASSUME IInv, NEW u \in Users, NEW v \in Users, u # v, CommitJoin(v)
  PROVE  Undisturbed(u)
<1>1. teamLock[target[v]] = v /\ target[v] \in Teams
  BY DEF CommitJoin, IInv, RequestOK, TargetOK, OnTarget
<1>2. team'[u] = team[u]
  BY DEF CommitJoin, IInv, TypeOK, RosterTypeOK
<1>3. ASSUME NEW t \in Teams, teamLock[t] = u
      PROVE  /\ status'[t] = status[t] /\ captain'[t] = captain[t] /\ solo'[t] = solo[t]
             /\ \A w \in Users : team'[w] = t <=> team[w] = t
  <2>1. t # team[v] /\ t # target[v]
    BY <1>1, <1>3, TeamsAssumption DEF CommitJoin, IInv, RequestOK, OldTeamOK
  <2> QED
    BY <2>1 DEF CommitJoin, OldTeamDropped, IInv, TypeOK, RosterTypeOK
<1>4. ASSUME NEW t \in Teams, status[t] # "none"
      PROVE  status'[t] # "none" /\ solo'[t] = solo[t]
  BY <1>4 DEF CommitJoin, OldTeamDropped, IInv, TypeOK, RosterTypeOK
<1>5. Finish(v)
  BY DEF CommitJoin
<1> QED
  BY <1>2, <1>3, <1>4, <1>5, FinishLeavesOthers DEF Undisturbed

LEMMA CommitLeaveLeavesOthers ==
  ASSUME IInv, NEW u \in Users, NEW v \in Users, u # v, CommitLeave(v)
  PROVE  Undisturbed(u)
<1>1. teamLock[team[v]] = v
  BY DEF CommitLeave, IInv, RequestOK, TargetOK, OnTarget, MoveOps
<1>2. team'[u] = team[u] /\ status' = status /\ captain' = captain /\ solo' = solo
  BY DEF CommitLeave, IInv, TypeOK, RosterTypeOK
<1>3. ASSUME NEW t \in Teams, teamLock[t] = u
      PROVE  \A w \in Users : team'[w] = t <=> team[w] = t
  BY <1>1, <1>3, TeamsAssumption DEF CommitLeave, IInv, TypeOK, RosterTypeOK
<1>4. Finish(v)
  BY DEF CommitLeave
<1> QED
  BY <1>2, <1>3, <1>4, FinishLeavesOthers DEF Undisturbed

(* A captain's commit touches the locked team and rows it has locked. *)
LEMMA CaptainCommitLeavesOthers ==
  ASSUME IInv, NEW u \in Users, NEW v \in Users, u # v,
         CommitTransfer(v) \/ CommitKick(v) \/ CommitDisband(v)
  PROVE  Undisturbed(u)
<1>1. /\ teamLock[target[v]] = v /\ target[v] \in Teams
      /\ status[target[v]] = "active"
      /\ pending[v] \subseteq Members(target[v])
      /\ \A m \in pending[v] : userLock[m] = v
  BY DEF CommitTransfer, CommitKick, CommitDisband, RowsLocked, IInv, RequestOK,
         TargetOK, OnTarget, RowsOK, Leads
<1>2. userLock[u] = u => team'[u] = team[u]
  BY <1>1 DEF CommitTransfer, CommitKick, CommitDisband, Released, IInv, TypeOK, RosterTypeOK
<1>3. ASSUME NEW t \in Teams, teamLock[t] = u
      PROVE  /\ status'[t] = status[t] /\ captain'[t] = captain[t] /\ solo'[t] = solo[t]
             /\ \A w \in Users : team'[w] = t <=> team[w] = t
  <2>1. t # target[v]
    BY <1>1, <1>3
  <2>2. \A m \in pending[v] : team[m] = target[v]
    BY <1>1 DEF Members
  <2> QED
    BY <2>1, <2>2, TeamsAssumption
       DEF CommitTransfer, CommitKick, CommitDisband, Released, IInv, TypeOK, RosterTypeOK
<1>4. ASSUME NEW t \in Teams, status[t] # "none"
      PROVE  status'[t] # "none" /\ solo'[t] = solo[t]
  BY <1>1, <1>4 DEF CommitTransfer, CommitKick, CommitDisband, IInv, TypeOK, RosterTypeOK
<1>5. Finish(v)
  BY DEF CommitTransfer, CommitKick, CommitDisband
<1> QED
  BY <1>2, <1>3, <1>4, <1>5, FinishLeavesOthers DEF Undisturbed

(* The cleanup job leaves every running request alone. *)
LEMMA CleanupLeavesRequests ==
  ASSUME IInv, NEW u \in Users, NEW r \in Teams, CleanupDeletedTeams(r)
  PROVE  Undisturbed(u)
<1>1. pc[u] # "idle" => r # target[u] /\ r # team[u]
  BY DEF CleanupDeletedTeams, Retained, Running
<1>2. pc[u] # "idle" => team'[u] = team[u]
  BY <1>1 DEF CleanupDeletedTeams, HardDelete, IInv, TypeOK, RosterTypeOK
<1>3. \A t \in Teams : t # r =>
        /\ status'[t] = status[t] /\ captain'[t] = captain[t] /\ solo'[t] = solo[t]
        /\ \A w \in Users : team'[w] = t <=> team[w] = t
  BY TeamsAssumption DEF CleanupDeletedTeams, HardDelete, IInv, TypeOK, RosterTypeOK
<1> QED
  BY <1>1, <1>2, <1>3 DEF CleanupDeletedTeams, txVars, Undisturbed

(* An undisturbed request still knows what it knew. *)
LEMMA UndisturbedKeepsRequest ==
  ASSUME IInv, NEW u \in Users, Undisturbed(u)
  PROVE  RequestOK(u)'
<1> USE DEF Undisturbed
<1>0. RequestOK(u) /\ TypeOK /\ NoDanglingTeamId
  BY DEF IInv, RosterInv
<1>1. PhaseOK(u)'
  BY <1>0 DEF RequestOK, PhaseOK, Admissible
<1>2. OwnRowOK(u)'
  BY <1>0 DEF RequestOK, OwnRowOK
<1>3. TargetOK(u)'
  BY <1>0 DEF RequestOK, TargetOK, OnTarget, OwnRowOK
<1>4. RoomOK(u)'
  <2> SUFFICES ASSUME req[u].op = "Join", pc[u] \in {"checkOld", "dropOld", "commit"}
               PROVE  Cardinality(Members(target[u])' \ {u}) < MaxTeamSize
    BY DEF RoomOK
  <2>1. target[u] \in Teams /\ status[target[u]] # "none" /\ teamLock[target[u]] = u
    BY <1>0 DEF RequestOK, TargetOK, OnTarget
  <2>2. Members(target[u])' = Members(target[u])
    BY <2>1 DEF Members
  <2> QED
    BY <1>0, <2>2 DEF RequestOK, RoomOK
<1>5. OldTeamOK(u)'
  BY <1>0 DEF RequestOK, OldTeamOK, OwnRowOK, TypeOK, RosterTypeOK, NoDanglingTeamId
<1>6. RowsOK(u)'
  <2> SUFFICES ASSUME pc[u] = "lockRows"
               PROVE  RowsOK(u)'
    BY DEF RowsOK
  <2>1. target[u] \in Teams /\ status[target[u]] # "none" /\ teamLock[target[u]] = u
    BY <1>0 DEF RequestOK, TargetOK, OnTarget
  <2>2. Members(target[u])' = Members(target[u])
    BY <2>1 DEF Members
  <2>3. Leads(u, target[u])'
    BY <1>0, <2>1 DEF RequestOK, RowsOK, Leads
  <2> QED
    BY <1>0, <2>1, <2>2, <2>3 DEF RequestOK, RowsOK, OwnRowOK
<1> QED
  BY <1>1, <1>2, <1>3, <1>4, <1>5, <1>6 DEF RequestOK

-----------------------------------------------------------------------------
(* What a request's own statement establishes for its next one.              *)

LEMMA FinishedRequest ==
  ASSUME TypeOK, NEW u \in Users, Finish(u)
  PROVE  RequestOK(u)'
<1>1. pc'[u] = "idle"
  BY DEF TypeOK, Finish
<1> QED
  BY <1>1 DEF RequestOK, PhaseOK, TargetOK, OnTarget, RoomOK, OldTeamOK, RowsOK, OwnRowOK

LEMMA BegunRequest ==
  ASSUME IInv, NEW u \in Users, NEW r \in Admissible, Begin(u, r)
  PROVE  RequestOK(u)'
<1>1. pc'[u] = "lockUser" /\ req'[u] = r /\ r.peer # u
  BY DEF IInv, TypeOK, Begin, Goto
<1> QED
  BY <1>1 DEF RequestOK, PhaseOK, TargetOK, OnTarget, RoomOK, OldTeamOK, RowsOK, OwnRowOK

LEMMA LockUserStep ==
  ASSUME IInv, NEW u \in Users, LockUser(u)
  PROVE  RequestOK(u)'
<1>1. userLock'[u] = u /\ req'[u] = req[u] /\ team'[u] = team[u]
  BY DEF IInv, TypeOK, LockUser, LockUserRow, rosterVars
<1>2. PhaseOK(u) /\ pc[u] = "lockUser" /\ status' = status
  BY DEF IInv, RequestOK, LockUser, rosterVars
<1>3. CASE req[u].op = "Join"
  <2>1. pc'[u] = "findTeam"
    BY <1>3 DEF IInv, TypeOK, LockUser, Goto, MoveOps
  <2> QED
    BY <1>1, <1>2, <1>3, <2>1 DEF RequestOK, PhaseOK, TargetOK, OnTarget, RoomOK,
       OldTeamOK, RowsOK, OwnRowOK
<1>4. CASE req[u].op \in {"Create", "CreateSolo"}
  <2>1. pc'[u] = "checkOld"
    BY <1>4 DEF IInv, TypeOK, LockUser, Goto, MoveOps
  <2> QED
    BY <1>1, <1>2, <1>4, <2>1 DEF RequestOK, PhaseOK, TargetOK, OnTarget, RoomOK,
       OldTeamOK, RowsOK, OwnRowOK, MoveOps
<1>5. CASE req[u].op \notin MoveOps
  <2>1. pc'[u] = "lockTeam" /\ team[u] # NoTeam /\ target'[u] = team[u]
    BY <1>5 DEF IInv, TypeOK, LockUser, Goto, MoveOps
  <2>2. target'[u] \in Teams /\ status'[target'[u]] # "none"
    BY <1>2, <2>1 DEF IInv, RosterInv, RosterTypeOK, NoDanglingTeamId
  <2> QED
    BY <1>1, <1>2, <1>5, <2>1, <2>2 DEF RequestOK, PhaseOK, TargetOK, OnTarget, RoomOK,
       OldTeamOK, RowsOK, OwnRowOK, MoveOps
<1> QED
  BY <1>3, <1>4, <1>5 DEF MoveOps

LEMMA FindTeamStep ==
  ASSUME IInv, NEW u \in Users, FindTeam(u)
  PROVE  RequestOK(u)'
<1>1. /\ pc'[u] = "lockTeam" /\ target'[u] = req[u].token
      /\ req' = req /\ userLock' = userLock /\ status' = status
  BY DEF IInv, TypeOK, FindTeam, Goto, rosterVars
<1>2. PhaseOK(u) /\ OwnRowOK(u) /\ pc[u] = "findTeam"
  BY DEF IInv, RequestOK, FindTeam
<1>3. req[u].op = "Join" /\ req[u].token \in Teams /\ status[req[u].token] = "active"
  BY <1>2 DEF FindTeam, PhaseOK, Admissible, Request
<1> QED
  BY <1>1, <1>2, <1>3 DEF RequestOK, PhaseOK, TargetOK, OnTarget, RoomOK,
     OldTeamOK, RowsOK, OwnRowOK, MoveOps

LEMMA LockTeamStep ==
  ASSUME IInv, NEW u \in Users, LockTeam(u)
  PROVE  RequestOK(u)'
<1>1. /\ pc'[u] = "checkTeam" /\ target' = target /\ team' = team
      /\ req' = req /\ userLock' = userLock /\ status' = status
  BY DEF IInv, TypeOK, LockTeam, Goto, rosterVars
<1>2. PhaseOK(u) /\ OwnRowOK(u) /\ TargetOK(u) /\ pc[u] = "lockTeam"
  BY DEF IInv, RequestOK, LockTeam
<1>3. target[u] \in Teams /\ teamLock'[target[u]] = u
  BY <1>2 DEF LockTeam, LockTeamRow, TargetOK, OnTarget, IInv, TypeOK
<1> QED
  BY <1>1, <1>2, <1>3 DEF RequestOK, PhaseOK, TargetOK, OnTarget, RoomOK,
     OldTeamOK, RowsOK, OwnRowOK, MoveOps

LEMMA JoinCheckStep ==
  ASSUME IInv, NEW u \in Users, JoinCheck(u)
  PROVE  RequestOK(u)'
<1>1. /\ pc'[u] = "checkOld" /\ target' = target /\ team' = team /\ teamLock' = teamLock
      /\ req' = req /\ userLock' = userLock /\ status' = status /\ req[u].op = "Join"
  BY DEF IInv, TypeOK, JoinCheck, Goto, rosterVars
<1>2. PhaseOK(u) /\ OwnRowOK(u) /\ TargetOK(u) /\ pc[u] = "checkTeam"
  BY DEF IInv, RequestOK, JoinCheck
<1>3. Cardinality(Members(target[u]) \ {u}) < MaxTeamSize
  <2>1. Members(target[u]) \in SUBSET Users /\ IsFiniteSet(Members(target[u]))
    BY FS_Subset, UsersAssumption DEF Members
  <2>2. /\ Cardinality(Members(target[u]) \ {u}) <= Cardinality(Members(target[u]))
        /\ Cardinality(Members(target[u]) \ {u}) \in Nat
        /\ Cardinality(Members(target[u])) \in Nat
    BY <2>1, FS_Subset, FS_CardinalityType
  <2> QED
    BY <2>2, SizeAssumption DEF JoinCheck, HasRoom
<1>4. RoomOK(u)'
  BY <1>1, <1>3 DEF RoomOK, Members
<1> QED
  BY <1>1, <1>2, <1>4 DEF RequestOK, PhaseOK, TargetOK, OnTarget,
     OldTeamOK, RowsOK, OwnRowOK, MoveOps

LEMMA CheckOldTeamStep ==
  ASSUME IInv, NEW u \in Users, CheckOldTeam(u)
  PROVE  RequestOK(u)'
<1>1. /\ pc'[u] \in {"commit", "dropOld"} /\ target' = target /\ team' = team
      /\ req' = req /\ userLock' = userLock /\ status' = status /\ solo' = solo
      /\ teamLock' = teamLock
  BY DEF IInv, TypeOK, CheckOldTeam, Goto, rosterVars
<1>2. PhaseOK(u) /\ OwnRowOK(u) /\ TargetOK(u) /\ RoomOK(u) /\ pc[u] = "checkOld"
  BY DEF IInv, RequestOK, CheckOldTeam
<1>3. /\ pc'[u] = "commit" => team[u] = NoTeam
      /\ pc'[u] = "dropOld" => team[u] # NoTeam /\ solo[team[u]]
  BY DEF IInv, TypeOK, CheckOldTeam, Goto, SoleSoloMember
<1>4. RoomOK(u)'
  BY <1>1, <1>2 DEF RoomOK, Members
<1> QED
  BY <1>1, <1>2, <1>3, <1>4 DEF RequestOK, PhaseOK, TargetOK, OnTarget,
     OldTeamOK, RowsOK, OwnRowOK, MoveOps

LEMMA DropOldTeamStep ==
  ASSUME IInv, NEW u \in Users, DropOldTeam(u)
  PROVE  RequestOK(u)'
<1>1. /\ pc'[u] = "commit" /\ target' = target /\ team' = team
      /\ req' = req /\ userLock' = userLock /\ status' = status /\ solo' = solo
  BY DEF IInv, TypeOK, DropOldTeam, Goto, rosterVars
<1>2. PhaseOK(u) /\ OwnRowOK(u) /\ TargetOK(u) /\ RoomOK(u) /\ OldTeamOK(u) /\ pc[u] = "dropOld"
  BY DEF IInv, RequestOK, DropOldTeam
<1>3. team[u] \in Teams /\ teamLock'[team[u]] = u /\ status[team[u]] = "active" /\ solo[team[u]]
  BY <1>2 DEF DropOldTeam, LockTeamRow, OldTeamOK, IInv, TypeOK, RosterTypeOK
<1>4. RoomOK(u)'
  BY <1>1, <1>2 DEF RoomOK, Members
<1>5. \A t \in Teams : teamLock[t] = u => teamLock'[t] = u
  BY DEF DropOldTeam, LockTeamRow, IInv, TypeOK
<1> QED
  BY <1>1, <1>2, <1>3, <1>4, <1>5 DEF RequestOK, PhaseOK, TargetOK, OnTarget,
     OldTeamOK, RowsOK, OwnRowOK, MoveOps

LEMMA CaptainCheckStep ==
  ASSUME IInv, NEW u \in Users, CaptainCheck(u)
  PROVE  RequestOK(u)'
<1>1. /\ pc'[u] = "lockRows" /\ target' = target /\ team' = team /\ teamLock' = teamLock
      /\ req' = req /\ userLock' = userLock /\ status' = status /\ captain' = captain
      /\ req[u].op \in {"Disband", "Kick", "Transfer"}
  BY DEF IInv, TypeOK, CaptainCheck, Goto, rosterVars
<1>2. PhaseOK(u) /\ OwnRowOK(u) /\ TargetOK(u) /\ pc[u] = "checkTeam"
  BY DEF IInv, RequestOK, CaptainCheck
<1>3. Members(target[u])' = Members(target[u])
  BY <1>1 DEF Members
<1>4. RowsOK(u)'
  <2>1. Leads(u, target[u])' /\ team[u] = target[u]
    BY <1>1, <1>2 DEF CaptainCheck, Leads, TargetOK, OnTarget, MoveOps
  <2>2. CASE req[u].op = "Disband"
    <3>1. pending'[u] = Members(target[u])
      BY <2>2 DEF CaptainCheck, IInv, TypeOK
    <3> QED
      BY <1>1, <1>3, <2>1, <2>2, <3>1 DEF RowsOK
  <2>3. CASE req[u].op # "Disband"
    <3>1. req[u].peer \in Users
      BY <1>1, <1>2, <2>3 DEF PhaseOK, Admissible, Request
    <3>2. pending'[u] = {req[u].peer} /\ team[req[u].peer] = target[u]
      BY <2>3 DEF CaptainCheck, IInv, TypeOK
    <3>3. pending'[u] \subseteq Members(target[u])
      BY <3>1, <3>2 DEF Members
    <3> QED
      BY <1>1, <1>3, <2>1, <2>3, <3>2, <3>3 DEF RowsOK
  <2> QED
    BY <2>2, <2>3
<1> QED
  BY <1>1, <1>2, <1>4 DEF RequestOK, PhaseOK, TargetOK, OnTarget, RoomOK,
     OldTeamOK, OwnRowOK, MoveOps

LEMMA LockPendingRowStep ==
  ASSUME IInv, NEW u \in Users, NEW m \in Users, LockPendingRow(u, m)
  PROVE  RequestOK(u)'
<1>1. /\ pc' = pc /\ target' = target /\ team' = team /\ teamLock' = teamLock
      /\ req' = req /\ status' = status /\ captain' = captain /\ pending' = pending
      /\ pc[u] = "lockRows"
  BY DEF LockPendingRow, rosterVars
<1>2. userLock'[u] = u
  BY DEF IInv, TypeOK, LockPendingRow, LockUserRow, RequestOK, OwnRowOK
<1>3. PhaseOK(u) /\ TargetOK(u) /\ RowsOK(u)
  BY DEF IInv, RequestOK
<1>4. RowsOK(u)'
  BY <1>1, <1>3 DEF RowsOK, Leads, Members
<1> QED
  BY <1>1, <1>2, <1>3, <1>4 DEF RequestOK, PhaseOK, TargetOK, OnTarget, RoomOK,
     OldTeamOK, OwnRowOK, MoveOps

-----------------------------------------------------------------------------
(* The invariant.                                                            *)

LEMMA InitInv == Init => IInv
<1> SUFFICES ASSUME Init PROVE IInv
  OBVIOUS
<1>1. RosterInv
  BY RosterInitInv DEF Init
<1>2. TypeOK
  BY <1>1, ModesAssumption DEF Init, TypeOK, RosterInv, Request, NoRequest, Ops, Steps
<1>3. LocksOK
  BY UsersAssumption DEF Init, LocksOK
<1>4. \A u \in Users : RequestOK(u)
  BY DEF Init, RequestOK, PhaseOK, TargetOK, OnTarget, RoomOK, OldTeamOK, RowsOK, OwnRowOK
<1> QED
  BY <1>1, <1>2, <1>3, <1>4 DEF IInv

LEMMA FinishType ==
  ASSUME TypeOK, NEW u \in Users, Finish(u), RosterTypeOK', UNCHANGED comp
  PROVE  TypeOK'
BY DEF TypeOK, Finish, Request, NoRequest, Ops, Steps

LEMMA NextType ==
  ASSUME IInv, Next, RosterTypeOK'
  PROVE  TypeOK'
<1>0. TypeOK
  BY DEF IInv
<1>1. ASSUME NEW u \in Users, NEW r \in Admissible, Begin(u, r)
      PROVE  TypeOK'
  BY <1>0, <1>1 DEF TypeOK, Begin, Goto, Admissible, Steps
<1>2. ASSUME NEW u \in Users, Finish(u), UNCHANGED comp
      PROVE  TypeOK'
  BY <1>0, <1>2, FinishType
<1>3. ASSUME NEW u \in Users, Statement(u)
      PROVE  TypeOK'
  <2>1. UNCHANGED comp
    BY <1>3, StatementsStutter
  <2>2. CASE LockUser(u)
    <3>1. target'[u] \in Teams \cup {NoTeam} /\ (pc'[u] = "lockTeam" => target'[u] \in Teams)
      BY <1>0, <2>2 DEF TypeOK, RosterTypeOK, LockUser, Goto
    <3> QED
      BY <1>0, <2>1, <2>2, <3>1 DEF TypeOK, LockUser, LockUserRow, Goto, Steps
  <2>3. CASE FindTeam(u)
    <3>1. req[u].token \in Teams
      BY <2>3 DEF IInv, RequestOK, PhaseOK, FindTeam, Admissible, Request
    <3> QED
      BY <1>0, <2>1, <2>3, <3>1 DEF TypeOK, FindTeam, Goto, Steps
  <2>4. CASE LockTeam(u)
    BY <1>0, <2>1, <2>4 DEF TypeOK, LockTeam, LockTeamRow, Goto, Steps
  <2>5. CASE JoinCheck(u)
    BY <1>0, <2>1, <2>5 DEF TypeOK, JoinCheck, Goto, Steps
  <2>6. CASE CheckOldTeam(u)
    BY <1>0, <2>1, <2>6 DEF TypeOK, CheckOldTeam, Goto, Steps
  <2>7. CASE DropOldTeam(u)
    BY <1>0, <2>1, <2>7 DEF TypeOK, DropOldTeam, LockTeamRow, Goto, Steps
  <2>8. CASE CaptainCheck(u)
    <3>1. pending' \in [Users -> SUBSET Users]
      <4>1. Members(target[u]) \in SUBSET Users
        BY DEF Members
      <4>2. req[u].op \in {"Kick", "Transfer"} => {req[u].peer} \in SUBSET Users
        BY <2>8 DEF IInv, RequestOK, PhaseOK, Admissible, Request, CaptainCheck
      <4> QED
        BY <1>0, <2>8, <4>1, <4>2 DEF TypeOK, CaptainCheck
    <3> QED
      BY <1>0, <2>1, <2>8, <3>1 DEF TypeOK, CaptainCheck, Goto, Steps
  <2>9. ASSUME NEW m \in Users, LockPendingRow(u, m) PROVE TypeOK'
    BY <1>0, <2>1, <2>9 DEF TypeOK, LockPendingRow, LockUserRow, Steps
  <2> QED
    BY <1>3, <2>2, <2>3, <2>4, <2>5, <2>6, <2>7, <2>8, <2>9 DEF Statement
<1>4. CASE UpdateCompetition
  BY <1>0, <1>4 DEF TypeOK, UpdateCompetition, txVars
<1>5. ASSUME NEW t \in Teams, CleanupDeletedTeams(t)
      PROVE  TypeOK'
  BY <1>0, <1>5 DEF TypeOK, CleanupDeletedTeams, txVars
<1>6. ASSUME NEW u \in Users, UserStep(u)
      PROVE  Statement(u) \/ (Finish(u) /\ UNCHANGED comp)
  BY <1>6 DEF UserStep, Statement, CommitCreate, CommitJoin, CommitLeave,
              CommitTransfer, CommitKick, CommitDisband
<1>7. ASSUME NEW u \in Users, Rollback(u)
      PROVE  Finish(u) /\ UNCHANGED comp
  BY <1>7 DEF Rollback
<1> QED
  BY <1>1, <1>2, <1>3, <1>4, <1>5, <1>6, <1>7 DEF Next

(* Every step leaves every request alone but the one that takes it. *)
LEMMA OthersUndisturbed ==
  ASSUME IInv, NEW u \in Users, NEW v \in Users, u # v,
         UserStep(v) \/ Rollback(v) \/ \E r \in Admissible : Begin(v, r)
  PROVE  Undisturbed(u)
<1>1. CASE Rollback(v)
  <2>1. Finish(v) /\ UNCHANGED rosterVars
    BY <1>1 DEF Rollback
  <2> QED
    BY <2>1, FinishLeavesOthers DEF Undisturbed, rosterVars
<1>2. CASE \E r \in Admissible : Begin(v, r)
  BY <1>2 DEF Begin, Goto, Undisturbed, rosterVars, IInv, TypeOK
<1>3. CASE Statement(v)
  BY <1>3, StatementLeavesOthers
<1>4. CASE CommitCreate(v)
  BY <1>4, CommitCreateLeavesOthers
<1>5. CASE CommitJoin(v)
  BY <1>5, CommitJoinLeavesOthers
<1>6. CASE CommitLeave(v)
  BY <1>6, CommitLeaveLeavesOthers
<1>7. CASE CommitTransfer(v) \/ CommitKick(v) \/ CommitDisband(v)
  BY <1>7, CaptainCommitLeavesOthers
<1> QED
  BY <1>1, <1>2, <1>3, <1>4, <1>5, <1>6, <1>7 DEF UserStep, Statement

(* And what a step does for the request that takes it. *)
LEMMA OwnStepKeepsRequest ==
  ASSUME IInv, NEW u \in Users,
         UserStep(u) \/ Rollback(u) \/ \E r \in Admissible : Begin(u, r)
  PROVE  RequestOK(u)'
<1>1. CASE Finish(u)
  BY <1>1, FinishedRequest DEF IInv
<1>2. CASE \E r \in Admissible : Begin(u, r)
  BY <1>2, BegunRequest
<1>3. CASE Statement(u)
  BY <1>3, LockUserStep, FindTeamStep, LockTeamStep, JoinCheckStep, CheckOldTeamStep,
     DropOldTeamStep, CaptainCheckStep, LockPendingRowStep DEF Statement
<1>4. UserStep(u) \/ Rollback(u) => Statement(u) \/ Finish(u)
  BY DEF UserStep, Rollback, Statement, CommitCreate, CommitJoin, CommitLeave,
         CommitTransfer, CommitKick, CommitDisband
<1> QED
  BY <1>1, <1>2, <1>3, <1>4

(* The conclusion of LocksOK for one lock. *)
HolderOK(t, u) ==
  /\ pc[u] \in {"checkTeam", "checkOld", "dropOld", "commit", "lockRows"}
  /\ t = target[u] \/ (pc[u] = "commit" /\ t = team[u])

LEMMA UndisturbedKeepsHolder ==
  ASSUME IInv, NEW t \in Teams, NEW u \in Users, Undisturbed(u), teamLock[t] = u
  PROVE  HolderOK(t, u)'
BY DEF IInv, LocksOK, Undisturbed, HolderOK, RequestOK, OwnRowOK

LEMMA OwnStepKeepsHolder ==
  ASSUME IInv, NEW t \in Teams, NEW u \in Users, teamLock'[t] = u,
         UserStep(u) \/ Rollback(u) \/ \E r \in Admissible : Begin(u, r)
  PROVE  HolderOK(t, u)'
<1>0. /\ teamLock[t] = u => HolderOK(t, u)
      /\ TypeOK
  BY DEF IInv, LocksOK, HolderOK
<1>1. CASE Finish(u)
  BY <1>0, <1>1, UsersAssumption DEF Finish, TypeOK
<1>2. CASE \E r \in Admissible : Begin(u, r)
  BY <1>0, <1>2 DEF Begin, HolderOK
<1>3. CASE LockUser(u) \/ FindTeam(u)
  BY <1>0, <1>3 DEF LockUser, FindTeam, HolderOK
<1>4. CASE LockTeam(u)
  BY <1>0, <1>4 DEF LockTeam, LockTeamRow, Goto, HolderOK, TypeOK
<1>5. CASE JoinCheck(u) \/ CaptainCheck(u)
  BY <1>0, <1>5 DEF JoinCheck, CaptainCheck, Goto, HolderOK, TypeOK
<1>6. CASE CheckOldTeam(u)
  BY <1>0, <1>6 DEF CheckOldTeam, Goto, HolderOK, TypeOK
<1>7. CASE DropOldTeam(u)
  BY <1>0, <1>7 DEF DropOldTeam, LockTeamRow, Goto, HolderOK, TypeOK, rosterVars
<1>8. CASE \E m \in Users : LockPendingRow(u, m)
  BY <1>0, <1>8 DEF LockPendingRow, HolderOK, rosterVars
<1>9. UserStep(u) \/ Rollback(u) => Statement(u) \/ Finish(u)
  BY DEF UserStep, Rollback, Statement, CommitCreate, CommitJoin, CommitLeave,
         CommitTransfer, CommitKick, CommitDisband
<1> QED
  BY <1>1, <1>2, <1>3, <1>4, <1>5, <1>6, <1>7, <1>8, <1>9 DEF Statement

(* A lock is taken by the request that steps. *)
LEMMA OthersTakeNoLock ==
  ASSUME IInv, NEW t \in Teams, NEW u \in Users, NEW v \in Users, u # v,
         UserStep(v) \/ Rollback(v) \/ \E r \in Admissible : Begin(v, r),
         teamLock'[t] = u
  PROVE  teamLock[t] = u
<1>1. \/ teamLock' = teamLock
      \/ Finish(v)
      \/ \E r \in Teams : teamLock' = [teamLock EXCEPT ![r] = v]
  <2>1. LockTeam(v) => target[v] \in Teams
    BY DEF LockTeam, IInv, TypeOK
  <2>2. DropOldTeam(v) => team[v] \in Teams
    BY DEF DropOldTeam, IInv, TypeOK, RosterTypeOK, RequestOK, OldTeamOK
  <2> QED
    BY <2>1, <2>2 DEF UserStep, Rollback, Begin, LockUser, FindTeam, LockTeam, LockTeamRow,
       JoinCheck, CheckOldTeam, DropOldTeam, CaptainCheck, LockPendingRow, CommitCreate,
       CommitJoin, CommitLeave, CommitTransfer, CommitKick, CommitDisband
<1> QED
  BY <1>1, UsersAssumption DEF Finish, IInv, TypeOK

(* A step that leaves tables and requests alone disturbs nobody. *)
LEMMA QuietStep ==
  ASSUME IInv, UNCHANGED <<rosterVars, txVars>>
  PROVE  LocksOK' /\ \A u \in Users : RequestOK(u)'
<1>1. \A u \in Users : Undisturbed(u)
  BY DEF rosterVars, txVars, Undisturbed
<1>2. teamLock' = teamLock
  BY DEF txVars
<1> QED
  BY <1>1, <1>2, UndisturbedKeepsRequest, UndisturbedKeepsHolder DEF LocksOK, HolderOK

LEMMA NextInv == IInv /\ [Next]_vars => IInv'
<1> SUFFICES ASSUME IInv, [Next]_vars PROVE IInv'
  OBVIOUS
<1>0. RosterInv'
  BY StepRefines, RosterNextInv DEF IInv
<1>1. CASE UNCHANGED vars
  <2>1. TypeOK'
    BY <1>0, <1>1 DEF vars, IInv, TypeOK, RosterInv
  <2>2. UNCHANGED <<rosterVars, txVars>>
    BY <1>1 DEF vars, rosterVars, txVars
  <2> QED
    BY <1>0, <2>1, <2>2, QuietStep DEF IInv
<1>2. CASE Next
  <2>2. TypeOK'
    BY <1>0, <1>2, NextType DEF RosterInv
  <2>3. ASSUME NEW v \in Users,
               UserStep(v) \/ Rollback(v) \/ \E r \in Admissible : Begin(v, r)
        PROVE  LocksOK' /\ \A u \in Users : RequestOK(u)'
    <3>1. ASSUME NEW u \in Users PROVE RequestOK(u)'
      <4>1. CASE u = v
        BY <2>3, <4>1, OwnStepKeepsRequest
      <4>2. CASE u # v
        BY <2>3, <4>2, OthersUndisturbed, UndisturbedKeepsRequest
      <4> QED
        BY <4>1, <4>2
    <3>2. ASSUME NEW t \in Teams, NEW u \in Users, teamLock'[t] = u
          PROVE  HolderOK(t, u)'
      <4>1. CASE u = v
        BY <2>3, <3>2, <4>1, OwnStepKeepsHolder
      <4>2. CASE u # v
        <5>1. teamLock[t] = u
          BY <2>3, <3>2, <4>2, OthersTakeNoLock
        <5> QED
          BY <2>3, <4>2, <5>1, OthersUndisturbed, UndisturbedKeepsHolder
      <4> QED
        BY <4>1, <4>2
    <3> QED
      BY <3>1, <3>2 DEF LocksOK, HolderOK
  <2>4. ASSUME UpdateCompetition
        PROVE  LocksOK' /\ \A u \in Users : RequestOK(u)'
    BY <2>4, QuietStep DEF UpdateCompetition
  <2>5. ASSUME NEW r \in Teams, CleanupDeletedTeams(r)
        PROVE  LocksOK' /\ \A u \in Users : RequestOK(u)'
    <3>1. \A u \in Users : Undisturbed(u)
      BY <2>5, CleanupLeavesRequests
    <3>2. teamLock' = teamLock
      BY <2>5 DEF CleanupDeletedTeams, txVars
    <3> QED
      BY <3>1, <3>2, UndisturbedKeepsRequest, UndisturbedKeepsHolder DEF LocksOK, HolderOK
  <2>6. LocksOK' /\ \A u \in Users : RequestOK(u)'
    <3>1. \/ \E v \in Users :
               UserStep(v) \/ Rollback(v) \/ \E r \in Admissible : Begin(v, r)
          \/ UpdateCompetition
          \/ \E r \in Teams : CleanupDeletedTeams(r)
      BY <1>2 DEF Next
    <3> QED
      BY <3>1, <2>3, <2>4, <2>5
  <2> QED
    BY <1>0, <2>2, <2>6 DEF IInv
<1> QED
  BY <1>1, <1>2

(* The transactions keep their inductive invariant. *)
THEOREM RosterTransactionsInv == Spec => []IInv
<1> QED
  BY InitInv, NextInv, PTL DEF Spec

(* The types of tables, locks and requests. *)
THEOREM TypeCorrect == Spec => []TypeOK
<1>1. IInv => TypeOK
  BY DEF IInv
<1> QED
  BY <1>1, RosterTransactionsInv, PTL

(* For any number of users, teams, places and concurrent requests, the       *)
(* lock-by-lock transactions implement the atomic roster: no check a request *)
(* made has become false when it commits.                                    *)
THEOREM Refinement == Spec => RosterSpec
<1>1. Init => RosterInit
  BY DEF Init
<1> QED
  BY <1>1, StepRefines, RosterTransactionsInv, PTL DEF Spec, RosterSpec

(* Every live team keeps a captain who is one of its members. *)
THEOREM CaptainStays == Spec => []CaptainIsMember
<1>1. IInv => CaptainIsMember
  BY DEF IInv, RosterInv
<1> QED
  BY <1>1, RosterTransactionsInv, PTL

(* No race of joiners overfills a team. *)
THEOREM TeamsNeverOverfull == Spec => []TeamSizeBounded
<1>1. IInv => TeamSizeBounded
  BY DEF IInv, RosterInv
<1> QED
  BY <1>1, RosterTransactionsInv, PTL

(* No users row points at a removed team. *)
THEOREM ForeignKeysHold == Spec => []NoDanglingTeamId
<1>1. IInv => NoDanglingTeamId
  BY DEF IInv, RosterInv
<1> QED
  BY <1>1, RosterTransactionsInv, PTL

(* A captain's request writes exactly the rows it decided on. *)
THEOREM CaptainDecisionsStand == Spec => []CaptainReadsStayValid
<1>1. IInv => CaptainReadsStayValid
  BY DEF IInv, RequestOK, RowsOK, CaptainReadsStayValid
<1> QED
  BY <1>1, RosterTransactionsInv, PTL

(* A direct move deletes the team it leaves. *)
THEOREM MovesDeleteOldTeam == Spec => MoveDeletesOldTeam
<1> QED
  BY Refinement, RosterMoves, PTL

-----------------------------------------------------------------------------
(* What a step may not do to the users table.                                *)

(* A commit is the last statement of its request. *)
LEMMA CommitEndsRequest ==
  ASSUME IInv, NEW u \in Users, Finish(u)
  PROVE  pc'[u] = "idle"
BY DEF Finish, IInv, TypeOK

LEMMA StepKeepsOwnTeamId ==
  ASSUME IInv, [Next]_vars, NEW u \in Users,
         pc[u] \notin {"idle", "lockUser"}, pc'[u] # "idle"
  PROVE  team'[u] = team[u]
<1>0. userLock[u] = u
  BY DEF IInv, RequestOK, OwnRowOK
<1>1. CASE UNCHANGED vars
  BY <1>1 DEF vars
<1>2. ASSUME NEW v \in Users,
             UserStep(v) \/ Rollback(v) \/ \E r \in Admissible : Begin(v, r)
      PROVE  team'[u] = team[u]
  <2>1. CASE u # v
    <3>1. Undisturbed(u)
      BY <1>2, <2>1, OthersUndisturbed
    <3> QED
      BY <1>0, <3>1 DEF Undisturbed
  <2>2. CASE u = v
    <3>1. CASE \E r \in Admissible : Begin(v, r)
      BY <3>1 DEF Begin, rosterVars
    <3>2. CASE Statement(v)
      BY <3>2, StatementsStutter DEF rosterVars
    <3>3. UserStep(v) \/ Rollback(v) => Statement(v) \/ Finish(v)
      BY DEF UserStep, Rollback, Statement, CommitCreate, CommitJoin, CommitLeave,
             CommitTransfer, CommitKick, CommitDisband
    <3> QED
      BY <1>2, <2>2, <3>1, <3>2, <3>3, CommitEndsRequest
  <2> QED
    BY <2>1, <2>2
<1>3. CASE UpdateCompetition
  BY <1>3 DEF UpdateCompetition, rosterVars
<1>4. ASSUME NEW t \in Teams, CleanupDeletedTeams(t)
      PROVE  team'[u] = team[u]
  BY <1>0, <1>4, CleanupLeavesRequests DEF Undisturbed
<1> QED
  BY <1>1, <1>2, <1>3, <1>4 DEF Next

(* The team of a request is locked, or is the one being created: a live team *)
(* whose row nobody holds keeps its members.                                 *)
LEMMA StepKeepsUnlockedMembers ==
  ASSUME IInv, [Next]_vars, NEW t \in Teams, status[t] = "active", teamLock[t] = NoUser
  PROVE  Members(t)' = Members(t)
<1>0. team \in [Users -> Teams \cup {NoTeam}]
  BY DEF IInv, RosterInv, RosterTypeOK
<1>1. CASE UNCHANGED team
  BY <1>1 DEF Members
<1>2. ASSUME NEW u \in Users, CommitCreate(u)
      PROVE  Members(t)' = Members(t)
  <2>1. PICK r \in Teams : status[r] = "none" /\ team' = [team EXCEPT ![u] = r]
    BY <1>2 DEF CommitCreate
  <2>2. team[u] # t
    BY <1>2, UsersAssumption, TeamsAssumption DEF CommitCreate, IInv, RequestOK, OldTeamOK
  <2> QED
    BY <1>0, <2>1, <2>2 DEF Members
<1>3. ASSUME NEW u \in Users, CommitJoin(u)
      PROVE  Members(t)' = Members(t)
  <2>1. target[u] # t
    BY <1>3, UsersAssumption DEF CommitJoin, IInv, RequestOK, TargetOK, OnTarget
  <2>2. team[u] # t
    BY <1>3, UsersAssumption, TeamsAssumption DEF CommitJoin, IInv, RequestOK, OldTeamOK
  <2>3. team' = [team EXCEPT ![u] = target[u]]
    BY <1>3 DEF CommitJoin
  <2> QED
    BY <1>0, <2>1, <2>2, <2>3 DEF Members
<1>4. ASSUME NEW u \in Users, CommitLeave(u)
      PROVE  Members(t)' = Members(t)
  <2>1. team[u] # t
    BY <1>4, UsersAssumption DEF CommitLeave, IInv, RequestOK, TargetOK, OnTarget, MoveOps
  <2>2. team' = [team EXCEPT ![u] = NoTeam]
    BY <1>4 DEF CommitLeave
  <2> QED
    BY <1>0, <2>1, <2>2, TeamsAssumption DEF Members
<1>5. ASSUME NEW u \in Users, CommitKick(u) \/ CommitDisband(u)
      PROVE  Members(t)' = Members(t)
  <2>1. target[u] # t
    BY <1>5, UsersAssumption
       DEF CommitKick, CommitDisband, RowsLocked, IInv, RequestOK, TargetOK, OnTarget
  <2>2. pending[u] \subseteq Members(target[u])
    BY <1>5 DEF CommitKick, CommitDisband, RowsLocked, IInv, RequestOK, RowsOK
  <2>3. team' = Released(pending[u])
    BY <1>5 DEF CommitKick, CommitDisband
  <2> QED
    BY <1>0, <2>1, <2>2, <2>3, TeamsAssumption DEF Members, Released
<1>6. ASSUME NEW r \in Teams, CleanupDeletedTeams(r)
      PROVE  Members(t)' = Members(t)
  BY <1>0, <1>6, TeamsAssumption DEF CleanupDeletedTeams, HardDelete, Members
<1>7. ASSUME NEW u \in Users,
             UserStep(u) \/ Rollback(u) \/ \E r \in Admissible : Begin(u, r)
      PROVE  Members(t)' = Members(t)
  <2>1. CASE Statement(u)
    BY <1>1, <2>1, StatementsStutter DEF rosterVars
  <2>2. CASE Rollback(u) \/ CommitTransfer(u) \/ \E r \in Admissible : Begin(u, r)
    BY <1>1, <2>2 DEF Rollback, CommitTransfer, Begin, rosterVars
  <2> QED
    BY <1>2, <1>3, <1>4, <1>5, <1>7, <2>1, <2>2 DEF UserStep, Statement
<1>8. CASE UpdateCompetition \/ UNCHANGED vars
  BY <1>1, <1>8 DEF UpdateCompetition, rosterVars, vars
<1> QED
  BY <1>6, <1>7, <1>8 DEF Next

(* No other transaction writes the team_id a request has read: the row lock  *)
(* that LockUserTx takes covers it until the request commits or rolls back.  *)
THEOREM OwnRowStands == Spec => OwnTeamIdStable
<1>1. IInv /\ [Next]_vars =>
        [\A u \in Users :
           (pc[u] \notin {"idle", "lockUser"} /\ pc'[u] # "idle") => team'[u] = team[u]]_vars
  BY StepKeepsOwnTeamId
<1> QED
  BY <1>1, RosterTransactionsInv, PTL DEF Spec, OwnTeamIdStable

(* Joins, departures, kicks, disbandings and moves all hold the row lock of  *)
(* the live team whose members they change.                                  *)
THEOREM MembershipIsSerialized == Spec => MembersChangeUnderTeamLock
<1>1. IInv /\ [Next]_vars =>
        [\A t \in Teams :
           (status[t] = "active" /\ Members(t)' # Members(t)) => teamLock[t] # NoUser]_vars
  BY StepKeepsUnlockedMembers
<1> QED
  BY <1>1, RosterTransactionsInv, PTL DEF Spec, MembersChangeUnderTeamLock
-----------------------------------------------------------------------------
(* Waiting.  Row locks belong to running requests, and the creations under   *)
(* way find rows in the table.                                               *)
UserLocksOK == \A m \in Users : userLock[m] # NoUser => pc[userLock[m]] # "idle"

Creating == {u \in Users : pc[u] # "idle" /\ req[u].op \in {"Create", "CreateSolo"}}
Spare == {t \in Teams : status[t] = "none"}
CreationsFit == Cardinality(Creating) <= Cardinality(Spare)

WaitInv == UserLocksOK /\ CreationsFit

LEMMA Counts ==
  /\ IsFiniteSet(Creating) /\ IsFiniteSet(Spare)
  /\ Cardinality(Creating) \in Nat /\ Cardinality(Spare) \in Nat
<1>1. IsFiniteSet(Creating) /\ IsFiniteSet(Spare)
  BY FS_Subset, UsersAssumption, TableAssumption DEF Creating, Spare
<1> QED
  BY <1>1, FS_CardinalityType

(* A smaller set still fits into a larger one. *)
LEMMA StillFits ==
  ASSUME NEW C, NEW S, NEW D \in SUBSET C, NEW T, IsFiniteSet(C), IsFiniteSet(T),
         S \subseteq T, Cardinality(C) <= Cardinality(S)
  PROVE  Cardinality(D) <= Cardinality(T)
<1>1. IsFiniteSet(D) /\ Cardinality(D) <= Cardinality(C)
  BY FS_Subset
<1>2. IsFiniteSet(S) /\ Cardinality(S) <= Cardinality(T)
  BY FS_Subset
<1>3. /\ Cardinality(C) \in Nat /\ Cardinality(D) \in Nat
      /\ Cardinality(S) \in Nat /\ Cardinality(T) \in Nat
  BY <1>1, <1>2, FS_CardinalityType
<1> QED
  BY <1>1, <1>2, <1>3

(* A step that ends or begins no creation, and takes no spare row. *)
LEMMA FitsStill ==
  ASSUME CreationsFit, Creating' \subseteq Creating, Spare \subseteq Spare'
  PROVE  CreationsFit'
<1>1. IsFiniteSet(Spare')
  BY FS_Subset, TableAssumption DEF Spare
<1> QED
  BY <1>1, Counts, StillFits DEF CreationsFit

LEMMA BeginFits ==
  ASSUME IInv, WaitInv, NEW u \in Users, NEW r \in Admissible, Begin(u, r)
  PROVE  WaitInv'
<1>1. /\ pc[u] = "idle" /\ pc'[u] = "lockUser" /\ req'[u] = r
      /\ \A v \in Users \ {u} : pc'[v] = pc[v] /\ req'[v] = req[v]
      /\ userLock' = userLock /\ Spare' = Spare
  BY DEF Begin, Goto, rosterVars, Spare, IInv, TypeOK
<1>2. UserLocksOK'
  BY <1>1 DEF WaitInv, UserLocksOK, IInv, TypeOK
<1>3. CASE r.op \in {"Create", "CreateSolo"}
  <2>1. Creating' = Creating \cup {u} /\ u \notin Creating
    BY <1>1, <1>3 DEF Creating
  <2>2. Cardinality(Creating) < Cardinality(Spare)
    <3>1. {v \in Running : req[v].op \in {"Create", "CreateSolo"}} = Creating
      BY DEF Running, Creating
    <3> QED
      BY <1>3, <3>1 DEF Begin, SpareRow, Spare
  <2>3. Cardinality(Creating') = Cardinality(Creating) + 1
    BY <2>1, Counts, FS_AddElement
  <2>4. CreationsFit'
    BY <1>1, <2>2, <2>3, Counts DEF CreationsFit
  <2> QED
    BY <1>2, <2>4 DEF WaitInv
<1>4. CASE r.op \notin {"Create", "CreateSolo"}
  <2>1. Creating' \subseteq Creating
    BY <1>1, <1>4 DEF Creating
  <2> QED
    BY <1>1, <1>2, <2>1, FitsStill DEF WaitInv
<1> QED
  BY <1>3, <1>4

LEMMA StatementFits ==
  ASSUME IInv, WaitInv, NEW u \in Users, Statement(u)
  PROVE  WaitInv'
<1>1. /\ req' = req /\ pc[u] # "idle" /\ pc'[u] # "idle"
      /\ \A v \in Users \ {u} : pc'[v] = pc[v]
  BY DEF Statement, LockUser, FindTeam, LockTeam, JoinCheck, CheckOldTeam, DropOldTeam,
         CaptainCheck, LockPendingRow, Goto, IInv, TypeOK
<1>2. \A m \in Users : userLock'[m] \in {userLock[m], u}
  BY DEF Statement, LockUser, FindTeam, LockTeam, JoinCheck, CheckOldTeam, DropOldTeam,
         CaptainCheck, LockPendingRow, LockUserRow, IInv, TypeOK
<1>3. \A v \in Users : pc'[v] = "idle" <=> pc[v] = "idle"
  BY <1>1
<1>4. UserLocksOK'
  BY <1>1, <1>2, <1>3 DEF WaitInv, UserLocksOK, IInv, TypeOK
<1>5. Creating' = Creating
  BY <1>1, <1>3 DEF Creating
<1>6. Spare' = Spare
  BY StatementsStutter DEF Spare, rosterVars
<1> QED
  BY <1>4, <1>5, <1>6, FitsStill DEF WaitInv

LEMMA FinishFits ==
  ASSUME IInv, WaitInv, NEW u \in Users, Finish(u)
  PROVE  /\ UserLocksOK' /\ Creating' = Creating \ {u}
         /\ Spare \subseteq Spare' => WaitInv'
<1>1. /\ pc'[u] = "idle"
      /\ \A v \in Users \ {u} : pc'[v] = pc[v] /\ req'[v] = req[v]
      /\ \A m \in Users : userLock'[m] = IF userLock[m] = u THEN NoUser ELSE userLock[m]
  BY DEF Finish, IInv, TypeOK
<1>2. UserLocksOK'
  BY <1>1 DEF WaitInv, UserLocksOK, IInv, TypeOK
<1>3. Creating' = Creating \ {u}
  BY <1>1 DEF Creating
<1> QED
  BY <1>2, <1>3, FitsStill DEF WaitInv

LEMMA CommitCreateFits ==
  ASSUME IInv, WaitInv, NEW u \in Users, CommitCreate(u)
  PROVE  WaitInv'
<1>1. PICK t \in Teams : status[t] = "none" /\ status' = [OldTeamDropped(u) EXCEPT ![t] = "active"]
  BY DEF CommitCreate
<1>2. UserLocksOK' /\ Creating' = Creating \ {u} /\ u \in Creating
  BY FinishFits DEF CommitCreate, Creating
<1>3. Spare' = Spare \ {t} /\ t \in Spare
  <2>1. team[u] # NoTeam => status[team[u]] # "none"
    BY DEF IInv, RosterInv, NoDanglingTeamId
  <2> QED
    BY <1>1, <2>1, TeamsAssumption DEF Spare, OldTeamDropped
<1>4. /\ Cardinality(Creating') = Cardinality(Creating) - 1
      /\ Cardinality(Spare') = Cardinality(Spare) - 1
  BY <1>2, <1>3, Counts, FS_RemoveElement
<1>5. CreationsFit'
  BY <1>4, Counts DEF WaitInv, CreationsFit
<1> QED
  BY <1>2, <1>5 DEF WaitInv

LEMMA WaitStep == IInv /\ WaitInv /\ [Next]_vars => WaitInv'
<1> SUFFICES ASSUME IInv, WaitInv, [Next]_vars PROVE WaitInv'
  OBVIOUS
<1>0. \A t \in Teams : status[t] = "none" => \A u \in Users : team[u] # t
  BY TeamsAssumption DEF IInv, RosterInv, NoDanglingTeamId
<1>1. CASE UNCHANGED <<status, txVars>>
  <2>1. Creating' = Creating /\ Spare' = Spare
    BY <1>1 DEF Creating, Spare, txVars
  <2>2. UserLocksOK'
    BY <1>1 DEF WaitInv, UserLocksOK, txVars
  <2> QED
    BY <2>1, <2>2, FitsStill DEF WaitInv
<1>2. ASSUME NEW u \in Users,
             CommitJoin(u) \/ CommitLeave(u) \/ CommitTransfer(u) \/ CommitKick(u)
               \/ CommitDisband(u) \/ Rollback(u)
      PROVE  WaitInv'
  <2>1. CASE UNCHANGED status
    <3>1. Spare' = Spare
      BY <2>1 DEF Spare
    <3> QED
      BY <1>2, <3>1, FinishFits DEF CommitJoin, CommitLeave, CommitTransfer, CommitKick,
         CommitDisband, Rollback
  <2>2. CASE CommitJoin(u)
    <3>1. Spare \subseteq Spare'
      BY <1>0, <2>2 DEF CommitJoin, OldTeamDropped, Spare
    <3> QED
      BY <2>2, <3>1, FinishFits DEF CommitJoin
  <2>3. CASE CommitDisband(u)
    <3>1. status' = [status EXCEPT ![target[u]] = "deleted"] /\ status[target[u]] = "active"
      BY <2>3 DEF CommitDisband, RowsLocked, IInv, RequestOK, RowsOK, Leads
    <3>2. Spare \subseteq Spare'
      BY <3>1 DEF Spare, IInv, RosterInv, RosterTypeOK
    <3> QED
      BY <2>3, <3>2, FinishFits DEF CommitDisband
  <2> QED
    BY <1>2, <2>1, <2>2, <2>3 DEF CommitLeave, CommitTransfer, CommitKick, Rollback, rosterVars
<1>3. ASSUME NEW t \in Teams, CleanupDeletedTeams(t) PROVE WaitInv'
  <2>1. UNCHANGED txVars /\ status' = [status EXCEPT ![t] = "none"]
    BY <1>3 DEF CleanupDeletedTeams, HardDelete
  <2>2. Creating' = Creating /\ UserLocksOK'
    BY <2>1 DEF Creating, WaitInv, UserLocksOK, txVars
  <2>3. Spare \subseteq Spare'
    BY <2>1 DEF Spare, IInv, RosterInv, RosterTypeOK
  <2> QED
    BY <2>2, <2>3, FitsStill DEF WaitInv
<1>4. ASSUME NEW u \in Users, UserStep(u) PROVE WaitInv'
  BY <1>2, <1>4, StatementFits, CommitCreateFits DEF UserStep, Statement
<1>5. CASE UpdateCompetition \/ UNCHANGED vars
  BY <1>1, <1>5 DEF UpdateCompetition, rosterVars, txVars, vars
<1> QED
  BY <1>2, <1>3, <1>4, <1>5, BeginFits DEF Next

(* A request that can neither go on nor return waits for a running one. *)
LEMMA WaiterWaits ==
  ASSUME IInv, WaitInv, NEW u \in Running, ~GoesOn(u)
  PROVE  WaitsFor(u) \cap Running # {}
<1>0. /\ u \in Users /\ pc[u] \in Steps /\ pc[u] # "idle" /\ RequestOK(u)
      /\ \A m \in Users : userLock[m] \in Users \cup {NoUser}
      /\ \A t \in Teams : teamLock[t] \in Users \cup {NoUser}
  BY DEF Running, IInv, TypeOK
<1>1. ASSUME NEW m \in Users, userLock[m] \notin {NoUser, u}
      PROVE  userLock[m] \in Running \ {u}
  BY <1>0, <1>1 DEF WaitInv, UserLocksOK, Running
<1>2. ASSUME NEW t \in Teams, ~TeamLockable(u, t)
      PROVE  teamLock[t] \in Running \ {u}
  BY <1>0, <1>2 DEF TeamLockable, IInv, LocksOK, Running
<1>3. CASE pc[u] = "lockUser"
  <2>1. userLock[u] \in Running \ {u}
    BY <1>0, <1>1, <1>3 DEF GoesOn, UserLockable
  <2> QED
    BY <1>3, <2>1 DEF WaitsFor, Running
<1>4. CASE pc[u] = "lockTeam"
  <2>1. target[u] \in Teams /\ teamLock[target[u]] \in Running \ {u}
    BY <1>0, <1>2, <1>4 DEF GoesOn, RequestOK, TargetOK, OnTarget
  <2> QED
    BY <1>4, <2>1 DEF WaitsFor, Running
<1>5. CASE pc[u] = "dropOld"
  <2>1. team[u] \in Teams
    BY <1>0, <1>5 DEF RequestOK, OldTeamOK, IInv, RosterInv, RosterTypeOK
  <2>2. teamLock[team[u]] \in Running \ {u}
    BY <1>2, <1>5, <2>1 DEF GoesOn
  <2> QED
    BY <1>5, <2>2 DEF WaitsFor, Running
<1>6. CASE pc[u] = "lockRows"
  <2>1. PICK m \in pending[u] : userLock[m] # u
    BY <1>6 DEF GoesOn, RowsLocked
  <2>2. m \in Users /\ userLock[m] # NoUser
    BY <1>0, <1>6, <2>1 DEF GoesOn, IInv, TypeOK
  <2>3. userLock[m] \in Running \ {u}
    BY <1>1, <2>1, <2>2
  <2> QED
    BY <1>6, <2>1, <2>3 DEF WaitsFor, Running
<1>7. CASE pc[u] = "commit"
  <2>1. Spare = {} /\ req[u].op # "Join"
    BY <1>7 DEF GoesOn, Spare
  <2>2. u \in Creating
    BY <1>0, <1>7, <2>1 DEF RequestOK, PhaseOK, MoveOps, Creating
  <2>3. Cardinality(Spare) = 0 /\ Cardinality(Creating) # 0
    BY <2>1, <2>2, Counts, FS_EmptySet
  <2> QED
    BY <2>3, Counts DEF WaitInv, CreationsFit
<1> QED
  BY <1>0, <1>3, <1>4, <1>5, <1>6, <1>7 DEF GoesOn, Steps

(* For any number of requests, of whatever kinds: those that wait for one    *)
(* another only are a cycle, which the database breaks; all others wait for  *)
(* a request that can go on.  No lock outlives its request.                  *)
THEOREM WaitsEnd == Spec => []WaitsAreResolved
<1>1. Init => WaitInv
  <2> SUFFICES ASSUME Init PROVE WaitInv
    OBVIOUS
  <2>1. Creating = {}
    BY DEF Init, Creating
  <2>2. Cardinality(Creating) = 0
    BY <2>1, FS_EmptySet
  <2> QED
    BY <2>2, Counts DEF Init, WaitInv, UserLocksOK, CreationsFit
<1>2. ASSUME IInv, WaitInv PROVE WaitsAreResolved
  <2> SUFFICES ASSUME NEW group \in (SUBSET Running) \ {{}},
                      \A u \in group : WaitsFor(u) \cap Running \subseteq group,
                      \A u \in group : ~GoesOn(u)
               PROVE  \E u \in group : Deadlocked(u)
    BY DEF WaitsAreResolved
  <2>1. \A v \in group : WaitsFor(v) \cap group # {}
    <3> SUFFICES ASSUME NEW v \in group PROVE WaitsFor(v) \cap group # {}
      OBVIOUS
    <3>1. WaitsFor(v) \cap Running # {}
      BY <1>2, WaiterWaits
    <3> QED
      BY <3>1
  <2>2. PICK u \in group : TRUE
    OBVIOUS
  <2>3. group \in SUBSET Users
    BY DEF Running
  <2> QED
    BY <2>1, <2>2, <2>3 DEF Deadlocked
<1> QED
  BY <1>1, <1>2, WaitStep, InitInv, NextInv, PTL DEF Spec
=============================================================================
