------------------------------- MODULE Roster -------------------------------
(* What the roster promises: the team operations of                          *)
(* internal/usecase/team/team.go as single atomic steps over the rows of the *)
(* users and teams tables.  TeamRoster refines this module with the          *)
(* transactions, row locks and stale reads of the code.                      *)
EXTENDS Naturals, FiniteSets

CONSTANTS Users,         \* registered accounts
          Teams,         \* rows the teams table can hold at one time
          NoUser,        \* captain of an unused row
          NoTeam,        \* users.team_id IS NULL
          MaxTeamSize    \* DefaultMaxTeamSize

ASSUME UsersAssumption == IsFiniteSet(Users) /\ NoUser \notin Users
ASSUME TeamsAssumption == NoTeam \notin Teams
ASSUME SizeAssumption == MaxTeamSize \in Nat \ {0}

VARIABLES team,      \* users.team_id
          status,    \* is there a row, and has it a deleted_at
          captain,   \* teams.captain_id
          solo       \* teams.is_solo OR teams.is_auto_created

rosterVars == <<team, status, captain, solo>>

Statuses == {"none", "active", "deleted"}

RosterTypeOK ==
  /\ team \in [Users -> Teams \cup {NoTeam}]
  /\ status \in [Teams -> Statuses]
  /\ captain \in [Teams -> Users \cup {NoUser}]
  /\ solo \in [Teams -> BOOLEAN]

(* ListUsersByTeamID. *)
Members(t) == {u \in Users : team[u] = t}

RosterInit ==
  /\ team = [u \in Users |-> NoTeam]
  /\ status = [t \in Teams |-> "none"]
  /\ captain = [t \in Teams |-> NoUser]
  /\ solo = [t \in Teams |-> FALSE]

-----------------------------------------------------------------------------
(* A user may change team when in none, or when the old one is a solo team,  *)
(* which the move then soft-deletes.                                         *)
Movable(u) == team[u] = NoTeam \/ (status[team[u]] = "active" /\ solo[team[u]])

(* The rows after the old team of u, if any, is soft-deleted. *)
OldTeamDropped(u) ==
  [t \in Teams |-> IF t = team[u] THEN "deleted" ELSE status[t]]

CreateTeam(u, t, isSolo) ==
  /\ Movable(u)
  /\ status[t] = "none"
  /\ status' = [OldTeamDropped(u) EXCEPT ![t] = "active"]
  /\ captain' = [captain EXCEPT ![t] = u]
  /\ solo' = [solo EXCEPT ![t] = isSolo]
  /\ team' = [team EXCEPT ![u] = t]

(* The row may be soft-deleted: the token is looked up before the team lock. *)
JoinTeam(u, t) ==
  /\ Movable(u)
  /\ status[t] # "none"
  /\ Cardinality(Members(t) \ {u}) < MaxTeamSize
  /\ status' = OldTeamDropped(u)
  /\ team' = [team EXCEPT ![u] = t]
  /\ UNCHANGED <<captain, solo>>

LeaveTeam(u) ==
  /\ team[u] \in Teams
  /\ status[team[u]] = "active"
  /\ captain[team[u]] # u
  /\ Members(team[u]) # {u}
  /\ team' = [team EXCEPT ![u] = NoTeam]
  /\ UNCHANGED <<status, captain, solo>>

(* t is an active team and u its captain. *)
Leads(u, t) == t \in Teams /\ status[t] = "active" /\ captain[t] = u

TransferCaptaincy(u, m) ==
  /\ Leads(u, team[u])
  /\ m \in Members(team[u]) \ {u}
  /\ captain' = [captain EXCEPT ![team[u]] = m]
  /\ UNCHANGED <<team, status, solo>>

DisbandOwnTeam(u) ==
  /\ Leads(u, team[u])
  /\ status' = [status EXCEPT ![team[u]] = "deleted"]
  /\ team' = [v \in Users |-> IF team[v] = team[u] THEN NoTeam ELSE team[v]]
  /\ UNCHANGED <<captain, solo>>

KickFromTeam(u, m) ==
  /\ Leads(u, team[u])
  /\ m \in Members(team[u]) \ {u}
  /\ team' = [team EXCEPT ![m] = NoTeam]
  /\ UNCHANGED <<status, captain, solo>>

(* users.team_id REFERENCES teams ON DELETE SET NULL. *)
HardDelete(t) ==
  /\ status[t] = "deleted"
  /\ status' = [status EXCEPT ![t] = "none"]
  /\ captain' = [captain EXCEPT ![t] = NoUser]
  /\ solo' = [solo EXCEPT ![t] = FALSE]
  /\ team' = [u \in Users |-> IF team[u] = t THEN NoTeam ELSE team[u]]

RosterNext ==
  \/ \E u \in Users :
       \/ LeaveTeam(u)
       \/ DisbandOwnTeam(u)
       \/ \E t \in Teams : JoinTeam(u, t) \/ \E s \in BOOLEAN : CreateTeam(u, t, s)
       \/ \E m \in Users : TransferCaptaincy(u, m) \/ KickFromTeam(u, m)
  \/ \E t \in Teams : HardDelete(t)

(* Every transaction of the team use case takes effect as one of these       *)
(* atomic operations, with its checks still true at the commit: TeamRoster   *)
(* refines this specification.                                               *)
RosterSpec == RosterInit /\ [][RosterNext]_rosterVars

-----------------------------------------------------------------------------
(* An active team is never without its captain: the captain on the row is a  *)
(* user whose team_id points back at it, so no team is empty or headless and *)
(* nobody leads two teams.                                                   *)
CaptainIsMember ==
  \A t \in Teams : status[t] = "active" => captain[t] \in Members(t)

(* No team ever has more members than the limit Join checks, not even one a  *)
(* late joiner entered after its deletion.                                   *)
TeamSizeBounded == \A t \in Teams : Cardinality(Members(t)) <= MaxTeamSize

(* A users row never points at a row the cleanup job has removed. *)
NoDanglingTeamId ==
  \A u \in Users : team[u] # NoTeam => status[team[u]] # "none"

(* A user who goes straight from one team to another leaves a soft-deleted   *)
(* team behind: nobody takes part in two live teams' histories by hopping.   *)
MoveDeletesOldTeam ==
  [][\A u \in Users :
       (team[u] # NoTeam /\ team'[u] \notin {NoTeam, team[u]})
         => status'[team[u]] = "deleted"]_rosterVars
=============================================================================
