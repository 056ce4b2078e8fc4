SPECIFICATION FairSpec
CONSTANTS
  Users = {u1, u2}
  Teams = {t1, t2}
  NoUser = NoUser
  NoTeam = NoTeam
  MaxTeamSize = 2
  Modes = {"flexible"}
  Opens = {TRUE, FALSE}
  Offered = {"CreateSolo", "Join", "Leave", "Disband", "Kick"}
  MaxInFlight = 2
PROPERTIES
  RequestsEnd
  FrozenRosterSettles
