SPECIFICATION Spec
CONSTANTS
  Users = {u1, u2}
  Teams = {t1, t2}
  NoUser = NoUser
  NoTeam = NoTeam
  MaxTeamSize = 2
  Modes = {"flexible"}
  Opens = {TRUE}
  Offered = {"Create", "CreateSolo", "Join", "Leave", "Transfer", "Disband", "Kick"}
  MaxInFlight = 2
SYMMETRY Symmetry
INVARIANTS
  JoinedTeamIsVisible
