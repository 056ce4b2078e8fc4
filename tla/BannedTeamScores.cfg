SPECIFICATION Spec
CONSTANTS
  Teams = {t1, t2}
  Challenges = {c1}
  Users = {u1, u2}
  Admins = {a1}
  NoUser = NoUser
  Flags = {f1}
  WrongFlag = WrongFlag
  Prices = {3}
  Curves <- OneCurve
PROPERTIES
  BannedTeamGainsNothing
