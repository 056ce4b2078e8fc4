SPECIFICATION FairSpec
CONSTANTS
  Teams = {t1, t2}
  Challenges = {c1}
  Users = {u1, u2}
  Admins = {}
  NoUser = NoUser
  Flags = {f1}
  WrongFlag = WrongFlag
  Prices = {3}
  Curves <- OneCurve
PROPERTIES
  SubmissionsEnd
