SPECIFICATION FairSpec
CONSTANTS
  Teams = {t1}
  Hints = {h1, h2}
  Challenges = {c1}
  Requests = {r1, r2}
  NoRequest = NoRequest
  NoTeam = NoTeam
  Costs <- FreeOrTwo
  Prices = {1, 3}
  Gifts <- GiftOrDebit
  MaxGranted = 2
INVARIANTS
  OnlySqueezedOverdraw
PROPERTIES
  ShopSpec
  UnlocksEnd
CHECK_DEADLOCK FALSE
