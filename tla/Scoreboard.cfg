SPECIFICATION Spec
CONSTANTS
  t1 = t1  c1 = c1  b1 = b1  r1 = r1  r2 = r2
  Teams = {t1}
  Challenges = {c1}
  Brackets = {b1}
  Readers = {r1, r2}
  Overall = Overall
  NoBracket = NoBracket
  Never = Never
  Prices <- MCPrices
  Gifts <- MCGifts
  FreezeTimes <- MCFreezeTimes
  MaxInstant = 1
  TTL = 1
  MaxLoad = 0
  MaxEdits = 1
  MaxPending = 1
SYMMETRY Symmetric
INVARIANTS TypeOK BoundedStaleness  SettledBoardIsExact
