SPECIFICATION Spec
CONSTANTS
  t1 = t1  c1 = c1
  Teams = {t1}
  Challenges = {c1}
  Files <- MCFiles
  PathOf <- MCPathOf
  Blank = Blank
  NoObject = NoObject
  MaxWrites = 7
INVARIANTS TypeOK 
PROPERTIES RoundTripIsNoOp 
