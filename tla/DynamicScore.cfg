SPECIFICATION Spec
CONSTANTS
  MaxValue = 12
  MaxDecay = 7
  MaxSolves = 10
INVARIANTS
  ScoreSpansTheRange
  
PROPERTIES
  ScoreNeverRises
CHECK_DEADLOCK FALSE
