SPECIFICATION FlipSpec
CONSTANTS
  MaxVar = 4
  Options <- MCOptions
  Rounds <- MCRounds
  MaxReductions = 1
  MixedCalls = FALSE
INVARIANTS
  FlipInv
PROPERTIES
  FlipAnswers
CHECK_DEADLOCK FALSE
