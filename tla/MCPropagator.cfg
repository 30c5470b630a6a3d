SPECIFICATION MCSpec
CONSTANTS
  MaxVar = 5
  Options <- MCOptions
  Rounds <- MCRounds
  MaxReductions = 1
  MixedCalls = FALSE
  Theory <- MCTheory
  MaxForced = 1
INVARIANTS
  ViewInv
  ReasonsInOrder
  AnswersRespectTheory
PROPERTIES
  PropagatorReturns
CHECK_DEADLOCK FALSE
