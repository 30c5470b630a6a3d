SPECIFICATION Spec
CONSTANTS
  MaxVar = 5
  Options <- MCMixedOptions
  Rounds <- MCMixedRounds
  MaxReductions = 0
  MixedCalls = TRUE
INVARIANT AssumptionsSatisfied
CHECK_DEADLOCK FALSE
