SPECIFICATION LocalSpec
CONSTANTS
  Var = 4
  Formulas <- MCFormulas
  Options <- MCOptions
  MaxRuns = 3
  Assumptions <- MCAssumptions
  Additions <- MCAdditions
  Phase = 1
  MaxBefore = 1
  MaxRounds = 2
INVARIANTS
  DerivationsInv
  Equivalent
  SkipsHold
  VivifyInv
  LocalSearchInv
CHECK_DEADLOCK FALSE
