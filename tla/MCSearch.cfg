SPECIFICATION Spec
CONSTANTS
  MaxVar = 6
  Options <- MCOptions
  Rounds <- MCRounds
  MaxReductions = 1
  MixedCalls = FALSE
INVARIANTS
  TrailInv
  PropagationInv
  FormulaKept
  AnswersHold
PROPERTIES
  SolveReturns
  ImplementsIpasir
CHECK_DEADLOCK FALSE
