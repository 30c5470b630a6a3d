SPECIFICATION Spec
CONSTANTS
  Inputs <- BooleanInputs
  StepChoices = {0, 1, 2}
  Incremental = {TRUE}
  LetterStems <- Letters
  Folding = FALSE
  None = None
  MaxVar = 12
  Interruptible = TRUE
INVARIANTS
  VerdictIsForBound
  OnlyFirstBoundCanFail
  BoundIsolation
  FirstVerdictMeaning
  ConjunctiveRuleIsImplication
PROPERTIES
  Terminates
CHECK_DEADLOCK FALSE
