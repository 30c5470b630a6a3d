SPECIFICATION Spec
CONSTANTS
  Inputs <- IntInputs
  StepChoices = {0, 1}
  Incremental = {TRUE, FALSE}
  LetterStems <- Letters
  Folding = TRUE
  None = None
  MaxVar = 10
  Interruptible = TRUE
INVARIANTS
  VariablesApart
  PlainInputAccepted
CHECK_DEADLOCK FALSE
