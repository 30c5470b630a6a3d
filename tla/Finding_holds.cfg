SPECIFICATION Spec
CONSTANTS
  Inputs <- CounterInputs
  StepChoices = {1}
  Incremental = {TRUE}
  LetterStems <- Letters
  Folding = FALSE
  None = None
  MaxVar = 6
  Interruptible = FALSE
INVARIANT HoldsMeansUnreachable
CHECK_DEADLOCK FALSE
