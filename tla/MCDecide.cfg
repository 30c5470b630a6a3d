SPECIFICATION DecideSpec
CONSTANTS
  MaxVar = 4
  Options <- MCOptions
  One = 4
  ScoreLimit = 17
  MaxRephased = 1
  MaxCompacts = 1
  Implied <- MCImplied
  Eliminable <- MCEliminable
  Forcible <- MCForcible
INVARIANTS
  DecideInv
PROPERTIES
  DecisionIsBest
  TargetIsTrail
  CompactionRenames
CHECK_DEADLOCK FALSE
