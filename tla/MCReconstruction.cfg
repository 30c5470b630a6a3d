SPECIFICATION MCSpec
CONSTANTS
  MaxVar = 3
  GateVar = 4
  GateFormulas <- Gatelike
  restoreall = 0
  UserClauses <- Clauses
  UserLits <- Assumable
  MaxClauses = 3
  MaxStack = 2
  MaxFormula = 3
  MaxAssumptions = 1
INVARIANTS
  ExtendedSatisfies
  EveryModelRepairable
  CoverSound
  ConditionWatched
  GatesDefine
PROPERTIES
  KeepsPromise
