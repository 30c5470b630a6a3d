SPECIFICATION MCSpec
CONSTANTS
  MaxVar = 2
  Calls = {"flip", "lookahead", "phase"}
  MaxClauses = 1
  MaxWidth = 1
  MaxAssumptions = 1
PROPERTIES
  RefinesIpasir
CHECK_DEADLOCK FALSE
