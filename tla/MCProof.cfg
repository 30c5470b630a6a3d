SPECIFICATION ProofSpec
CONSTANTS
  Var = 3
  Modes = {"external", "internal", "drup"}
  Rounds <- MCRounds
  Candidates <- MCCandidates
  MaxSteps = 4
  IdBits = 5
  ExternalVar <- MCExternalVar
INVARIANTS
  CheckersInv
  DerivedFollow
  JustifiedAccepted
  FilesInv
CHECK_DEADLOCK FALSE
