---------------------------- MODULE MCSolverApi ----------------------------
(* The API with bounds on what a user gives it between two solves. *)
EXTENDS SolverApi, FiniteSets

CONSTANTS
  MaxClauses,      \* clauses in the solver
  MaxWidth,        \* literals of an unfinished clause and of the constraint
  MaxAssumptions   \* literals assumed for one solve

MCNext ==
  /\ Next
  /\ Cardinality(clauses') <= MaxClauses
  /\ Cardinality(pending') <= MaxWidth
  /\ Cardinality(constraint'.lits) <= MaxWidth
  /\ Cardinality(assumptions') <= MaxAssumptions

MCSpec == Init /\ [][MCNext]_vars
=============================================================================
