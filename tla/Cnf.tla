-------------------------------- MODULE Cnf --------------------------------
(***************************************************************************)
(* Propositional logic in the DIMACS convention every part of the system   *)
(* shares: variable v is a positive integer, the literal v is the variable *)
(* itself and -v its negation, a clause is a set of literals (repetition   *)
(* and order do not matter to any reader), a formula is a set of clauses,  *)
(* and an assignment over 1..n is the set of the variables it makes true.  *)
(***************************************************************************)
EXTENDS Integers

SatLit(T, l) == IF l > 0 THEN l \in T ELSE -l \notin T

SatClause(T, c) == \E l \in c : SatLit(T, l)

\* T satisfies every clause of F.
SatFormula(T, F) == \A c \in F : SatClause(T, c)

\* T makes every literal of A true: A is a set of assumptions.
SatAll(T, A) == \A l \in A : SatLit(T, l)

\* F has a model over 1..n in which every literal of A is true.
Satisfiable(n, F, A) ==
  \E T \in SUBSET (1..n) : SatFormula(T, F) /\ SatAll(T, A)

\* The literals over 1..n.
LitsOf(n) == (1..n) \cup {-v : v \in 1..n}

VarOf(l) == IF l < 0 THEN -l ELSE l

Rng(s) == {s[k] : k \in DOMAIN s}
=============================================================================
