----------------------------- MODULE MCSimplify -----------------------------
(***************************************************************************)
(* Formulas on which the simplifiers have something to do, and queries.    *)
(***************************************************************************)
EXTENDS LocalSearch

C(lits) == [lits |-> lits, red |-> FALSE]
R(lits) == [lits |-> lits, red |-> TRUE]

\* Duplicates, a cycle of implications and a transitive edge, of which some
\* clauses are redundant.
BinaryFormula ==
  <<R({1, 2}), C({1, 2}), C({-1, 3}), C({-3, 4}), R({-1, 4}), C({-2, 4})>>

\* Probing 1 needs the long clauses; it fails.
ProbeFormula ==
  <<C({-1, 2}), C({-1, 3}), C({-2, -3, 4}), C({-1, -3, -4}), C({1, 4}), R({-1, -2, -4})>>

\* Subsumed and strengthened clauses.
SubsumeFormula ==
  <<R({1, 2, 3}), C({1, 2, 3, 4}), C({-1, 2, 4}), C({1, 2, 4}), C({2, 3, -4}), R({2, 3})>>

\* Probing 1 derives a binary clause by which 4, probed before without a
\* conflict, has one.
SkippedFormula ==
  <<C({-4, -3}), C({-1, 2}), C({-1, -2, 3}), C({1, -4, 2}), C({1, -4, -2})>>

\* Irredundant clauses that only the redundant ones make redundant, copies,
\* and clauses that lose literals.
VivifyFormula ==
  <<C({1, 2, 3}), C({1, 2, -3, 4}), R({1, 2, 4}), C({1, 2, 3}), C({-1, 2, 4}), R({1, 2, 3, 4})>>

\* Vivification of irredundant clauses derives the unit 1, from which 4
\* follows by propagation only with the redundant clause.
UnitFormula ==
  <<C({1, 2}), C({1, -2, 3}), C({1, -2, -3}), C({-1, 2, 4}), C({-1, -2, 4}), R({-1, 4})>>

MCFormulas ==
  {BinaryFormula, ProbeFormula, SubsumeFormula, SkippedFormula, VivifyFormula, UnitFormula}

Opts(probehbr, subsumelimited, kept) ==
  [probehbr |-> probehbr, subsumelimited |-> subsumelimited, kept |-> kept]

\* Every pair of values of two of the options.
MCOptions ==
  {Opts(TRUE, FALSE, TRUE), Opts(FALSE, TRUE, TRUE), Opts(FALSE, FALSE, FALSE),
   Opts(TRUE, TRUE, FALSE)}

MCAssumptions == {<<>>, <<-1, -4>>, <<2, 3>>}

MCAdditions == {{-1, -2}, {-3, -4}, {-2, 3}}
=============================================================================
