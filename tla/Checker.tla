------------------------------ MODULE Checker ------------------------------
(***************************************************************************)
(* Checker accepts a derived clause if propagating its negation runs into  *)
(* a conflict (RUP).  It never takes back an assignment, does not keep     *)
(* clauses that are satisfied or units, and stops as soon as the clauses   *)
(* are inconsistent.  A state k is [r, inconsistent].                      *)
(***************************************************************************)
EXTENDS Rup

CheckerInit == [r |-> Init0, inconsistent |-> FALSE]

\* Satisfied clauses are treated like tautologies.
Tautological(k, c) == IsTautology(c) \/ ClauseSatisfied(k.r, c)

\* A mutant: the trail is not undone.
CheckNoBacktrack(k, s) ==
  LET Assume(x, l) == IF Value(x, -l) > 0 THEN x ELSE Assign(x, -l, 0)
      F(x) == [ok |-> x.conflict # 0, k |-> [k EXCEPT !.r = [x EXCEPT !.conflict = 0]]]
  IN IF k.inconsistent THEN [ok |-> TRUE, k |-> k]
     ELSE Only({F(x) : x \in {Propagate(FALSE, FoldLeft(Assume, k.r, s))}})

\* [ok, k]: assume the negation of s, propagate, and undo the trail.
Check(k, s) ==
  LET Assume(x, l) == IF Value(x, -l) > 0 THEN x ELSE Assign(x, -l, 0)
      F(x) == [ok |-> x.conflict # 0,
               k |-> [k EXCEPT !.r = [Backtrack(x, k.r.next) EXCEPT !.conflict = 0]]]
  IN IF k.inconsistent THEN [ok |-> TRUE, k |-> k]
     ELSE Only({F(x) : x \in {Propagate(FALSE, FoldLeft(Assume, k.r, s))}})

\* Enter a clause that is not satisfied: only one with two literals left is
\* kept, a unit is assigned and propagated.
CheckerAdd(k, id, s) ==
  LET free == {l \in Rng(s) : Value(k.r, l) >= 0}
      F(x) == [r |-> [x EXCEPT !.conflict = 0], inconsistent |-> x.conflict # 0]
  IN IF free = {} THEN [k EXCEPT !.inconsistent = TRUE]
     ELSE IF Cardinality(free) = 1
     THEN Only({F(x) : x \in {Propagate(FALSE, Assign(k.r, CHOOSE l \in free : TRUE, 0))}})
     ELSE [k EXCEPT !.r = Insert(k.r, id, s).r]

CheckerOriginal(k, id, c) ==
  LET new == [k EXCEPT !.r = EnlargeVars(@, c)] IN
  IF k.inconsistent THEN k
  ELSE IF Tautological(k, c) THEN new
  ELSE CheckerAdd(new, id, Simplify(c))

\* [ok, k]
CheckerDerived(k, id, c) ==
  LET new == [k EXCEPT !.r = EnlargeVars(@, c)]
      F(x) == IF x.ok THEN [x EXCEPT !.k = CheckerAdd(x.k, id, Simplify(c))] ELSE x
  IN IF k.inconsistent THEN [ok |-> TRUE, k |-> k]
     ELSE IF Tautological(k, c) THEN [ok |-> TRUE, k |-> new]
     ELSE Only({F(x) : x \in {Check(new, Simplify(c))}})

\* Collection takes the satisfied clauses too.
CheckerCollect(r) ==
  Collect([r EXCEPT !.garbage = @ \cup {j \in Alive(r) : ClauseSatisfied(r, r.lits[j])}])

\* A mutant: a clause that is satisfied is looked up too.
CheckerDeleteSatisfied(k, id, c) ==
  LET found == {j \in Alive(k.r) : k.r.id[j] = id /\ Rng(k.r.lits[j]) = Rng(c)}
      r == MarkGarbage(k.r, CHOOSE j \in found : TRUE)
  IN IF k.inconsistent \/ IsTautology(c) THEN [ok |-> TRUE, k |-> k]
     ELSE IF found = {} THEN [ok |-> FALSE, k |-> k]
     ELSE [ok |-> TRUE, k |-> [k EXCEPT !.r = IF Overflows(r) THEN CheckerCollect(r) ELSE r]]

\* [ok, k]: a clause that is not satisfied must be in the table.
CheckerDelete(k, id, c) ==
  LET found == {j \in Alive(k.r) : k.r.id[j] = id /\ Rng(k.r.lits[j]) = Rng(c)}
      r == MarkGarbage(k.r, CHOOSE j \in found : TRUE)
  IN IF k.inconsistent \/ Tautological(k, c) THEN [ok |-> TRUE, k |-> k]
     ELSE IF found = {} THEN [ok |-> FALSE, k |-> k]
     ELSE [ok |-> TRUE, k |-> [k EXCEPT !.r = IF Overflows(r) THEN CheckerCollect(r) ELSE r]]
=============================================================================
