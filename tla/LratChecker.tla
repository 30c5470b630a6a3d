---------------------------- MODULE LratChecker ----------------------------
(***************************************************************************)
(* LratChecker checks a derived clause with the chain of antecedents that  *)
(* comes with it, and the order of the events around a query: weakened     *)
(* clauses come back as they were, every clause is finalized, and a        *)
(* conclusion is drawn once from the clauses over the failed assumptions.  *)
(*                                                                         *)
(* A state is [strict, lits, current, assumptions, constraint, failed,     *)
(* concluded, finalized, saved].  The table maps the id of a clause to its *)
(* literals as they were given, repeated ones included.                    *)
(***************************************************************************)
EXTENDS Cnf, Sequences, SequencesExt, FiniteSets, FiniteSetsExt

LratInit(strict) ==
  [strict |-> strict, lits |-> <<>>, current |-> 0, assumptions |-> {}, constraint |-> {},
   failed |-> <<>>, concluded |-> FALSE, finalized |-> 0, saved |-> <<>>]

With(f, i, x) == [j \in DOMAIN f \cup {i} |-> IF j = i THEN x ELSE f[j]]
Without(f, i) == [j \in DOMAIN f \ {i} |-> f[j]]

Taut(c) == \E l \in Rng(c) : -l \in Rng(c)

\* Starting from the negation of c every clause of the chain is a unit under
\* the literals that hold so far, until one is false.
ChainRefutes(lits, c, chain) ==
  LET Step(st, id) ==
        IF st.end # "no" THEN st
        ELSE IF id \notin DOMAIN lits \/ Taut(lits[id]) \/ id \in st.used
        THEN [st EXCEPT !.end = "fail"]
        ELSE LET free == {l \in Rng(lits[id]) : -l \notin st.true} IN
             IF Cardinality(free) > 1 THEN [st EXCEPT !.end = "fail"]
             ELSE IF free = {} THEN [st EXCEPT !.end = "conflict"]
             ELSE [st EXCEPT !.true = @ \cup free, !.used = @ \cup {id}]
  IN FoldLeft(Step, [true |-> {-l : l \in Rng(c)}, used |-> {}, end |-> "no"], chain).end = "conflict"

CheckChain(s, c, chain) == Taut(c) \/ ChainRefutes(s.lits, c, chain)

\* The clauses of the chain resolved from its end.
Resolvent(lits, chain) ==
  LET Lit(S, l) == IF -l \in S THEN S \ {-l} ELSE S \cup {l}
      Clause(S, id) == FoldLeft(Lit, S, lits[id])
  IN FoldLeft(Clause, Rng(lits[Last(chain)]), Reverse(Front(chain)))

\* What is left is part of c.  Only for chains found by the builder.
CheckResolution(s, c, chain) ==
  \/ chain = <<>> \/ s.strict
  \/ LET res == Resolvent(s.lits, chain) IN
     /\ \A l \in Rng(c) : -l \notin res
     /\ res \subseteq Rng(c)

-----------------------------------------------------------------------------
SortLits(c) == SortSeq(c, <)

\* [ok, s]: a clause that comes back must be the one that was weakened; if the
\* solver gives no chains, one that was not weakened may come back as well.
LratRestore(s, id, c) ==
  IF id \notin DOMAIN s.saved THEN [ok |-> ~s.strict, s |-> s]
  ELSE [ok |-> s.saved[id] = SortLits(c), s |-> [s EXCEPT !.saved = Without(@, id)]]

\* [ok, s]
LratOriginal(s, id, c, restore) ==
  LET back == IF restore THEN LratRestore(s, id, c) ELSE [ok |-> TRUE, s |-> s]
  IN [ok |-> back.ok /\ (restore \/ id \notin DOMAIN s.lits),
      s |-> [back.s EXCEPT !.lits = With(@, id, c),
                           !.current = IF ~restore /\ id = @ + 1 THEN id ELSE @]]

LratDerived(s, id, c, chain) ==
  [ok |-> id \notin DOMAIN s.lits /\ CheckChain(s, c, chain) /\ CheckResolution(s, c, chain),
   s |-> [s EXCEPT !.lits = With(@, id, c), !.current = id]]

\* The literals of the table's clause are among the given ones.
SameClause(s, id, c) == id \in DOMAIN s.lits /\ Rng(s.lits[id]) \subseteq Rng(c)

LratDelete(s, id, c) == [ok |-> SameClause(s, id, c), s |-> [s EXCEPT !.lits = Without(@, id)]]

LratWeaken(s, id, c) ==
  [ok |-> SameClause(s, id, c), s |-> [s EXCEPT !.saved = With(@, id, SortLits(c))]]

\* A clause over failed assumptions and constraint literals is checked and
\* remembered, not kept.
LratAssumptionClause(s, id, c, chain) ==
  LET Deleted(new) ==
        [LratDelete(new.s, id, c) EXCEPT
          !.ok = @ /\ new.ok /\ \A l \in Rng(c) : -l \in s.assumptions \cup s.constraint,
          !.s.failed = Append(@, id)]
  IN Deleted(LratDerived(s, id, c, chain))

LratAssume(s, a) == [s EXCEPT !.assumptions = @ \cup {a}]
LratConstrain(s, c) == [s EXCEPT !.constraint = Rng(c)]

\* The constraint stays: it is set again before the next query if there is one.
LratResetAssumptions(s) ==
  [s EXCEPT !.failed = <<>>, !.assumptions = {}, !.concluded = FALSE]

\* [ok, s]
LratConclude(s, type, ids) ==
  [ok |-> /\ ~s.concluded
          /\ CASE type = "CONFLICT" -> Last(ids) \in DOMAIN s.lits /\ s.lits[Last(ids)] = <<>>
               [] type = "ASSUMPTIONS" -> Len(ids) = 1 /\ s.failed = ids
               [] type = "CONSTRAINT" -> /\ Len(ids) = Cardinality(s.constraint)
                                         /\ Rng(ids) \subseteq Rng(s.failed),
   s |-> [s EXCEPT !.concluded = TRUE]]

LratFinalize(s, id, c) == [ok |-> SameClause(s, id, c), s |-> [s EXCEPT !.finalized = @ + 1]]

\* Every clause was finalized.
LratReport(s) ==
  [ok |-> s.finalized = Cardinality(DOMAIN s.lits), s |-> [s EXCEPT !.finalized = 0]]

LratBegin(s, id) == [s EXCEPT !.current = id]
=============================================================================
