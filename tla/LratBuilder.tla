---------------------------- MODULE LratBuilder ----------------------------
(***************************************************************************)
(* LratBuilder finds the antecedents of a derived clause by propagation,   *)
(* for a solver that does not keep track of them itself.                   *)
(*                                                                         *)
(* A state b is [r, unit, inconsistent, clause, chain]: the propagation,   *)
(* for each variable the unit clause that set it, whether the clauses are  *)
(* inconsistent, the clause that is false then, and the chain that refutes *)
(* it once it was asked for.  Clauses are keys of r, chains are ids.       *)
(***************************************************************************)
EXTENDS Rup

BuilderInit ==
  [r |-> Init0, unit |-> [v \in 1..Var |-> 0], inconsistent |-> FALSE, clause |-> 0,
   chain |-> <<>>]

VarsOf(c) == {VarOf(l) : l \in Rng(c)}

ReasonOf(b, v) == IF b.unit[v] # 0 THEN b.unit[v] ELSE b.r.reason[v]

\* The reasons of the variables to justify and in turn of what those need,
\* walking back along the trail, in the order of the trail before from.
ConstructChain(b, r, todo, justified, from) ==
  LET Step(st, l) == LET v == VarOf(l)  k == IF b.unit[v] # 0 THEN b.unit[v] ELSE r.reason[v] IN
        IF v \notin st.todo \ justified THEN st
        ELSE [todo |-> st.todo \cup VarsOf(r.lits[k]), ids |-> <<r.id[k]>> \o st.ids]
  IN FoldLeft(Step, [todo |-> todo, ids |-> from], Reverse(r.trail)).ids

ProofClause(b, r, k, justified) ==
  ConstructChain(b, r, VarsOf(r.lits[k]), justified, <<r.id[k]>>)

\* [ok, chain, b]: the chain of clause s, if it follows by propagation.  The
\* trail is as before; watches moved meanwhile stay moved.
BuildChain(b, s) ==
  LET r == b.r
      n == Len(r.trail)
      sat == {i \in 1..Len(s) : Value(r, s[i]) > 0}
      Assume(x, l) == IF Value(x, l) # 0 THEN x ELSE Assign(x, -l, 0)
      probe == Propagate(TRUE, FoldLeft(Assume, r, s))
      Restored(x) == [Backtrack(x, n) EXCEPT !.conflict = 0, !.next = r.next]
  IN IF IsTautology(s) THEN [ok |-> TRUE, chain |-> <<>>, b |-> b]
     ELSE IF b.inconsistent
     THEN LET c == IF b.chain # <<>> THEN b.chain ELSE ProofClause(b, r, b.clause, {})
          IN [ok |-> TRUE, chain |-> c, b |-> [b EXCEPT !.chain = c]]
     ELSE IF sat # {}
     THEN [ok |-> TRUE, b |-> b,
           chain |-> ConstructChain(b, r, {VarOf(s[Min(sat)])}, {}, <<>>)]
     ELSE LET F(x) == [ok |-> x.conflict # 0, b |-> [b EXCEPT !.r = Restored(x)],
                       chain |-> IF x.conflict = 0 THEN <<>>
                                 ELSE ProofClause(b, x, x.conflict, VarsOf(s))]
          IN Only({F(x) : x \in {probe}})

\* After a propagation: the conflict clause shows the inconsistency.
Propagated(b, r) ==
  IF r.conflict = 0 THEN [b EXCEPT !.r = r]
  ELSE [b EXCEPT !.r = [r EXCEPT !.conflict = 0], !.inconsistent = TRUE, !.clause = r.conflict]

\* Enter a clause.  When the clauses are inconsistent it is only entered; it
\* may else be false, or a unit that is propagated.
BuilderAdd(b, id, s) ==
  LET Enter(entered) ==
        LET r == entered.r
            k == entered.key
            free == {l \in Rng(s) : Value(r, l) = 0}
            unit == IF Len(s) = 1 /\ free # {} THEN [b.unit EXCEPT ![VarOf(s[1])] = k] ELSE b.unit
            new == [b EXCEPT !.r = r, !.unit = unit]
            F(x) == Propagated(new, x)
        IN IF b.inconsistent THEN [b EXCEPT !.r = r]
           ELSE IF ClauseSatisfied(r, s) \/ Cardinality(free) > 1 THEN new
           ELSE IF free = {} THEN [new EXCEPT !.inconsistent = TRUE, !.clause = k]
           ELSE Only({F(x) : x \in {Propagate(TRUE, Assign(r, CHOOSE l \in free : TRUE, k))}})
  IN Only({Enter(x) : x \in {Insert(b.r, id, s)}})

BuilderOriginal(b, id, c) == BuilderAdd([b EXCEPT !.r = EnlargeVars(@, c)], id, Simplify(c))

\* [ok, chain, b]: enter a derived clause with its chain.
BuilderDerived(b, id, c) ==
  LET s == Simplify(c)
      F(x) == IF x.ok THEN [x EXCEPT !.b = BuilderAdd(x.b, id, s)] ELSE x
  IN Only({F(x) : x \in {BuildChain([b EXCEPT !.r = EnlargeVars(@, c)], s)}})

\* A mutant: the cached chain survives.
BuilderDeleteKeepChain(b, id) ==
  LET k == Find(b.r, id)
      c == b.r.lits[k]
      own == {l \in Rng(c) : b.r.reason[VarOf(l)] = k}
      r == MarkGarbage(b.r, k)
      unit == [v \in 1..Var |-> IF b.unit[v] = k THEN 0 ELSE b.unit[v]]
      at == CHOOSE i \in 1..Len(r.trail) : r.trail[i] \in own
      cut == IF own = {} THEN r ELSE Backtrack(r, at - 1)
      again == [b EXCEPT !.unit = unit, !.inconsistent = FALSE, !.clause = 0]
      F(x) == Propagated(again, x)
      G(x) == IF Overflows(x.r) THEN [x EXCEPT !.r = Collect(@)] ELSE x
  IN Only({G(x) : x \in {IF own # {} \/ (b.inconsistent /\ b.clause = k)
                          THEN Only({F(x) : x \in {Propagate(TRUE, [cut EXCEPT !.next = 0])}})
                          ELSE [b EXCEPT !.r = r, !.unit = unit]}})

\* Delete a clause.  If it was the reason of a literal, the trail is undone
\* down to that literal and propagated again from its start, to keep every
\* reason's literals in front of what it implied; likewise if the clause was
\* the false one.
BuilderDelete(b, id) ==
  LET k == Find(b.r, id)
      c == b.r.lits[k]
      own == {l \in Rng(c) : b.r.reason[VarOf(l)] = k}
      r == MarkGarbage(b.r, k)
      unit == [v \in 1..Var |-> IF b.unit[v] = k THEN 0 ELSE b.unit[v]]
      at == CHOOSE i \in 1..Len(r.trail) : r.trail[i] \in own
      cut == IF own = {} THEN r ELSE Backtrack(r, at - 1)
      again == [b EXCEPT !.unit = unit, !.inconsistent = FALSE, !.clause = 0, !.chain = <<>>]
      F(x) == Propagated(again, x)
      G(x) == IF Overflows(x.r) THEN [x EXCEPT !.r = Collect(@)] ELSE x
  IN Only({G(x) : x \in {IF own # {} \/ (b.inconsistent /\ b.clause = k)
                          THEN Only({F(x) : x \in {Propagate(TRUE, [cut EXCEPT !.next = 0])}})
                          ELSE [b EXCEPT !.r = r, !.unit = unit]}})

-----------------------------------------------------------------------------
\* Every literal on the trail has a live reason whose other literals are
\* false by literals in front of it.
Topological(b) ==
  \A i \in 1..Len(b.r.trail) :
    LET l == b.r.trail[i]
        k == ReasonOf(b, VarOf(l))
    IN k \in Alive(b.r) /\ l \in Rng(b.r.lits[k])
       /\ \A m \in Rng(b.r.lits[k]) \ {l} : -m \in Rng(SubSeq(b.r.trail, 1, i - 1))

\* When the clauses are consistent none is false and none is an unassigned
\* unit; otherwise the clause shown is false.  The empty clause does not
\* count: the solver stops when it has it.
Propagates(b) ==
  IF b.inconsistent
  THEN b.clause \in Alive(b.r) /\ \A l \in Rng(b.r.lits[b.clause]) : Value(b.r, l) < 0
  ELSE b.r.next = Len(b.r.trail)
       /\ \A k \in Alive(b.r) : LET s == b.r.lits[k] IN
            \/ s = <<>> \/ ClauseSatisfied(b.r, s)
            \/ Cardinality({l \in Rng(s) : Value(b.r, l) = 0}) > 1

\* No reason, unit or false clause is one that was freed.
BuilderKeeps(b) ==
  /\ Rng(b.r.units) \subseteq DOMAIN b.r.lits
  /\ \A v \in 1..Var : {b.r.reason[v], b.unit[v]} \subseteq Alive(b.r) \cup {0}
=============================================================================
