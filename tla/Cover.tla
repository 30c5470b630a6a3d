-------------------------------- MODULE Cover --------------------------------
(***************************************************************************)
(* Covered clause elimination (cover.cpp).  A clause grows by asymmetric   *)
(* literals, found by propagating its negation over the other irredundant  *)
(* clauses, and by covered literals, which all clauses it could be         *)
(* resolved with on one of its literals share.  If the grown clause is     *)
(* blocked or propagation finds a conflict, the clause is removed: each    *)
(* covered step left an entry for the extension stack.                     *)
(*                                                                         *)
(* The order of the literals in a clause and the limits, by which clauses  *)
(* are left out, are free.  In Reconstruction clauses have no false root   *)
(* level literals; the code adds those to the entries for its proof.       *)
(***************************************************************************)
EXTENDS Reconstruction

VARIABLE cover   \* [clause, added, covered, extend], clause {}: none

coverVars == <<vars, cover>>

NotCovering == [clause |-> {}, added |-> {}, covered |-> {}, extend |-> <<>>]

CoverInit == Init /\ cover = NotCovering

\* Clauses of only frozen literals are not tried.
CoverClause(c) ==
  /\ Solving /\ cover = NotCovering
  /\ c \in irredundant /\ Cardinality(c) >= 2
  /\ \E l \in c : ~Frozen(VarOf(l))
  /\ cover' = [clause |-> c, added |-> c, covered |-> c, extend |-> <<>>]
  /\ UNCHANGED vars

\* The clauses that are propagated.
Others == irredundant \ {cover.clause}

\* The extended clause after all asymmetric literal additions.
Asymmetric == Negated(Units(Others \cup {{-l} : l \in cover.added}))

Subsumed(added) == \E d \in Others : d \subseteq added

\* The clauses with -lit that are not satisfied otherwise.
Candidates(lit, added) ==
  {d \in irredundant : -lit \in d /\ ~\E k \in d \ {-lit} : -k \in added}

\* A mutant: one clause decides.
IntersectionOfFirst(lit, added) ==
  LET d == CHOOSE d \in Candidates(lit, added) : TRUE IN d \ (added \cup {-lit})

\* The literals that can be covered on lit.
Intersection(lit, added) ==
  {k \in Lits \ added : \A d \in Candidates(lit, added) : k \in d \ {-lit}}

\* A clause is only removed if there is something to put on the stack.
CoverSuccess(extend) ==
  /\ cover' = NotCovering
  /\ IF extend = <<>> THEN UNCHANGED vars
     ELSE /\ Push(extend)
          /\ irredundant' = Others
          /\ UNCHANGED inactive
          /\ Simplifies

\* All asymmetric steps, then the first covered step that succeeds.
CoverStep ==
  /\ cover # NotCovering
  /\ \E added \in {Asymmetric} :
       IF Subsumed(added) THEN CoverSuccess(cover.extend)
       ELSE LET step == {l \in cover.covered :
                           /\ ~Frozen(VarOf(l))
                           /\ \/ Candidates(l, added) = {}
                              \/ Intersection(l, added) # {}}
            IN \/ step = {} /\ cover' = NotCovering /\ UNCHANGED vars
               \/ \E lit \in step :
                    LET extend == Append(cover.extend, Entry({lit}, cover.covered))
                        more == Intersection(lit, added)
                    IN IF Candidates(lit, added) = {} THEN CoverSuccess(extend)
                       ELSE /\ cover' = [cover EXCEPT !.added = added \cup more,
                                                      !.covered = @ \cup more,
                                                      !.extend = extend]
                            /\ UNCHANGED vars

Cover == CoverStep \/ \E c \in irredundant : CoverClause(c)

-----------------------------------------------------------------------------
\* T repaired through the entries of s, from the last one.
RepairedBy(T, s) ==
  LET R[i \in 0..Len(s)] == IF i = Len(s) THEN T ELSE Repaired(R[i + 1], s[i + 1])
  IN R[0]

\* At every step the clause may be replaced by the extended one: an assignment
\* of the other clauses and of the extended clause is repaired by the entries
\* so far to one of the formula with the clause itself.
CoverSound ==
  cover # NotCovering =>
    \A T \in SUBSET Vars :
      SatFormula(T, Others \cup {cover.added}) =>
        SatFormula(RepairedBy(T, cover.extend), irredundant)
=============================================================================
