----------------------------- MODULE Inprocess -----------------------------
(***************************************************************************)
(* The clause database that CaDiCaL's simplifiers work on at the root      *)
(* level, as a value.  A database is                                       *)
(*                                                                         *)
(*   cl         the allocated clauses, by their place in the clause list:  *)
(*              [lits, red, hyper, garbage, watch]                         *)
(*   units      the literals that are true at the root level               *)
(*   unsat      the empty clause was derived                               *)
(*   subsume    the variables in clauses added since the last subsumption  *)
(*   ternary, marks   the same for ternary clauses, and how often that     *)
(*              flag of a variable was set                                 *)
(*   justified  every derived clause so far followed by unit propagation   *)
(*              from the clauses the proof still has                       *)
(*                                                                         *)
(* A garbage clause stays allocated until garbage is collected.  A binary  *)
(* one is still propagated where it is watched, and its deletion is traced *)
(* only when it is collected; watch is the set of the literals where a     *)
(* binary clause is watched.  Longer clauses are watched and propagated to *)
(* completion, without it being said by which literals.                    *)
(***************************************************************************)
EXTENDS Cnf, Sequences, SequencesExt, FiniteSets, FiniteSetsExt

CONSTANT Var      \* the number of variables

Lits == LitsOf(Var)

\* Evaluate f on the value of a: TLC would evaluate an argument at every use.
ByValue(f(_), a) == CHOOSE y \in {f(x) : x \in {a}} : TRUE

\* A finite set of numbers as an ascending sequence.
Ascending(S) ==
  LET Put(n, s) ==
        LET Smaller(x) == x < n  Larger(x) == x > n
        IN SelectSeq(s, Smaller) \o <<n>> \o SelectSeq(s, Larger)
  IN FoldSet(Put, <<>>, S)

\* A stable sort by a rank below n (radix sort).
RSort(s, rank, n) ==
  FlattenSeq([r \in 1..n |-> SelectSeq(s, LAMBDA x : rank[x] = r - 1)])

Size(c) == Cardinality(c.lits)

VarsOf(lits) == {VarOf(l) : l \in lits}

Val(D, l) == IF l \in D.units THEN 1 ELSE IF -l \in D.units THEN -1 ELSE 0

Active(D, l) == Val(D, l) = 0

Fixed(D) == Cardinality(D.units)

Live(D) == {k \in DOMAIN D.cl : ~D.cl[k].garbage}

LivesAs(D, red) == {k \in Live(D) : D.cl[k].red = red}

\* The formula the solver stands for.
Irredundant(D) ==
  {D.cl[k].lits : k \in LivesAs(D, FALSE)} \cup {{l} : l \in D.units}
  \cup (IF D.unsat THEN {{}} ELSE {})

\* The clauses the proof has: binary garbage is not traced as deleted yet.
Traced(D) ==
  {D.cl[k].lits : k \in {k \in DOMAIN D.cl : ~D.cl[k].garbage \/ Size(D.cl[k]) = 2}}

-----------------------------------------------------------------------------
(* Propagation.                                                            *)

Falsified(U, c) == \A l \in c : -l \in U

\* The literals that unit propagation derives from the literals U.
RECURSIVE Closure(_, _)
Closure(F, U) ==
  LET new == UNION {{l \in c : l \notin U /\ \A k \in c \ {l} : -k \in U} :
                    c \in {c \in F : c \cap U = {}}}
      X == U \cup new
  IN IF new = {} \/ \E l \in X : -l \in X THEN X ELSE Closure(F, X)

Conflicting(F, U) == (\E l \in U : -l \in U) \/ \E c \in F : Falsified(U, c)

\* A clause follows by reverse unit propagation.
Rup(D, c) ==
  LET F(U) == Conflicting(Traced(D), U)
  IN ByValue(F, Closure(Traced(D), D.units \cup {-l : l \in c}))

\* The clauses that are watched: a garbage binary clause only counts when the
\* propagated literal is one where it is watched.
RECURSIVE Watched(_, _)
Watched(D, U) ==
  LET Seen(k) == LET c == D.cl[k] IN
        IF Size(c) = 2 THEN \E l \in c.watch : -l \in U ELSE ~c.garbage
      F == {D.cl[k].lits : k \in {k \in DOMAIN D.cl : Seen(k)}}
      X == Closure(F, U)
  IN IF X = U THEN [units |-> U, conflict |-> Conflicting(F, U)]
     ELSE IF Conflicting(F, X) THEN [units |-> X, conflict |-> TRUE]
     ELSE Watched(D, X)

\* propagate () at the root level, which learns the empty clause when it
\* finds a conflict.
RootPropagate(D) ==
  LET F(w) == IF w.conflict
              THEN [D EXCEPT !.unsat = TRUE, !.justified = @ /\ Rup(D, {})]
              ELSE [D EXCEPT !.units = w.units]
  IN IF D.unsat THEN D ELSE ByValue(F, Watched(D, D.units))

\* A derived unit.
AssignUnit(D, l) ==
  [D EXCEPT !.units = @ \cup {l}, !.justified = @ /\ Rup(D, {l})]

LearnEmpty(D) == [D EXCEPT !.unsat = TRUE, !.justified = @ /\ Rup(D, {})]

-----------------------------------------------------------------------------
(* Adding, shrinking and removing clauses.                                 *)

\* Irredundant clauses and those of a small glue are kept by reductions; a
\* longer redundant clause only within the limits of the last reduction.
LikelyToBeKept(kept, c) == ~c.red \/ Size(c) = 2 \/ kept

MarkAdded(D, c) ==
  LET tern == IF Size(c) = 3 THEN VarsOf(c.lits) ELSE {}
  IN [D EXCEPT !.subsume = @ \cup VarsOf(c.lits),
               !.marks = @ + Cardinality(tern \ D.ternary),
               !.ternary = @ \cup tern]

\* The next place in the clause list.
NextKey(D) == Max({0} \cup DOMAIN D.cl) + 1

NewClause(D, kept, lits, red, hyper) ==
  LET k == NextKey(D)
      c == [lits |-> lits, red |-> red, hyper |-> hyper, garbage |-> FALSE,
            watch |-> IF Cardinality(lits) = 2 THEN lits ELSE {}]
      new == [D EXCEPT !.cl = [j \in DOMAIN D.cl \cup {k} |-> IF j = k THEN c ELSE D.cl[j]],
                       !.justified = @ /\ Rup(D, lits)]
  IN IF LikelyToBeKept(kept, c) THEN MarkAdded(new, c) ELSE new

MarkGarbage(D, k) == [D EXCEPT !.cl[k].garbage = TRUE]

\* Take literals out of a clause in place; it is a derived clause that
\* replaces the old one.
ShrinkClause(D, kept, k, gone) ==
  LET c == [D.cl[k] EXCEPT !.lits = @ \ gone,
                           !.watch = IF Cardinality(D.cl[k].lits \ gone) = 2
                                     THEN D.cl[k].lits \ gone ELSE {}]
      new == [D EXCEPT !.cl[k] = c, !.justified = @ /\ Rup(D, c.lits)]
  IN IF LikelyToBeKept(kept, c) THEN MarkAdded(new, c) ELSE new

\* Watches are dropped and connected again: garbage is not watched after that.
ConnectWatches(D) ==
  [D EXCEPT !.cl = [k \in DOMAIN D.cl |->
     LET c == D.cl[k] IN
     [c EXCEPT !.watch = IF Size(c) = 2 /\ ~c.garbage THEN c.lits ELSE {}]]]

\* Clauses with a true literal become garbage, false literals are removed
\* unless fewer than two others are left.
MarkSatisfied(D, kept) ==
  LET Clean(E, k) ==
        LET c == E.cl[k]
            false == {l \in c.lits : Val(E, l) < 0}
        IN IF c.garbage THEN E
           ELSE IF c.lits \cap E.units # {} THEN MarkGarbage(E, k)
           ELSE IF false = {} \/ Cardinality(c.lits \ false) < 2 THEN E
           ELSE ShrinkClause(E, kept, k, false)
      Step(E, k) == LET F(x) == Clean(x, k) IN ByValue(F, E)
  IN FoldLeft(Step, D, Ascending(DOMAIN D.cl))

\* Garbage leaves the watch lists and is freed.
DeleteGarbage(D) == [D EXCEPT !.cl = [k \in Live(D) |-> D.cl[k]]]
=============================================================================
