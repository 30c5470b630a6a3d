-------------------------------- MODULE Rup --------------------------------
(***************************************************************************)
(* Reverse unit propagation as the proof checker (Checker) and the builder *)
(* of antecedent chains (LratBuilder) implement it: a table of clauses,    *)
(* two watched literals per clause, a trail that is only extended, and     *)
(* garbage clauses that stay in the watch lists until they are collected.  *)
(*                                                                         *)
(* A state r is [lits, id, garbage, watches, trail, next, reason, units,   *)
(* conflict, size, vars].  The hash table is the functions lits and id on  *)
(* the allocated clauses.  A clause is found by its id; a restored clause  *)
(* has the id of the deleted one, which may still be in the garbage list.  *)
(* The checker has no use for reasons, unit clauses and the conflict       *)
(* clause, which the builder keeps.                                        *)
(***************************************************************************)
EXTENDS Cnf, Sequences, SequencesExt, FiniteSets, FiniteSetsExt

CONSTANT Var    \* the largest external variable

Lits == LitsOf(Var)

\* The element of S.  Only({F(v) : v \in {a}}) is F(a) with a evaluated once.
Only(S) == CHOOSE x \in S : TRUE

\* The elements of S in order, the elements of s at positions I, and those
\* that P holds of.
Ascending(S) ==
  [i \in 1..Cardinality(S) |-> CHOOSE x \in S : Cardinality({y \in S : y <= x}) = i]

SubSeqAt(s, I) == [i \in 1..Cardinality(I) |-> s[Ascending(I)[i]]]

Sieve(s, P(_)) == SubSeqAt(s, {i \in DOMAIN s : P(s[i])})

Init0 ==
  [lits |-> <<>>, id |-> <<>>, garbage |-> {}, watches |-> [l \in Lits |-> <<>>],
   trail |-> <<>>, next |-> 0, reason |-> [v \in 1..Var |-> 0], units |-> <<>>,
   conflict |-> 0, size |-> 0, vars |-> 0]

Value(r, l) == IF l \in Rng(r.trail) THEN 1 ELSE IF -l \in Rng(r.trail) THEN -1 ELSE 0

ClauseSatisfied(r, c) == \E l \in Rng(c) : Value(r, l) > 0

Alive(r) == DOMAIN r.lits \ r.garbage

\* Import a clause: variables are made room for in powers of two.
EnlargeVars(r, c) ==
  LET top == Max({0} \cup {VarOf(l) : l \in Rng(c)})
      n == CHOOSE k \in 1..Var : 2 ^ k > top /\ (k > 1 => 2 ^ (k - 1) <= top)
  IN IF c = <<>> THEN r ELSE [r EXCEPT !.vars = Max({@, 2 ^ n})]

LitSmaller(a, b) == VarOf(a) < VarOf(b) \/ (VarOf(a) = VarOf(b) /\ a < b)

\* Sorted and without duplicates: every literal is where its rank says.
Simplify(c) ==
  LET S == Rng(c)
      Rank(l) == Cardinality({m \in S : LitSmaller(m, l)})
  IN [i \in 1..Cardinality(S) |-> CHOOSE l \in S : Rank(l) = i - 1]

IsTautology(c) == \E l \in Rng(c) : -l \in Rng(c)

\* A clause that is found by its id, 0 if there is none.
Find(r, id) == Max({0} \cup {k \in Alive(r) : r.id[k] = id})

Swap(s, i, j) == [s EXCEPT ![i] = s[j], ![j] = s[i]]

\* Position i gets a literal that is not false, if one is left.
SwapIn(r, s, i) ==
  LET J == {j \in i + 1..Len(s) : Value(r, s[j]) >= 0}
  IN IF J = {} \/ Value(r, s[i]) >= 0 THEN s ELSE Swap(s, i, Min(J))

WatchClause(r, s, k) ==
  LET Watch(i) == [blit |-> s[3 - i], size |-> Len(s), clause |-> k]
  IN IF Len(s) < 2 \/ IsTautology(s) THEN r
     ELSE [r EXCEPT !.watches[s[1]] = Append(@, Watch(1)), !.watches[s[2]] = Append(@, Watch(2))]

\* Allocate a clause: tautologies are not watched, units are listed.  The
\* table is enlarged when it is full.
Insert(r, id, c) ==
  LET free == CHOOSE n \in 1..Cardinality(DOMAIN r.lits) + 1 :
                n \notin DOMAIN r.lits /\ 1..n - 1 \subseteq DOMAIN r.lits
      n == Cardinality(Alive(r))
      New(s, k) == [r EXCEPT !.lits = [j \in DOMAIN @ \cup {k} |-> IF j = k THEN s ELSE @[j]],
                             !.id = [j \in DOMAIN @ \cup {k} |-> IF j = k THEN id ELSE @[j]],
                             !.units = IF Len(s) = 1 THEN Append(@, k) ELSE @,
                             !.size = IF n = @ THEN Max({1, 2 * @}) ELSE @]
      Allocate(s, k) == [r |-> WatchClause(New(s, k), s, k), key |-> k]
  IN Only({Allocate(s, k) : s \in {SwapIn(r, SwapIn(r, c, 1), 2)}, k \in {free}})

-----------------------------------------------------------------------------
Assign(r, l, k) ==
  [r EXCEPT !.trail = Append(@, l), !.reason[VarOf(l)] = k]

\* Undo the trail down to its first n literals.
Backtrack(r, n) ==
  LET gone == {VarOf(r.trail[i]) : i \in n + 1..Len(r.trail)}
  IN [r EXCEPT !.trail = SubSeq(@, 1, n), !.next = n,
               !.reason = [v \in 1..Var |-> IF v \in gone THEN 0 ELSE @[v]]]

\* Clause k has no other literal left than l.
Forced(r, l, k) == IF Value(r, l) < 0 THEN [r EXCEPT !.conflict = k] ELSE Assign(r, l, k)

\* Visit a watch of the false literal -lit in a clause of three or more
\* literals: watch another literal that is not false, or else the clause is a
\* unit or a conflict.
VisitLong(st, lit, w) ==
  LET r == st.r
      s == r.lits[w.clause]
      other == IF s[1] = -lit THEN s[2] ELSE s[1]
      t == [s EXCEPT ![1] = other, ![2] = -lit]
      J == {j \in 3..Len(s) : Value(r, t[j]) >= 0}
      keep == [st EXCEPT !.kept = Append(@, w)]
  IN IF Value(r, other) > 0 THEN [st EXCEPT !.kept = Append(@, [w EXCEPT !.blit = other])]
     ELSE IF J # {}
     THEN [st EXCEPT !.r.lits[w.clause] = Swap(t, 2, Min(J)),
                     !.r.watches[t[Min(J)]] =
                        Append(@, [blit |-> -lit, size |-> w.size, clause |-> w.clause])]
     ELSE [keep EXCEPT !.r = Forced([r EXCEPT !.lits[w.clause] = t], other, w.clause)]

\* Visit a watch.  The builder skips garbage clauses first; the checker looks
\* at the clause only if it is not binary and so still propagates binary
\* clauses that were deleted.  A conflict ends the visit, the rest is kept.
Visit(builder, lit, st, w) ==
  LET keep == [st EXCEPT !.kept = Append(@, w)] IN
  IF st.r.conflict # 0 THEN keep
  ELSE IF builder /\ w.clause \in st.r.garbage THEN st
  ELSE IF Value(st.r, w.blit) > 0 THEN keep
  ELSE IF w.size = 2 THEN [keep EXCEPT !.r = Forced(st.r, w.blit, w.clause)]
  ELSE IF w.clause \in st.r.garbage THEN st
  ELSE VisitLong(st, lit, w)

PropagateLiteral(builder, r) ==
  LET lit == r.trail[r.next + 1]
      Step(st, w) == Only({Visit(builder, lit, x, w) : x \in {st}})
      end == FoldLeft(Step, [r |-> [r EXCEPT !.next = @ + 1], kept |-> <<>>], r.watches[-lit])
  IN [end.r EXCEPT !.watches[-lit] = end.kept]

\* Propagate literal by literal; no more than Var of them are on the trail.
PropagateTrail(builder, r) ==
  LET Complete(x) == x.conflict # 0 \/ x.next = Len(x.trail)
      After[n \in 0..Var] ==
        IF n = 0 THEN r
        ELSE Only({IF Complete(x) THEN x ELSE PropagateLiteral(builder, x) : x \in {After[n - 1]}})
  IN After[Var]

\* Assign the literals of unit clauses; garbage ones leave the list.
UnitPropagate(r) ==
  LET Step(x, k) == LET l == r.lits[k][1] IN
        IF x.conflict # 0 \/ k \in r.garbage \/ Value(x, l) > 0 THEN x ELSE Forced(x, l, k)
      end == FoldLeft(Step, r, r.units)
      last == IF end.conflict = 0 THEN Len(r.units)
              ELSE CHOOSE i \in 1..Len(r.units) : r.units[i] = end.conflict
      Kept(k) == k \notin r.garbage
  IN [end EXCEPT !.units = Sieve(SubSeq(@, 1, last), Kept) \o SubSeq(@, last + 1, Len(@))]

Propagate(builder, r) ==
  Only({PropagateTrail(builder, IF builder THEN UnitPropagate(x) ELSE x) : x \in {r}})

-----------------------------------------------------------------------------
MarkGarbage(r, k) == [r EXCEPT !.garbage = @ \cup {k}]

\* Free the garbage clauses after their watches are gone.
Collect(r) ==
  LET Restr(f) == [k \in DOMAIN f \ r.garbage |-> f[k]]
      Kept(w) == w.clause \notin r.garbage
      UnitKept(k) == k \notin r.garbage
  IN [r EXCEPT !.lits = Restr(@), !.id = Restr(@), !.garbage = {},
               !.watches = [l \in Lits |-> Sieve(@[l], Kept)],
               !.units = Sieve(@, UnitKept)]

\* There is so much garbage that it is collected.
Overflows(r) == 2 * Cardinality(r.garbage) > Max({r.size, r.vars})

\* A watch is of a clause that was not freed, and of one of the first two
\* literals of a live one; every live clause is watched by both.
NoDangling(r) ==
  /\ \A l \in Lits : \A w \in Rng(r.watches[l]) :
       w.clause \in DOMAIN r.lits
       /\ LET s == r.lits[w.clause] IN
          w.size = Len(s) /\ w.blit \in Rng(s) /\ (w.clause \in r.garbage \/ l \in {s[1], s[2]})
  /\ \A k \in Alive(r) : LET s == r.lits[k] IN
       Len(s) > 1 /\ ~IsTautology(s) =>
         \A i \in 1..2 : \E w \in Rng(r.watches[s[i]]) : w.clause = k
=============================================================================
