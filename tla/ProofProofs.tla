------------------------------ MODULE ProofProofs ------------------------------
(***************************************************************************)
(* Proofs about the proof checkers for every script, every set of          *)
(* candidates and every mode: what a checker lets pass follows from what   *)
(* it has, and so every clause the solver has follows from the clauses the *)
(* user added.                                                             *)
(*                                                                         *)
(* FoldLeft and recursive functions are unfolded where they are used: a    *)
(* lemma cannot have their step, an operator, as a parameter.  Each time G *)
(* or E is the iteration, E[0] its start and E[i] a step from E[i - 1].    *)
(***************************************************************************)
EXTENDS Proof, SequenceLemmas, FiniteSetTheorems

\* The greatest element of a set of numbers up to n.
LEMMA SubsetMax ==
  ASSUME NEW n \in Nat, NEW s \in SUBSET (1..n), s # {}
  PROVE  Max(s) \in s /\ \A j \in s : j <= Max(s)
<1> DEFINE T == {n - j : j \in s}
<1>1. T \subseteq Nat /\ T # {}
  <2>1. \A j \in s : n - j \in Nat
    OBVIOUS
  <2> QED
    BY <2>1
<1>2. PICK m \in T : \A k \in T : m <= k
  <2> HIDE DEF T
  <2> QED
    BY <1>1, NatLeast
<1>3. PICK x \in s : m = n - x
  BY <1>2
<1>4. \A j \in s : x >= j
  <2> SUFFICES ASSUME NEW j \in s PROVE x >= j
    OBVIOUS
  <2>1. m <= n - j
    BY <1>2
  <2> QED
    BY <1>3, <2>1
<1>5. Max(s) \in s /\ \A j \in s : Max(s) >= j
  BY <1>4 DEF Max
<1> QED
  BY <1>5

-----------------------------------------------------------------------------
(* Propagation in the checker: what it assigns follows from its clauses. *)

\* The state of the propagation is a record.
Fields == {"lits", "id", "garbage", "watches", "trail", "next", "reason", "units", "conflict",
           "size", "vars"}
Shaped(r) == r = [f \in Fields |-> r[f]]

Watch == [blit : Lits, size : Nat, clause : Nat \ {0}]

Distinct(s) == \A i, j \in DOMAIN s : s[i] = s[j] => i = j

\* A watch w in the list of literal l.
WatchOK(lits, garbage, l, w) ==
  /\ w.clause \in DOMAIN lits
  /\ w.size = Len(lits[w.clause]) /\ w.size >= 2
  /\ w.size = 2 => Rng(lits[w.clause]) \subseteq {l, w.blit}
  /\ w.clause \notin garbage => l \in {lits[w.clause][1], lits[w.clause][2]}

\* No clause in use is twice in the list ws.
Single(garbage, ws) ==
  \A i, j \in DOMAIN ws : ws[i].clause = ws[j].clause /\ ws[i].clause \notin garbage => i = j

ListOK(lits, garbage, l, ws) ==
  (\A i \in DOMAIN ws : WatchOK(lits, garbage, l, ws[i])) /\ Single(garbage, ws)

RupTyped(r) ==
  /\ Shaped(r)
  /\ r.lits \in [DOMAIN r.lits -> Seq(Lits)]
  /\ DOMAIN r.lits \subseteq Nat \ {0} /\ IsFiniteSet(DOMAIN r.lits)
  /\ \A k \in DOMAIN r.lits : Distinct(r.lits[k])
  /\ r.watches \in [Lits -> Seq(Watch)]
  /\ r.trail \in Seq(Lits) /\ r.next \in 0..Len(r.trail)

RupOK(r) ==
  /\ RupTyped(r)
  /\ \A l \in Lits : ListOK(r.lits, r.garbage, l, r.watches[l])

\* A set of literals that has one of v and -v for every variable.
Total(S) == S \subseteq Lits /\ \A l \in Lits : l \in S <=> -l \notin S

Hits(r, S) == \A k \in DOMAIN r.lits : Rng(r.lits[k]) \cap S # {}

\* t is s with more literals.
Extended(s, t) == Len(s) <= Len(t) /\ \A i \in 1..Len(s) : t[i] = s[i]

\* x has the clauses of r, maybe with their literals permuted, and no shorter trail.
Continues(r, x) ==
  /\ DOMAIN x.lits = DOMAIN r.lits /\ x.garbage = r.garbage
  /\ \A k \in DOMAIN r.lits : Rng(x.lits[k]) = Rng(r.lits[k])
  /\ Extended(r.trail, x.trail)

\* The literals of r's trail are true, and there is no conflict.
TrueTrail(r, S) == Rng(r.trail) \subseteq S /\ r.conflict = 0

-----------------------------------------------------------------------------
\* A length that is neither 0 nor 1 is at least 2.
LEMMA NotTwo ==
  \A n \in Nat : n >= 3 <=> n >= 2 /\ n # 2
OBVIOUS

\* Literals and their negations.
LEMMA LitFacts ==
  ASSUME NEW l \in Lits PROVE l \in Int /\ -l \in Lits /\ -(-l) = l /\ l # -l
BY DEF Lits, LitsOf

\* The elements of a longer sequence.
LEMMA AppendRange ==
  ASSUME NEW T, NEW s \in Seq(T), NEW e \in T
  PROVE  Rng(Append(s, e)) = Rng(s) \cup {e}
<1> DEFINE n == Len(s)  t == Append(s, e)
<1>1. n \in Nat /\ DOMAIN s = 1..n /\ DOMAIN t = 1..n + 1 /\ t[n + 1] = e
      /\ \A i \in 1..n : t[i] = s[i]
  OBVIOUS
<1> HIDE DEF n, t
<1>2. \A j \in 1..n + 1 : j \in 1..n \/ j = n + 1
  BY <1>1
<1>3. \A j \in 1..n : j \in 1..n + 1
  BY <1>1
<1>4. n + 1 \in 1..n + 1
  BY <1>1
<1> QED
  BY <1>1, <1>2, <1>3, <1>4 DEF Rng, t

\* Assigning a literal that follows keeps the trail true and leaves everything
\* else.
LEMMA AssignFacts ==
  ASSUME NEW r, RupOK(r), NEW l \in Lits, NEW k
  PROVE  LET x == Assign(r, l, k) IN
         /\ RupOK(x) /\ Continues(r, x) /\ Rng(x.trail) = Rng(r.trail) \cup {l}
         /\ x.conflict = r.conflict /\ x.next = r.next /\ Len(x.trail) = Len(r.trail) + 1
         /\ x.lits = r.lits /\ x.watches = r.watches /\ x.garbage = r.garbage
<1> DEFINE x == Assign(r, l, k)
<1>2. /\ x.lits = r.lits /\ x.watches = r.watches /\ x.garbage = r.garbage /\ x.conflict = r.conflict
      /\ x.next = r.next /\ x.trail = Append(r.trail, l) /\ Shaped(x)
  BY DEF Assign, RupOK, RupTyped, Shaped, Fields
<1> HIDE DEF x
<1>3. Append(r.trail, l) \in Seq(Lits) /\ Len(x.trail) = Len(r.trail) + 1 /\ Len(r.trail) \in Nat
      /\ (\A i \in 1..Len(r.trail) : x.trail[i] = r.trail[i]) /\ x.trail[Len(r.trail) + 1] = l
      /\ DOMAIN x.trail = 1..Len(r.trail) + 1 /\ DOMAIN r.trail = 1..Len(r.trail)
  BY <1>2 DEF RupOK, RupTyped
<1>4. Extended(r.trail, x.trail)
  BY <1>3 DEF Extended
<1>5. Rng(x.trail) = Rng(r.trail) \cup {l}
  <2> DEFINE n == Len(r.trail)
  <2>1. \A j \in 1..n + 1 : j \in 1..n \/ j = n + 1
    BY <1>3
  <2>2. \A j \in 1..n : j \in 1..n + 1
    BY <1>3
  <2>3. n + 1 \in 1..n + 1
    BY <1>3
  <2> QED
    BY <1>3, <2>1, <2>2, <2>3 DEF Rng
<1>6. RupOK(x)
  <2>1. RupTyped(x)
    BY <1>2, <1>3 DEF RupOK, RupTyped
  <2>2. \A m \in Lits : ListOK(x.lits, x.garbage, m, x.watches[m])
    BY <1>2 DEF RupOK
  <2> QED
    BY <2>1, <2>2 DEF RupOK
<1>7. Continues(r, x)
  BY <1>2, <1>4 DEF Continues
<1> QED
  BY <1>2, <1>3, <1>5, <1>6, <1>7 DEF x

\* Exchanging two literals.
LEMMA SwapFacts ==
  ASSUME NEW T, NEW s \in Seq(T), NEW i \in DOMAIN s, NEW j \in DOMAIN s
  PROVE  LET u == Swap(s, i, j) IN
         /\ u \in Seq(T) /\ Len(u) = Len(s) /\ DOMAIN u = DOMAIN s /\ Rng(u) = Rng(s)
         /\ u[i] = s[j] /\ u[j] = s[i] /\ \A m \in DOMAIN s \ {i, j} : u[m] = s[m]
         /\ Distinct(s) => Distinct(u)
<1> DEFINE u == Swap(s, i, j)
<1>1. u = [m \in DOMAIN s |-> IF m = j THEN s[i] ELSE IF m = i THEN s[j] ELSE s[m]]
  BY DEF Swap
<1>2. DOMAIN s = 1..Len(s) /\ Len(s) \in Nat /\ \A m \in DOMAIN s : s[m] \in T
  OBVIOUS
<1>3. DOMAIN u = DOMAIN s /\ u \in [1..Len(s) -> T]
  BY <1>1, <1>2
<1>4. u[i] = s[j] /\ u[j] = s[i] /\ \A m \in DOMAIN s \ {i, j} : u[m] = s[m]
  BY <1>1
<1> HIDE DEF u
<1>5. u \in Seq(T) /\ Len(u) = Len(s)
  BY <1>2, <1>3, FunctionIsSeq
<1>6. Rng(u) = Rng(s)
  <2>1. \A m \in DOMAIN s : u[m] \in Rng(s) /\ s[m] \in Rng(u)
    BY <1>3, <1>4 DEF Rng
  <2> QED
    BY <2>1, <1>3 DEF Rng
<1>7. Distinct(s) => Distinct(u)
  BY <1>3, <1>4 DEF Distinct
<1> QED
  BY <1>3, <1>4, <1>5, <1>6, <1>7 DEF u

\* The literal a, one of the first two, is put in the second place.
Turn(s, a) == LET other == IF s[1] = a THEN s[2] ELSE s[1] IN [s EXCEPT ![1] = other, ![2] = a]

SamePair(s, t) == {t[1], t[2]} = {s[1], s[2]}

\* Turning a clause so that its watches come first keeps its literals.
LEMMA TurnFacts ==
  ASSUME NEW T, NEW s \in Seq(T), Len(s) >= 2, Distinct(s), NEW a \in {s[1], s[2]}
  PROVE  LET t == Turn(s, a) IN
         /\ t \in Seq(T) /\ Len(t) = Len(s) /\ DOMAIN t = DOMAIN s /\ Rng(t) = Rng(s)
         /\ t[2] = a /\ t[1] = (IF s[1] = a THEN s[2] ELSE s[1]) /\ t[1] # a
         /\ SamePair(s, t) /\ \A m \in DOMAIN s \ {1, 2} : t[m] = s[m]
         /\ Distinct(t)
<1> DEFINE t == Turn(s, a)
<1>1. 1 \in DOMAIN s /\ 2 \in DOMAIN s /\ s[1] # s[2]
  BY DEF Distinct
<1>2. CASE s[1] = a
  <2>1. t = Swap(s, 1, 2)
    <3>1. s = [m \in DOMAIN s |-> s[m]]
      OBVIOUS
    <3> QED
      BY <1>1, <1>2, <3>1 DEF Turn, Swap
  <2> QED
    BY <1>1, <1>2, <2>1, SwapFacts, SMTT(40) DEF SamePair
<1>3. CASE s[1] # a
  <2>1. t = s
    <3>1. s = [m \in DOMAIN s |-> s[m]]
      OBVIOUS
    <3>2. t = [m \in DOMAIN s |-> IF m = 2 THEN s[2] ELSE IF m = 1 THEN s[1] ELSE s[m]]
      BY <1>1, <1>3 DEF Turn
    <3> QED
      BY <1>1, <1>3, <3>1, <3>2
  <2> QED
    BY <1>1, <1>3, <2>1 DEF SamePair
<1> QED
  BY <1>2, <1>3

\* What grows in two steps grows.
LEMMA ContinuesTransitive ==
  ASSUME NEW r, NEW x, NEW y, Continues(r, x), Continues(x, y), r.trail \in Seq(Lits),
         x.trail \in Seq(Lits), y.trail \in Seq(Lits)
  PROVE  Continues(r, y)
<1>1. DOMAIN y.lits = DOMAIN r.lits /\ y.garbage = r.garbage
      /\ \A k \in DOMAIN r.lits : Rng(y.lits[k]) = Rng(r.lits[k])
  BY DEF Continues
<1>2. Extended(r.trail, y.trail)
  <2>1. Len(r.trail) \in Nat /\ Len(x.trail) \in Nat /\ Len(y.trail) \in Nat
    OBVIOUS
  <2> QED
    BY <2>1 DEF Continues, Extended
<1> QED
  BY <1>1, <1>2 DEF Continues

\* The value of a literal and that of its negation.
LEMMA ValueFacts ==
  ASSUME NEW r, NEW l
  PROVE  /\ Value(r, l) > 0 <=> l \in Rng(r.trail)
         /\ Value(r, l) < 0 <=> l \notin Rng(r.trail) /\ -l \in Rng(r.trail)
         /\ Value(r, l) >= 0 <=> l \in Rng(r.trail) \/ -l \notin Rng(r.trail)
         /\ Value(r, l) \in Int
BY DEF Value

\* A clause that S hits has no other true literal than l when the others are
\* false: l is true in S.
LEMMA LastLiteral ==
  ASSUME NEW S, Total(S), NEW c \in SUBSET Lits, c \cap S # {}, NEW l,
         NEW T, T \subseteq S, \A m \in c \ {l} : -m \in T
  PROVE  l \in S
BY DEF Total

\* Only the trail, what is left to propagate and the conflict change.
LEMMA NewTrail ==
  ASSUME NEW r, RupOK(r), NEW x, Shaped(x), x.lits = r.lits, x.garbage = r.garbage,
         x.watches = r.watches, x.trail \in Seq(Lits), x.next \in 0..Len(x.trail)
  PROVE  RupOK(x)
<1>1. RupTyped(x)
  BY DEF RupOK, RupTyped
<1>2. \A m \in Lits : ListOK(x.lits, x.garbage, m, x.watches[m])
  BY DEF RupOK
<1> QED
  BY <1>1, <1>2 DEF RupOK

\* The clause k has no other literal than l left.
LEMMA ForceFacts ==
  ASSUME NEW r, RupTyped(r), NEW l \in Lits, NEW k
  PROVE  LET x == Forced(r, l, k) IN
         /\ RupTyped(x) /\ Continues(r, x) /\ x.next = r.next
         /\ x.lits = r.lits /\ x.watches = r.watches /\ x.garbage = r.garbage
         /\ \A S : Total(S) /\ TrueTrail(r, S) /\ l \in S => TrueTrail(x, S)
<1> DEFINE x == Forced(r, l, k)
           y == [r EXCEPT !.conflict = k]
<1>0. Continues(r, r)
  BY DEF Continues, Extended, RupTyped
<1>1. CASE Value(r, l) < 0
  <2>1. x = y
    BY <1>1 DEF Forced
  <2>2. /\ y.lits = r.lits /\ y.watches = r.watches /\ y.garbage = r.garbage
        /\ y.next = r.next /\ y.trail = r.trail /\ Shaped(y)
    BY DEF RupTyped, Shaped, Fields
  <2> HIDE DEF x, y
  <2>3. Continues(r, y)
    BY <2>2, <1>0 DEF Continues
  <2>4. RupTyped(y)
    BY <2>2 DEF RupTyped
  <2>5. ASSUME NEW S, Total(S), TrueTrail(r, S), l \in S PROVE FALSE
    BY <1>1, <2>5, ValueFacts DEF TrueTrail, Total
  <2> QED
    BY <2>1, <2>2, <2>3, <2>4, <2>5 DEF x
<1>2. CASE ~(Value(r, l) < 0)
  <2>1. x = Assign(r, l, k)
    BY <1>2 DEF Forced
  <2> HIDE DEF x
  <2>2. /\ x.lits = r.lits /\ x.watches = r.watches /\ x.garbage = r.garbage
        /\ x.conflict = r.conflict
        /\ x.next = r.next /\ x.trail = Append(r.trail, l) /\ Shaped(x)
    BY <2>1 DEF Assign, RupTyped, Shaped, Fields
  <2>3. x.trail \in Seq(Lits) /\ x.next \in 0..Len(x.trail)
        /\ Len(x.trail) = Len(r.trail) + 1 /\ Len(r.trail) \in Nat
        /\ (\A i \in 1..Len(r.trail) : x.trail[i] = r.trail[i])
    BY <2>2 DEF RupTyped
  <2>4. Continues(r, x)
    BY <2>2, <2>3 DEF Continues, Extended
  <2>5. RupTyped(x)
    BY <2>2, <2>3 DEF RupTyped
  <2>6. Rng(x.trail) = Rng(r.trail) \cup {l}
    BY <2>2, AppendRange DEF RupTyped
  <2>7. ASSUME NEW S, TrueTrail(r, S), l \in S PROVE TrueTrail(x, S)
    BY <2>2, <2>6, <2>7 DEF TrueTrail
  <2> QED
    BY <2>2, <2>4, <2>5, <2>7 DEF x
<1> QED
  BY <1>1, <1>2

\* While the watches ws of the literal neg are visited, from state r0 on: the
\* first i are done and those to keep are in st.kept.
VisitInv(r0, neg, ws, i, st) ==
  LET r == st.r  kept == st.kept IN
  /\ st = [f \in {"r", "kept"} |-> st[f]]
  /\ RupTyped(r) /\ kept \in Seq(Watch) /\ Continues(r0, r) /\ r.next = r0.next
  /\ r.watches[neg] = ws
  /\ \A l \in Lits \ {neg} : ListOK(r.lits, r.garbage, l, r.watches[l])
  /\ ListOK(r.lits, r.garbage, neg, kept)
  /\ \A j \in i + 1..Len(ws) : WatchOK(r.lits, r.garbage, neg, ws[j])
  /\ \A j \in DOMAIN kept : \E m \in 1..i : kept[j].clause = ws[m].clause
  /\ \A S : Total(S) /\ Hits(r0, S) /\ TrueTrail(r0, S) => TrueTrail(r, S)

\* What is given when the list of neg is visited.
Visiting(r0, neg, ws) ==
  /\ neg \in Lits /\ -neg \in Rng(r0.trail) /\ r0.trail \in Seq(Lits)
  /\ ws \in Seq(Watch) /\ Single(r0.garbage, ws)

\* A literal on a trail stays on what extends it.
LEMMA TrailGrows ==
  ASSUME NEW r, NEW x, Continues(r, x), r.trail \in Seq(Lits), x.trail \in Seq(Lits)
  PROVE  Rng(r.trail) \subseteq Rng(x.trail)
<1>1. DOMAIN r.trail = 1..Len(r.trail) /\ DOMAIN x.trail = 1..Len(x.trail)
      /\ Len(r.trail) \in Nat /\ Len(x.trail) \in Nat
  OBVIOUS
<1>2. \A i \in DOMAIN r.trail : i \in DOMAIN x.trail /\ x.trail[i] = r.trail[i]
  BY <1>1 DEF Continues, Extended
<1> QED
  BY <1>2 DEF Rng

\* A watch w1 of the clause of ws[i + 1] is kept.
LEMMA VisitKeeps ==
  ASSUME NEW r0, NEW neg, NEW ws \in Seq(Watch), Visiting(r0, neg, ws), NEW i \in Nat, i < Len(ws), NEW st,
         VisitInv(r0, neg, ws, i, st), NEW w1 \in Watch, w1.clause = ws[i + 1].clause,
         WatchOK(st.r.lits, st.r.garbage, neg, w1)
  PROVE  VisitInv(r0, neg, ws, i + 1, [st EXCEPT !.kept = Append(@, w1)])
<1> DEFINE x == [st EXCEPT !.kept = Append(@, w1)]
           kept == st.kept
           n == Len(kept)
           new == Append(kept, w1)
<1>1. x.r = st.r /\ x.kept = new /\ x = [f \in {"r", "kept"} |-> x[f]]
  BY DEF VisitInv
<1>2. kept \in Seq(Watch) /\ n \in Nat /\ DOMAIN kept = 1..n
  BY DEF VisitInv
<1>3. new \in Seq(Watch) /\ DOMAIN new = 1..n + 1 /\ new[n + 1] = w1
      /\ \A j \in 1..n : new[j] = kept[j]
  BY <1>2
<1>4. \A j \in DOMAIN new : j \in DOMAIN kept \/ j = n + 1
  BY <1>2, <1>3
<1> HIDE DEF x, new, n
<1>5. ws \in Seq(Watch) /\ Len(ws) \in Nat /\ DOMAIN ws = 1..Len(ws) /\ Single(r0.garbage, ws)
      /\ st.r.garbage = r0.garbage
  BY DEF Visiting, VisitInv, Continues
<1>6. \A j \in DOMAIN kept : \E m \in 1..i : kept[j].clause = ws[m].clause
  BY DEF VisitInv
<1>7. ListOK(st.r.lits, st.r.garbage, neg, kept)
  BY DEF VisitInv
<1>8. \A j \in DOMAIN kept : kept[j].clause # w1.clause \/ w1.clause \in r0.garbage
  <2> SUFFICES ASSUME NEW j \in DOMAIN kept, kept[j].clause = w1.clause, w1.clause \notin r0.garbage
               PROVE  FALSE
    OBVIOUS
  <2>1. PICK m \in 1..i : kept[j].clause = ws[m].clause
    BY <1>6
  <2>2. m \in DOMAIN ws /\ i + 1 \in DOMAIN ws /\ m # i + 1
    BY <1>5
  <2> QED
    BY <1>5, <2>1, <2>2 DEF Single
<1>9. Single(st.r.garbage, new)
  <2> SUFFICES ASSUME NEW j \in DOMAIN new, NEW m \in DOMAIN new, new[j].clause = new[m].clause,
                      new[j].clause \notin st.r.garbage
               PROVE  j = m
    BY DEF Single
  <2>1. CASE j \in DOMAIN kept /\ m \in DOMAIN kept
    BY <1>2, <1>3, <1>7, <2>1 DEF ListOK, Single
  <2>2. CASE j \notin DOMAIN kept /\ m \in DOMAIN kept
    BY <1>2, <1>3, <1>4, <1>5, <1>8, <2>2
  <2>3. CASE j \in DOMAIN kept /\ m \notin DOMAIN kept
    BY <1>2, <1>3, <1>4, <1>5, <1>8, <2>3
  <2>4. CASE j \notin DOMAIN kept /\ m \notin DOMAIN kept
    BY <1>4, <2>4
  <2> QED
    BY <2>1, <2>2, <2>3, <2>4
<1>10. \A j \in DOMAIN new : WatchOK(st.r.lits, st.r.garbage, neg, new[j])
  <2>1. \A j \in DOMAIN kept : WatchOK(st.r.lits, st.r.garbage, neg, kept[j])
    BY <1>7 DEF ListOK
  <2> QED
    BY <1>2, <1>3, <1>4, <2>1
<1>11. \A j \in DOMAIN new : \E m \in 1..i + 1 : new[j].clause = ws[m].clause
  <2> SUFFICES ASSUME NEW j \in DOMAIN new PROVE \E m \in 1..i + 1 : new[j].clause = ws[m].clause
    OBVIOUS
  <2>1. CASE j \in DOMAIN kept
    <3>1. PICK m \in 1..i : kept[j].clause = ws[m].clause
      BY <1>6, <2>1
    <3>2. m \in 1..i + 1
      OBVIOUS
    <3> QED
      BY <1>2, <1>3, <2>1, <3>1, <3>2
  <2>2. CASE j = n + 1
    <3>1. i + 1 \in 1..i + 1
      OBVIOUS
    <3> QED
      BY <1>3, <2>2, <3>1
  <2> QED
    BY <1>4, <2>1, <2>2
<1>12. \A j \in (i + 1) + 1..Len(ws) : j \in i + 1..Len(ws)
  BY <1>5
<1> QED
  <2>1. ListOK(x.r.lits, x.r.garbage, neg, x.kept)
    BY <1>1, <1>9, <1>10 DEF ListOK
  <2>2. \A j \in (i + 1) + 1..Len(ws) : WatchOK(x.r.lits, x.r.garbage, neg, ws[j])
    BY <1>1, <1>12 DEF VisitInv
  <2> QED
    BY <1>1, <1>3, <1>11, <2>1, <2>2 DEF VisitInv, x

\* The watch ws[i + 1] is dropped.
LEMMA VisitDrops ==
  ASSUME NEW r0, NEW neg, NEW ws \in Seq(Watch), Visiting(r0, neg, ws), NEW i \in Nat, i < Len(ws), NEW st,
         VisitInv(r0, neg, ws, i, st)
  PROVE  VisitInv(r0, neg, ws, i + 1, st)
<1>1. Len(ws) \in Nat
  BY DEF Visiting
<1>2. \A j \in (i + 1) + 1..Len(ws) : j \in i + 1..Len(ws)
  BY <1>1
<1>3. \A m \in 1..i : m \in 1..i + 1
  OBVIOUS
<1>4. \A j \in (i + 1) + 1..Len(ws) : WatchOK(st.r.lits, st.r.garbage, neg, ws[j])
  BY <1>2 DEF VisitInv
<1>5. \A j \in DOMAIN st.kept : \E m \in 1..i + 1 : st.kept[j].clause = ws[m].clause
  BY <1>3 DEF VisitInv
<1> QED
  BY <1>4, <1>5 DEF VisitInv

\* A clause with no other literal than l left than forces it.
LEMMA VisitForces ==
  ASSUME NEW r0, NEW neg, NEW ws, NEW i, NEW st, Visiting(r0, neg, ws),
         VisitInv(r0, neg, ws, i, st), NEW l \in Lits, NEW k,
         \A S : Total(S) /\ Hits(st.r, S) /\ TrueTrail(st.r, S) => l \in S
  PROVE  VisitInv(r0, neg, ws, i, [st EXCEPT !.r = Forced(st.r, l, k)])
<1> DEFINE y == Forced(st.r, l, k)
           x == [st EXCEPT !.r = y]
<1>1. x.r = y /\ x.kept = st.kept /\ x = [f \in {"r", "kept"} |-> x[f]]
  BY DEF VisitInv
<1>2. /\ RupTyped(y) /\ Continues(st.r, y) /\ y.next = st.r.next
      /\ y.lits = st.r.lits /\ y.watches = st.r.watches /\ y.garbage = st.r.garbage
      /\ \A S : Total(S) /\ TrueTrail(st.r, S) /\ l \in S => TrueTrail(y, S)
  BY ForceFacts DEF VisitInv
<1> HIDE DEF y, x
<1>3. Continues(r0, y)
  <2>1. r0.trail \in Seq(Lits) /\ st.r.trail \in Seq(Lits) /\ y.trail \in Seq(Lits)
        /\ Continues(r0, st.r)
    BY <1>2 DEF RupTyped, VisitInv, Visiting
  <2> QED
    BY <1>2, <2>1, ContinuesTransitive
<1>4. ASSUME NEW S, Total(S), Hits(r0, S), TrueTrail(r0, S) PROVE TrueTrail(y, S)
  <2>1. TrueTrail(st.r, S)
    BY <1>4 DEF VisitInv
  <2>2. Hits(st.r, S)
    BY <1>4 DEF VisitInv, Continues, Hits
  <2> QED
    BY <1>2, <1>4, <2>1, <2>2
<1>5. VisitInv(r0, neg, ws, i, x)
  BY <1>1, <1>2, <1>3, <1>4 DEF VisitInv
<1> QED
  BY <1>5 DEF x, y

\* The literals of clause k are exchanged: the watches of other clauses do not
\* notice it.
LEMMA WatchElsewhere ==
  ASSUME NEW lits, NEW garbage, NEW l, NEW w, WatchOK(lits, garbage, l, w), NEW k, NEW u,
         w.clause # k
  PROVE  WatchOK([lits EXCEPT ![k] = u], garbage, l, w)
BY DEF WatchOK

\* A watch of a clause whose literals are only turned stays a watch.
LEMMA WatchReordered ==
  ASSUME NEW lits, NEW garbage, NEW l, NEW w, WatchOK(lits, garbage, l, w), NEW k \in DOMAIN lits, NEW u,
         Len(u) = Len(lits[k]), Rng(u) = Rng(lits[k]),
         l \in {lits[k][1], lits[k][2]} => l \in {u[1], u[2]}
  PROVE  WatchOK([lits EXCEPT ![k] = u], garbage, l, w)
BY DEF WatchOK

\* The clause of a watch of neg is turned, so that neg is its second literal.
LEMMA VisitTurns ==
  ASSUME NEW r0, NEW neg, NEW ws \in Seq(Watch), Visiting(r0, neg, ws), NEW i, NEW st, VisitInv(r0, neg, ws, i, st),
         NEW k \in DOMAIN st.r.lits, NEW u, u \in Seq(Lits), Distinct(u),
         Len(u) = Len(st.r.lits[k]), Rng(u) = Rng(st.r.lits[k]),
         SamePair(st.r.lits[k], u)
  PROVE  VisitInv(r0, neg, ws, i, [st EXCEPT !.r.lits[k] = u])
<1> DEFINE x == [st EXCEPT !.r.lits[k] = u]
           y == [st.r EXCEPT !.lits[k] = u]
           lits == [st.r.lits EXCEPT ![k] = u]
<1>1. x.r = y /\ x.kept = st.kept /\ x = [f \in {"r", "kept"} |-> x[f]]
  BY DEF VisitInv
<1>2. /\ y.lits = lits /\ y.garbage = st.r.garbage /\ y.watches = st.r.watches
      /\ y.next = st.r.next /\ y.trail = st.r.trail /\ y.conflict = st.r.conflict /\ Shaped(y)
  BY DEF RupTyped, Shaped, Fields, VisitInv
<1>3. st.r.lits \in [DOMAIN st.r.lits -> Seq(Lits)] /\ \A j \in DOMAIN st.r.lits : Distinct(st.r.lits[j])
  BY DEF RupTyped, VisitInv
<1>4. lits \in [DOMAIN st.r.lits -> Seq(Lits)] /\ DOMAIN lits = DOMAIN st.r.lits
      /\ \A j \in DOMAIN lits : Distinct(lits[j]) /\ Rng(lits[j]) = Rng(st.r.lits[j])
  BY <1>3
<1>5. \A l, w : WatchOK(st.r.lits, st.r.garbage, l, w) => WatchOK(lits, st.r.garbage, l, w)
  <2> HIDE DEF x, y
  <2> SUFFICES ASSUME NEW l, NEW w, WatchOK(st.r.lits, st.r.garbage, l, w)
               PROVE  WatchOK(lits, st.r.garbage, l, w)
    OBVIOUS
  <2> QED
    BY WatchReordered DEF SamePair
<1> HIDE DEF y, x, lits
<1>6. RupTyped(y)
  BY <1>2, <1>4 DEF RupTyped, VisitInv
<1>7. Continues(r0, y)
  BY <1>2, <1>4 DEF Continues, VisitInv
<1>8. ASSUME NEW S, Total(S), Hits(r0, S), TrueTrail(r0, S) PROVE TrueTrail(y, S)
  BY <1>2, <1>8 DEF VisitInv, TrueTrail
<1>9. \A l \in Lits \ {neg} : ListOK(y.lits, y.garbage, l, y.watches[l])
  BY <1>2, <1>5 DEF VisitInv, ListOK
<1>10. ListOK(y.lits, y.garbage, neg, st.kept)
  BY <1>2, <1>5 DEF VisitInv, ListOK
<1>11. \A j \in i + 1..Len(ws) : WatchOK(y.lits, y.garbage, neg, ws[j])
  BY <1>2, <1>5 DEF VisitInv
<1>12. VisitInv(r0, neg, ws, i, x)
  BY <1>1, <1>2, <1>6, <1>7, <1>8, <1>9, <1>10, <1>11 DEF VisitInv
<1> QED
  BY <1>12 DEF x

\* A watch at the end of a list, of a clause that the list does not have.
LEMMA ListAppended ==
  ASSUME NEW lits, NEW garbage, NEW l, NEW ws \in Seq(Watch), ListOK(lits, garbage, l, ws),
         NEW w \in Watch, WatchOK(lits, garbage, l, w),
         \A i \in DOMAIN ws : ws[i].clause # w.clause
  PROVE  ListOK(lits, garbage, l, Append(ws, w))
<1> DEFINE n == Len(ws)
           new == Append(ws, w)
<1>1. n \in Nat /\ DOMAIN ws = 1..n
  OBVIOUS
<1>2. DOMAIN new = 1..n + 1 /\ new[n + 1] = w /\ \A j \in 1..n : new[j] = ws[j]
  BY <1>1
<1>3. \A j \in DOMAIN new : j \in DOMAIN ws \/ j = n + 1
  BY <1>1, <1>2
<1> HIDE DEF n, new
<1>4. \A j \in DOMAIN new : WatchOK(lits, garbage, l, new[j])
  BY <1>1, <1>2, <1>3 DEF ListOK
<1>5. Single(garbage, new)
  BY <1>1, <1>2, <1>3 DEF ListOK, Single
<1>6. ListOK(lits, garbage, l, new)
  BY <1>4, <1>5 DEF ListOK
<1> QED
  BY <1>6 DEF new

\* The clause s is turned into u, with another literal than neg among the first two.
Moved(s, u, neg) ==
  /\ u \in Seq(Lits) /\ Distinct(u) /\ Len(u) >= 3 /\ Len(u) = Len(s) /\ Rng(u) = Rng(s)
  /\ s[1] \in {u[1], neg} /\ s[2] \in {u[1], neg} /\ u[2] \notin {s[1], s[2]} /\ u[2] # neg

\* Clause k becomes u and its second literal watches it.
Relinked(st, k, u, w) == [st EXCEPT !.r.lits[k] = u, !.r.watches[u[2]] = Append(@, w)]

\* The watch ws[i + 1] of the clause k moves to the literal a, which takes the
\* place of neg among the first two.
LEMMA VisitMoves ==
  ASSUME NEW r0, NEW neg, NEW ws \in Seq(Watch), Visiting(r0, neg, ws), NEW i \in Nat, i < Len(ws), NEW st,
         VisitInv(r0, neg, ws, i, st), NEW k \in DOMAIN st.r.lits, k = ws[i + 1].clause,
         k \notin st.r.garbage,
         NEW u, Moved(st.r.lits[k], u, neg)
  PROVE  VisitInv(r0, neg, ws, i + 1,
           Relinked(st, k, u, [blit |-> neg, size |-> ws[i + 1].size, clause |-> k]))
<1> DEFINE w == [blit |-> neg, size |-> ws[i + 1].size, clause |-> k]
           x == [st EXCEPT !.r.lits[k] = u, !.r.watches[u[2]] = Append(@, w)]
           z == [st EXCEPT !.r.lits[k] = u]
           a == [st.r EXCEPT !.lits[k] = u]
           y == [a EXCEPT !.watches[u[2]] = Append(@, w)]
           lits == [st.r.lits EXCEPT ![k] = u]
           watches == [st.r.watches EXCEPT ![u[2]] = Append(@, w)]
           g == st.r.garbage
<1>1. x.r = y /\ x.kept = st.kept /\ x = [f \in {"r", "kept"} |-> x[f]]
  <2>1. z.r = a /\ z.kept = st.kept /\ z = [f \in {"r", "kept"} |-> z[f]]
    BY DEF VisitInv
  <2>2. x = [z EXCEPT !.r.watches[u[2]] = Append(@, w)]
    OBVIOUS
  <2> HIDE DEF x, z, a, w
  <2>3. x.r = [z.r EXCEPT !.watches[u[2]] = Append(@, w)] /\ x.kept = z.kept
        /\ x = [f \in {"r", "kept"} |-> x[f]]
    BY <2>1, <2>2
  <2> QED
    BY <2>1, <2>3
<1>2. /\ y.lits = lits /\ y.garbage = g /\ y.watches = watches
      /\ y.next = st.r.next /\ y.trail = st.r.trail /\ y.conflict = st.r.conflict /\ Shaped(y)
  BY DEF RupTyped, Shaped, Fields, VisitInv
<1>3. st.r.lits \in [DOMAIN st.r.lits -> Seq(Lits)] /\ \A j \in DOMAIN st.r.lits : Distinct(st.r.lits[j])
  BY DEF RupTyped, VisitInv
<1>4. lits \in [DOMAIN st.r.lits -> Seq(Lits)] /\ DOMAIN lits = DOMAIN st.r.lits /\ lits[k] = u
      /\ \A j \in DOMAIN lits : Distinct(lits[j]) /\ Rng(lits[j]) = Rng(st.r.lits[j])
  BY <1>3 DEF Moved
<1>5. neg \in Lits /\ ws \in Seq(Watch) /\ Len(ws) \in Nat /\ Single(g, ws)
      /\ i + 1 \in DOMAIN ws /\ ws[i + 1] \in Watch /\ DOMAIN ws = 1..Len(ws)
  <2>1. neg \in Lits /\ ws \in Seq(Watch) /\ Single(g, ws)
    BY DEF Visiting, VisitInv, Continues
  <2>2. Len(ws) \in Nat /\ DOMAIN ws = 1..Len(ws)
    BY <2>1
  <2>3. i + 1 \in DOMAIN ws
    BY <2>2
  <2> QED
    BY <2>1, <2>2, <2>3
<1>6. 1 \in DOMAIN u /\ 2 \in DOMAIN u /\ u[1] \in Lits /\ u[2] \in Lits /\ u[2] # neg
  <2>1. 1 \in DOMAIN u /\ 2 \in DOMAIN u
    BY SMTT(40) DEF Moved
  <2> QED
    BY <2>1 DEF Moved
<1>7. WatchOK(st.r.lits, g, neg, ws[i + 1])
  <2>1. i + 1 \in i + 1..Len(ws)
    BY <1>5
  <2> QED
    BY <2>1 DEF VisitInv
<1>8. w \in Watch
  BY <1>5 DEF Watch
<1>9. \A l \in Lits \ {neg} : \A v : WatchOK(st.r.lits, g, l, v) => WatchOK(lits, g, l, v)
  <2> SUFFICES ASSUME NEW l \in Lits \ {neg}, NEW v, WatchOK(st.r.lits, g, l, v)
               PROVE  WatchOK(lits, g, l, v)
    OBVIOUS
  <2>1. l \in {st.r.lits[k][1], st.r.lits[k][2]} => l \in {u[1], u[2]}
    BY DEF Moved
  <2>2. Len(u) = Len(st.r.lits[k]) /\ Rng(u) = Rng(st.r.lits[k])
    BY DEF Moved
  <2> QED
    BY <2>1, <2>2, WatchReordered
<1>10. \A v : v.clause # k /\ WatchOK(st.r.lits, g, neg, v) => WatchOK(lits, g, neg, v)
  BY WatchElsewhere
<1>11. st.r.watches \in [Lits -> Seq(Watch)] /\ DOMAIN st.r.watches = Lits
  BY DEF RupTyped, VisitInv
<1> HIDE DEF w
<1>12. watches \in [Lits -> Seq(Watch)] /\ watches[u[2]] = Append(st.r.watches[u[2]], w)
       /\ \A l \in Lits \ {u[2]} : watches[l] = st.r.watches[l]
  BY <1>6, <1>8, <1>11
<1>13. WatchOK(lits, g, u[2], w)
  <2>1. w.clause = k /\ w.size = ws[i + 1].size
    BY DEF w
  <2>2. k \in DOMAIN lits /\ w.size = Len(lits[k]) /\ w.size >= 3 /\ w.size # 2 /\ w.size >= 2
    <3>1. u \in Seq(Lits) /\ Len(u) >= 3 /\ Len(u) = Len(st.r.lits[k]) /\ Len(u) \in Nat
      BY SMTT(40) DEF Moved
    <3>2. ws[i + 1].size = Len(u)
      BY <1>7, <3>1 DEF WatchOK
    <3>3. k \in DOMAIN lits /\ lits[k] = u
      BY <1>4
    <3> DEFINE n == Len(u)
    <3>4. n >= 3 /\ n # 2 /\ n >= 2
      <4>1. n \in Nat /\ n >= 3
        BY <3>1
      <4> HIDE DEF n
      <4> QED
        BY <4>1, NotTwo
    <3>5. n = Len(lits[k]) /\ w.size = n
      BY <2>1, <3>2, <3>3
    <3> HIDE DEF lits, n
    <3> QED
      BY <3>3, <3>4, <3>5
  <2>3. u[2] \in {lits[k][1], lits[k][2]}
    BY <1>4
  <2> HIDE DEF lits
  <2> QED
    BY <2>1, <2>2, <2>3 DEF WatchOK
<1> HIDE DEF y, x, lits, watches
<1>14. RupTyped(y)
  BY <1>2, <1>4, <1>12 DEF RupTyped, VisitInv
<1>15. Continues(r0, y)
  BY <1>2, <1>4 DEF Continues, VisitInv
<1>16. ASSUME NEW S, Total(S), Hits(r0, S), TrueTrail(r0, S) PROVE TrueTrail(y, S)
  BY <1>2, <1>16 DEF VisitInv, TrueTrail
<1>17. \A l \in Lits \ {neg} : ListOK(lits, g, l, st.r.watches[l])
  BY <1>9 DEF VisitInv, ListOK
<1>18. ListOK(lits, g, u[2], watches[u[2]])
  <2>1. \A j \in DOMAIN st.r.watches[u[2]] : st.r.watches[u[2]][j].clause # k
    <3>1. ListOK(st.r.lits, g, u[2], st.r.watches[u[2]])
      BY <1>6 DEF VisitInv
    <3> QED
      BY <3>1 DEF ListOK, WatchOK, Moved
  <2>2. st.r.watches[u[2]] \in Seq(Watch) /\ w.clause = k
    BY <1>6, <1>11 DEF w
  <2> QED
    <3>1. ListOK(lits, g, u[2], st.r.watches[u[2]])
      BY <1>6, <1>17
    <3>2. ListOK(lits, g, u[2], Append(st.r.watches[u[2]], w))
      BY <1>8, <1>13, <2>1, <2>2, <3>1, ListAppended
    <3> QED
      BY <1>12, <3>2
<1>19. \A l \in Lits \ {neg} : ListOK(y.lits, y.garbage, l, y.watches[l])
  BY <1>2, <1>12, <1>17, <1>18
<1>20. \A j \in DOMAIN st.kept : st.kept[j].clause # k
  <2> SUFFICES ASSUME NEW j \in DOMAIN st.kept, st.kept[j].clause = k PROVE FALSE
    OBVIOUS
  <2>1. PICK m \in 1..i : st.kept[j].clause = ws[m].clause
    BY DEF VisitInv
  <2>2. m \in DOMAIN ws /\ m # i + 1
    BY <1>5
  <2> QED
    BY <1>5, <2>1, <2>2 DEF Single
<1>21. ListOK(y.lits, y.garbage, neg, st.kept)
  BY <1>2, <1>10, <1>20 DEF VisitInv, ListOK
<1>22. \A j \in (i + 1) + 1..Len(ws) : WatchOK(y.lits, y.garbage, neg, ws[j])
  <2> SUFFICES ASSUME NEW j \in (i + 1) + 1..Len(ws) PROVE WatchOK(lits, g, neg, ws[j])
    BY <1>2
  <2>1. j \in i + 1..Len(ws) /\ j \in DOMAIN ws /\ j # i + 1
    BY <1>5
  <2>2. ws[j].clause # k
    BY <1>5, <2>1 DEF Single
  <2>3. WatchOK(st.r.lits, g, neg, ws[j])
    BY <2>1 DEF VisitInv
  <2> QED
    BY <1>10, <2>2, <2>3
<1>23. \A j \in DOMAIN st.kept : \E m \in 1..i + 1 : st.kept[j].clause = ws[m].clause
  <2>1. \A m \in 1..i : m \in 1..i + 1
    OBVIOUS
  <2> QED
    BY <2>1 DEF VisitInv
<1>24. y.watches[neg] = ws
  BY <1>2, <1>5, <1>6, <1>12 DEF VisitInv
<1>25. VisitInv(r0, neg, ws, i + 1, x)
  <2>1. st.kept \in Seq(Watch) /\ y.next = r0.next
    BY <1>2 DEF VisitInv
  <2> QED
    BY <1>1, <1>14, <1>15, <1>16, <1>19, <1>21, <1>22, <1>23, <1>24, <2>1 DEF VisitInv
<1> QED
  BY <1>25 DEF x, w, Relinked

\* A value that is not that of an assigned literal is not above 0.
LEMMA ValueBelow ==
  ASSUME NEW r, NEW S, Total(S), TrueTrail(r, S), NEW l, ~(Value(r, l) >= 0)
  PROVE  -l \in S /\ l \notin Rng(r.trail)
BY ValueFacts DEF TrueTrail

\* A watch of a clause of three or more literals.
LEMMA VisitLongStep ==
  ASSUME NEW r0, NEW lit \in Lits, NEW neg, neg = -lit, NEW ws \in Seq(Watch), Visiting(r0, neg, ws),
         NEW i \in Nat, i < Len(ws), NEW st, VisitInv(r0, neg, ws, i, st),
         NEW w, w = ws[i + 1], w.size # 2, w.clause \notin st.r.garbage
  PROVE  VisitInv(r0, neg, ws, i + 1, VisitLong(st, lit, w))
<1> DEFINE r == st.r
           k == w.clause
           s == r.lits[k]
           other == IF s[1] = neg THEN s[2] ELSE s[1]
           t == Turn(s, neg)
           J == {j \in 3..Len(s) : Value(r, t[j]) >= 0}
           w1 == [w EXCEPT !.blit = other]
           keep == [st EXCEPT !.kept = Append(@, w)]
<1>1. ws \in Seq(Watch) /\ Len(ws) \in Nat
  BY DEF Visiting
<1>2. i + 1 \in DOMAIN ws /\ i + 1 \in i + 1..Len(ws)
  BY <1>1
<1>3. w \in Watch /\ w.clause = ws[i + 1].clause
  BY <1>1, <1>2
<1>4. WatchOK(r.lits, r.garbage, neg, w)
  BY <1>2 DEF VisitInv
<1>5. k \in DOMAIN r.lits /\ w.size = Len(s) /\ Len(s) >= 2 /\ neg \in {s[1], s[2]}
  BY <1>4 DEF WatchOK
<1>6. r.lits \in [DOMAIN r.lits -> Seq(Lits)] /\ s \in Seq(Lits) /\ Distinct(s)
  BY <1>5 DEF RupTyped, VisitInv
<1>7. Len(s) \in Nat /\ Len(s) >= 3 /\ 1 \in DOMAIN s /\ 2 \in DOMAIN s /\ s[1] \in Lits /\ s[2] \in Lits
  <2>1. Len(s) \in Nat /\ Len(s) >= 3
    <3>1. Len(s) \in Nat /\ Len(s) >= 2 /\ Len(s) # 2
      BY <1>5, <1>6
    <3> HIDE DEF s
    <3> QED
      BY <3>1, NotTwo
  <2> QED
    BY <1>6, <2>1
<1>8. /\ t \in Seq(Lits) /\ Len(t) = Len(s) /\ DOMAIN t = DOMAIN s /\ Rng(t) = Rng(s)
      /\ t[2] = neg /\ t[1] = other /\ t[1] # neg
      /\ SamePair(s, t) /\ \A m \in DOMAIN s \ {1, 2} : t[m] = s[m]
      /\ Distinct(t)
  <2>1. Len(s) >= 2 /\ neg \in {s[1], s[2]} /\ s \in Seq(Lits) /\ Distinct(s)
    BY <1>5, <1>6
  <2> HIDE DEF s, t
  <2>2. /\ t \in Seq(Lits) /\ Len(t) = Len(s) /\ DOMAIN t = DOMAIN s /\ Rng(t) = Rng(s)
        /\ t[2] = neg /\ t[1] = (IF s[1] = neg THEN s[2] ELSE s[1]) /\ t[1] # neg
        /\ SamePair(s, t) /\ \A m \in DOMAIN s \ {1, 2} : t[m] = s[m]
        /\ Distinct(t)
    <3>1. \A a \in {s[1], s[2]} : LET q == Turn(s, a) IN
            /\ q \in Seq(Lits) /\ Len(q) = Len(s) /\ DOMAIN q = DOMAIN s /\ Rng(q) = Rng(s)
            /\ q[2] = a /\ q[1] = (IF s[1] = a THEN s[2] ELSE s[1]) /\ q[1] # a
            /\ SamePair(s, q) /\ \A m \in DOMAIN s \ {1, 2} : q[m] = s[m]
            /\ Distinct(q)
      BY <2>1, TurnFacts
    <3> QED
      BY <2>1, <3>1 DEF t
  <2> QED
    BY <2>2
<1>9. VisitLong(st, lit, w) =
        IF Value(r, other) > 0 THEN [st EXCEPT !.kept = Append(@, w1)]
        ELSE IF J # {}
        THEN [st EXCEPT !.r.lits[k] = Swap(t, 2, Min(J)),
                        !.r.watches[t[Min(J)]] = Append(@, [blit |-> neg, size |-> w.size, clause |-> k])]
        ELSE [keep EXCEPT !.r = Forced([r EXCEPT !.lits[k] = t], other, k)]
  BY DEF VisitLong, Turn
<1>10. other \in Lits
  BY <1>7
<1> HIDE DEF s, t, other, w1, keep, J
<1>11. CASE Value(r, other) > 0
  <2>1. w1 \in Watch /\ w1.clause = k /\ w1.size = w.size
    BY <1>3, <1>10 DEF w1, Watch
  <2>2. WatchOK(r.lits, r.garbage, neg, w1)
    BY <1>4, <1>5, <1>7, <2>1 DEF WatchOK, s
  <2>3. VisitInv(r0, neg, ws, i + 1, [st EXCEPT !.kept = Append(@, w1)])
    BY <1>3, <2>1, <2>2, VisitKeeps
  <2> QED
    BY <1>9, <1>11, <2>3
<1>12. CASE ~(Value(r, other) > 0) /\ J # {}
  <2> DEFINE m == Min(J)
             u == Swap(t, 2, m)
  <2>1. m \in J
    <3>1. J \subseteq Nat
      BY <1>7 DEF J
    <3>2. \E n \in J : \A x \in J : n <= x
      BY <1>12, <3>1, NatLeast
    <3> QED
      BY <3>2 DEF Min
  <2> HIDE DEF m
  <2>2. m \in 3..Len(s) /\ m \in DOMAIN t /\ 2 \in DOMAIN t /\ 1 \in DOMAIN t /\ m # 2 /\ m # 1
    BY <1>7, <1>8, <2>1 DEF J
  <2>3. /\ u \in Seq(Lits) /\ Len(u) = Len(t) /\ DOMAIN u = DOMAIN t /\ Rng(u) = Rng(t)
        /\ u[2] = t[m] /\ u[1] = t[1] /\ Distinct(u)
    <3>1. t \in Seq(Lits) /\ Distinct(t)
      BY <1>8
    <3> HIDE DEF u
    <3>2. /\ u \in Seq(Lits) /\ Len(u) = Len(t) /\ DOMAIN u = DOMAIN t /\ Rng(u) = Rng(t)
          /\ u[2] = t[m] /\ \A j \in DOMAIN t \ {2, m} : u[j] = t[j]
      BY <2>2, <3>1, SwapFacts DEF u
    <3>3. Distinct(u)
      BY <2>2, <3>1, SwapFacts DEF u
    <3> QED
      BY <2>2, <3>2, <3>3
  <2>4. Moved(s, u, neg)
    <3>1. t[m] # t[1] /\ t[m] # t[2]
      BY <1>8, <2>2 DEF Distinct
    <3>2. s[1] \in {u[1], neg} /\ s[2] \in {u[1], neg} /\ u[2] \notin {s[1], s[2]} /\ u[2] # neg
      <4>1. s[1] \in {t[1], t[2]} /\ s[2] \in {t[1], t[2]}
        BY <1>8 DEF SamePair
      <4> QED
        BY <1>8, <2>3, <3>1, <4>1
    <3> QED
      BY <1>7, <1>8, <2>3, <3>2 DEF Moved
  <2>5. VisitLong(st, lit, w) =
          Relinked(st, k, u, [blit |-> neg, size |-> ws[i + 1].size, clause |-> k])
    BY <1>9, <1>12, <2>3 DEF m, Relinked
  <2> HIDE DEF u
  <2>6. Moved(st.r.lits[k], u, neg)
    BY <2>4 DEF s
  <2> QED
    BY <1>5, <2>5, <2>6, VisitMoves
<1>13. CASE ~(Value(r, other) > 0) /\ J = {}
  <2> DEFINE x == [st EXCEPT !.r.lits[k] = t]
             y == [x EXCEPT !.r = Forced(x.r, other, k)]
  <2>1. VisitInv(r0, neg, ws, i, x)
    <3>1. SamePair(st.r.lits[k], t) /\ Len(t) = Len(st.r.lits[k])
          /\ Rng(t) = Rng(st.r.lits[k])
      BY <1>8 DEF s
    <3> QED
      BY <1>5, <1>8, <3>1, VisitTurns
  <2>2. x.r = [r EXCEPT !.lits[k] = t] /\ x.kept = st.kept /\ DOMAIN x = {"r", "kept"}
    BY DEF VisitInv
  <2>3. x.r.lits = [r.lits EXCEPT ![k] = t] /\ x.r.trail = r.trail /\ x.r.garbage = r.garbage
        /\ x.r.conflict = r.conflict
    BY <2>2 DEF RupTyped, Shaped, Fields, VisitInv
  <2>4. x.r.lits[k] = t /\ k \in DOMAIN x.r.lits
    BY <1>5, <2>3
  <2> HIDE DEF x
  <2>5. ASSUME NEW S, Total(S), Hits(x.r, S), TrueTrail(x.r, S) PROVE other \in S
    <3>1. TrueTrail(r, S)
      BY <2>3, <2>5 DEF TrueTrail
    <3>2. Rng(t) \cap S # {} /\ Rng(t) \in SUBSET Lits
      BY <1>8, <2>4, <2>5, SMTT(40) DEF Hits, Rng
    <3>3. \A l \in Rng(t) \ {other} : -l \in S
      <4> SUFFICES ASSUME NEW j \in DOMAIN t, t[j] # other PROVE -t[j] \in S
        BY DEF Rng
      <4>1. DOMAIN t = 1..Len(s)
        BY <1>8
      <4>2. CASE j = 2
        <5>1. -neg \in Rng(r0.trail) /\ Rng(r0.trail) \subseteq Rng(r.trail)
          <6>1. Continues(r0, r) /\ r0.trail \in Seq(Lits) /\ r.trail \in Seq(Lits)
            BY DEF Visiting, VisitInv, RupTyped
          <6>2. -neg \in Rng(r0.trail)
            BY DEF Visiting
          <6> QED
            BY <6>1, <6>2, TrailGrows
        <5> QED
          BY <1>8, <3>1, <4>2, <5>1 DEF TrueTrail
      <4>3. CASE j # 2
        <5>1. j \in 3..Len(s)
          BY <1>7, <1>8, <4>1, <4>3
        <5>2. ~(Value(r, t[j]) >= 0)
          BY <1>13, <5>1 DEF J
        <5> QED
          BY <2>5, <3>1, <5>2, ValueBelow
      <4> QED
        BY <4>2, <4>3
    <3> QED
      BY <2>5, <3>2, <3>3, LastLiteral
  <2>6. VisitInv(r0, neg, ws, i, y)
    BY <1>10, <2>1, <2>5, VisitForces
  <2>7. VisitLong(st, lit, w) = [y EXCEPT !.kept = Append(@, w)]
    <3>1. VisitLong(st, lit, w) = [keep EXCEPT !.r = Forced(x.r, other, k)]
      BY <1>9, <1>13, <2>2
    <3>2. st = [f \in {"r", "kept"} |-> st[f]] /\ x = [f \in {"r", "kept"} |-> x[f]]
      BY <2>1 DEF VisitInv
    <3>3. keep = [f \in {"r", "kept"} |-> IF f = "r" THEN st.r ELSE Append(st.kept, w)]
      BY <3>2 DEF keep
    <3> DEFINE F == Forced(x.r, other, k)
    <3> HIDE DEF F
    <3>4. [keep EXCEPT !.r = F] = [f \in {"r", "kept"} |-> IF f = "r" THEN F ELSE Append(st.kept, w)]
      BY <3>3
    <3>5. [[x EXCEPT !.r = F] EXCEPT !.kept = Append(@, w)]
            = [f \in {"r", "kept"} |-> IF f = "r" THEN F ELSE Append(x.kept, w)]
      BY <3>2
    <3> QED
      BY <2>2, <3>1, <3>4, <3>5 DEF F
  <2>8. y.r = Forced(x.r, other, k)
    BY <2>2
  <2>9. WatchOK(y.r.lits, y.r.garbage, neg, w)
    BY <1>2, <2>6 DEF VisitInv
  <2> HIDE DEF y
  <2> QED
    BY <1>3, <2>6, <2>7, <2>9, VisitKeeps
<1> QED
  BY <1>11, <1>12, <1>13

\* The element of a set of one.
LEMMA OnlyOne ==
  ASSUME NEW x PROVE Only({x}) = x
BY DEF Only

\* The visits of a propagation are an iteration.
LEMMA VisitFold ==
  ASSUME NEW builder, NEW r, Len(r.watches[-r.trail[r.next + 1]]) \in Nat,
         DOMAIN r.watches[-r.trail[r.next + 1]] = 1..Len(r.watches[-r.trail[r.next + 1]])
  PROVE  LET lit == r.trail[r.next + 1]
             ws == r.watches[-lit]
         IN \E E : /\ E[0] = [r |-> [r EXCEPT !.next = @ + 1], kept |-> <<>>]
                   /\ \A i \in 1..Len(ws) : E[i] = Visit(builder, lit, E[i - 1], ws[i])
                   /\ PropagateLiteral(builder, r) = [E[Len(ws)].r EXCEPT !.watches[-lit] = E[Len(ws)].kept]
<1> DEFINE lit == r.trail[r.next + 1]
           ws == r.watches[-lit]
<1>0. PropagateLiteral(builder, r) =
        LET Step(st, w) == Only({Visit(builder, lit, x, w) : x \in {st}})
            end == FoldLeft(Step, [r |-> [r EXCEPT !.next = @ + 1], kept |-> <<>>], ws)
        IN [end.r EXCEPT !.watches[-lit] = end.kept]
  BY DEF PropagateLiteral
<1> DEFINE n == Len(ws)
           Step(st, w) == Only({Visit(builder, lit, x, w) : x \in {st}})
           a == [r |-> [r EXCEPT !.next = @ + 1], kept |-> <<>>]
           FF(gg, mm) == [ss \in SUBSET (1..mm) |->
                         IF ss = {} THEN a ELSE LET xx == Max(ss) IN Step(gg[ss \ {xx}], ws[xx])]
           G == CHOOSE gg : gg = [ss \in SUBSET DOMAIN ws |->
                         IF ss = {} THEN a ELSE LET xx == Max(ss) IN Step(gg[ss \ {xx}], ws[xx])]
           QQ == {mm \in Nat : \E gg : gg = FF(gg, mm)}
           E == [i \in 0..n |-> G[1..i]]
<1>1. n \in Nat /\ DOMAIN ws = 1..n
  OBVIOUS
<1>2. FoldLeft(Step, a, ws) = G[1..n]
  <2> HIDE DEF n
  <2> QED
    BY <1>1 DEF FoldLeft, MapThenFoldSet
<1> HIDE DEF Step, a, n
<1>3. 0 \in QQ
  <2> DEFINE gg == [ss \in SUBSET (1..0) |-> a]
  <2>1. \A ss \in SUBSET (1..0) : ss = {}
    OBVIOUS
  <2>2. gg = FF(gg, 0)
    BY <2>1
  <2> QED
    BY <2>2
<1>4. ASSUME NEW mm \in Nat, mm \in QQ PROVE mm + 1 \in QQ
  <2>1. PICK gg : gg = FF(gg, mm)
    BY <1>4
  <2> DEFINE kk == [ss \in SUBSET (1..mm + 1) |->
                     IF mm + 1 \in ss THEN Step(gg[ss \ {mm + 1}], ws[mm + 1]) ELSE gg[ss]]
  <2>2. ASSUME NEW ss \in SUBSET (1..mm + 1)
        PROVE  kk[ss] = IF ss = {} THEN a ELSE LET xx == Max(ss) IN Step(kk[ss \ {xx}], ws[xx])
    <3>1. \A j \in 1..mm + 1 : j = mm + 1 \/ j \in 1..mm
      OBVIOUS
    <3>2. mm + 1 \notin 1..mm /\ 1..mm \subseteq 1..mm + 1 /\ mm + 1 \in Nat
      OBVIOUS
    <3>3. CASE mm + 1 \in ss
      <4>1. Max(ss) \in ss /\ (\A j \in ss : j <= Max(ss)) /\ ss # {}
        BY <3>2, <3>3, SubsetMax
      <4>2. Max(ss) = mm + 1
        <5>1. Max(ss) \in 1..mm + 1 /\ mm + 1 <= Max(ss)
          BY <3>3, <4>1
        <5> HIDE DEF kk
        <5> QED
          BY <5>1
      <4>3. ss \ {mm + 1} \in SUBSET (1..mm)
        BY <3>1
      <4>4. ss \ {mm + 1} \in SUBSET (1..mm + 1) /\ mm + 1 \notin ss \ {mm + 1}
        BY <3>2, <4>3
      <4>5. kk[ss \ {mm + 1}] = gg[ss \ {mm + 1}]
        BY <4>4
      <4> QED
        BY <3>3, <4>1, <4>2, <4>5
    <3>4. CASE mm + 1 \notin ss
      <4>1. ss \in SUBSET (1..mm)
        BY <3>1, <3>4
      <4>2. kk[ss] = gg[ss] /\ gg[ss] = FF(gg, mm)[ss]
        BY <2>1, <3>4
      <4>3. CASE ss = {}
        BY <2>1, <4>1, <4>2, <4>3
      <4>4. CASE ss # {}
        <5>1. Max(ss) \in ss
          BY <4>1, <4>4, SubsetMax
        <5>2. ss \ {Max(ss)} \in SUBSET (1..mm + 1) /\ mm + 1 \notin ss \ {Max(ss)}
          BY <3>2, <3>4, <4>1
        <5>3. kk[ss \ {Max(ss)}] = gg[ss \ {Max(ss)}]
          BY <5>2
        <5>4. gg[ss] = Step(gg[ss \ {Max(ss)}], ws[Max(ss)])
          BY <2>1, <4>1, <4>4
        <5> QED
          BY <4>2, <4>4, <5>3, <5>4
      <4> QED
        BY <4>3, <4>4
    <3> QED
      BY <3>3, <3>4
  <2>3. kk = FF(kk, mm + 1)
    <3> HIDE DEF kk
    <3>1. kk = [ss \in SUBSET (1..mm + 1) |-> kk[ss]]
      BY DEF kk
    <3> QED
      BY <2>2, <3>1
  <2> HIDE DEF kk, FF
  <2>4. mm + 1 \in Nat /\ \E e : e = FF(e, mm + 1)
    BY <2>3
  <2> QED
    BY <2>4
<1>5. n \in QQ
  <2> HIDE DEF QQ
  <2> QED
    BY <1>1, <1>3, <1>4, NatSetInduction
<1>6. G = FF(G, n)
  <2>1. PICK gg : gg = FF(gg, n)
    BY <1>5
  <2>2. gg = [ss \in SUBSET DOMAIN ws |->
                         IF ss = {} THEN a ELSE LET xx == Max(ss) IN Step(gg[ss \ {xx}], ws[xx])]
    BY <1>1, <2>1
  <2>3. G = [ss \in SUBSET DOMAIN ws |->
                         IF ss = {} THEN a ELSE LET xx == Max(ss) IN Step(G[ss \ {xx}], ws[xx])]
    BY <2>2
  <2> HIDE DEF G
  <2> QED
    BY <1>1, <2>3
<1> HIDE DEF G
<1>7. E[0] = a /\ E[n] = G[1..n]
  <2>1. 1..0 = {} /\ 0 \in 0..n /\ n \in 0..n
    BY <1>1
  <2>2. G[{}] = a
    <3>1. {} \in SUBSET (1..n)
      OBVIOUS
    <3> QED
      BY <1>6, <3>1
  <2> QED
    BY <2>1, <2>2
<1>8. ASSUME NEW i \in 1..n PROVE E[i] = Step(E[i - 1], ws[i])
  <2>0. i \in Nat /\ 1 <= i /\ i <= n /\ n \in Nat
    BY <1>1
  <2>1. 1..i \in SUBSET (1..n) /\ i \in 1..i /\ 1..i # {} /\ i \in Nat
    <3>1. \A j \in 1..i : j \in 1..n
      BY <2>0
    <3>2. i \in 1..i
      BY <2>0
    <3> QED
      BY <2>0, <3>1, <3>2
  <2>2. Max(1..i) \in 1..i /\ \A j \in 1..i : j <= Max(1..i)
    BY <2>1, SubsetMax
  <2>3. Max(1..i) = i
    BY <2>1, <2>2
  <2>4. (1..i) \ {i} = 1..i - 1
    BY <2>1
  <2>5. G[1..i] = Step(G[1..i - 1], ws[i])
    BY <1>6, <2>1, <2>3, <2>4
  <2>6. i \in 0..n /\ i - 1 \in 0..n
    BY <1>1
  <2> QED
    BY <2>5, <2>6
<1> HIDE DEF E
<1>9. \A x, w : Step(x, w) = Visit(builder, lit, x, w)
  <2> SUFFICES ASSUME NEW x, NEW w PROVE Step(x, w) = Visit(builder, lit, x, w)
    OBVIOUS
  <2>1. {Visit(builder, lit, y, w) : y \in {x}} = {Visit(builder, lit, x, w)}
    OBVIOUS
  <2> QED
    BY <2>1, OnlyOne DEF Step
<1>10. \A i \in 1..n : E[i] = Visit(builder, lit, E[i - 1], ws[i])
  BY <1>8, <1>9
<1>11. FoldLeft(Step, a, ws) = E[n]
  BY <1>2, <1>7
<1>12. PropagateLiteral(builder, r) = [E[n].r EXCEPT !.watches[-lit] = E[n].kept]
  <2>1. PropagateLiteral(builder, r) = LET end == FoldLeft(Step, a, ws)
                                       IN [end.r EXCEPT !.watches[-lit] = end.kept]
    BY <1>0 DEF Step, a
  <2> QED
    BY <1>11, <2>1
<1> QED
  BY <1>7, <1>10, <1>12 DEF n, a

\* A visit of a watch keeps what holds between visits.
LEMMA VisitStep ==
  ASSUME NEW r0, NEW lit \in Lits, NEW neg, neg = -lit, NEW ws \in Seq(Watch), Visiting(r0, neg, ws),
         NEW i \in Nat, i < Len(ws), NEW st, VisitInv(r0, neg, ws, i, st)
  PROVE  VisitInv(r0, neg, ws, i + 1, Visit(FALSE, lit, st, ws[i + 1]))
<1> DEFINE w == ws[i + 1]
           keep == [st EXCEPT !.kept = Append(@, w)]
           F == Forced(st.r, w.blit, w.clause)
           y == [st EXCEPT !.r = F]
<1>1. i + 1 \in 1..Len(ws) /\ i + 1 \in i + 1..Len(ws)
  OBVIOUS
<1>2. w \in Watch /\ WatchOK(st.r.lits, st.r.garbage, neg, w)
  BY <1>1 DEF VisitInv
<1>3. Visit(FALSE, lit, st, w) =
        IF st.r.conflict # 0 THEN keep
        ELSE IF Value(st.r, w.blit) > 0 THEN keep
        ELSE IF w.size = 2 THEN [keep EXCEPT !.r = F]
        ELSE IF w.clause \in st.r.garbage THEN st
        ELSE VisitLong(st, lit, w)
  BY DEF Visit
<1>4. VisitInv(r0, neg, ws, i + 1, keep)
  <2> HIDE DEF w
  <2>1. w.clause = ws[i + 1].clause
    BY DEF w
  <2> QED
    BY <1>2, <2>1, VisitKeeps
<1>5. VisitInv(r0, neg, ws, i + 1, st)
  BY VisitDrops
<1>6. ASSUME w.size = 2 PROVE VisitInv(r0, neg, ws, i + 1, [keep EXCEPT !.r = F])
  <2>1. ASSUME NEW S, Total(S), Hits(st.r, S), TrueTrail(st.r, S) PROVE w.blit \in S
    <3>1. w.clause \in DOMAIN st.r.lits /\ Rng(st.r.lits[w.clause]) \subseteq {neg, w.blit}
      BY <1>2, <1>6 DEF WatchOK
    <3>2. Rng(st.r.lits[w.clause]) \cap S # {}
      BY <2>1, <3>1 DEF Hits
    <3>3. Continues(r0, st.r) /\ r0.trail \in Seq(Lits) /\ st.r.trail \in Seq(Lits)
      BY DEF Visiting, VisitInv, RupTyped
    <3>4. -neg \in S
      <4>1. -neg \in Rng(r0.trail) /\ Rng(r0.trail) \subseteq Rng(st.r.trail)
        BY <3>3, TrailGrows DEF Visiting
      <4> QED
        BY <2>1, <4>1 DEF TrueTrail
    <3>5. neg \notin S
      BY <2>1, <3>4 DEF Total
    <3> QED
      BY <3>1, <3>2, <3>5
  <2>2. w.blit \in Lits
    BY <1>2 DEF Watch
  <2> HIDE DEF w
  <2>3. VisitInv(r0, neg, ws, i, y)
    BY <2>1, <2>2, VisitForces
  <2>4. st = [f \in {"r", "kept"} |-> st[f]]
    BY DEF VisitInv
  <2> HIDE DEF F
  <2>5. y.r = F /\ [keep EXCEPT !.r = F] = [y EXCEPT !.kept = Append(@, w)]
    <3>1. keep = [f \in {"r", "kept"} |-> IF f = "r" THEN st.r ELSE Append(st.kept, w)]
      BY <2>4
    <3>2. y = [f \in {"r", "kept"} |-> IF f = "r" THEN F ELSE st.kept]
      BY <2>4
    <3> HIDE DEF keep, y
    <3>3. [keep EXCEPT !.r = F] = [f \in {"r", "kept"} |-> IF f = "r" THEN F ELSE Append(st.kept, w)]
      BY <3>1
    <3>4. [y EXCEPT !.kept = Append(@, w)] = [f \in {"r", "kept"} |-> IF f = "r" THEN F ELSE Append(st.kept, w)]
      BY <3>2
    <3> QED
      BY <3>2, <3>3, <3>4
  <2> HIDE DEF y
  <2>6. WatchOK(y.r.lits, y.r.garbage, neg, w)
    BY <1>1, <2>3 DEF VisitInv, w
  <2>7. w.clause = ws[i + 1].clause
    BY DEF w
  <2>8. VisitInv(r0, neg, ws, i + 1, [y EXCEPT !.kept = Append(@, w)])
    BY <1>2, <2>3, <2>6, <2>7, VisitKeeps
  <2> HIDE DEF keep
  <2> QED
    BY <2>5, <2>8
<1>7. ASSUME w.size # 2, w.clause \notin st.r.garbage PROVE VisitInv(r0, neg, ws, i + 1, VisitLong(st, lit, w))
  BY <1>7, VisitLongStep
<1> HIDE DEF w, keep, F
<1> QED
  BY <1>3, <1>4, <1>5, <1>6, <1>7 DEF w

\* What propagating a literal does to the clauses and the trail.
LEMMA PropagateLiteralFacts ==
  ASSUME NEW r, RupOK(r), r.next # Len(r.trail)
  PROVE  LET x == PropagateLiteral(FALSE, r) IN
         /\ RupOK(x) /\ Continues(r, x)
         /\ \A S : Total(S) /\ Hits(r, S) /\ TrueTrail(r, S) => TrueTrail(x, S)
<1> DEFINE lit == r.trail[r.next + 1]
           neg == -lit
           ws == r.watches[neg]
           r0 == [r EXCEPT !.next = @ + 1]
           a == [r |-> r0, kept |-> <<>>]
           x == PropagateLiteral(FALSE, r)
<1>2. r.trail \in Seq(Lits) /\ r.next \in 0..Len(r.trail) /\ Len(r.trail) \in Nat
      /\ r.watches \in [Lits -> Seq(Watch)]
  BY DEF RupOK, RupTyped
<1>3. r.next + 1 \in 1..Len(r.trail) /\ r.next + 1 \in 0..Len(r.trail)
  BY <1>2
<1>4. lit \in Lits /\ neg \in Lits /\ -neg = lit /\ lit \in Rng(r.trail)
  <2>1. lit \in Lits /\ lit \in Rng(r.trail)
    BY <1>2, <1>3 DEF Rng
  <2> QED
    BY <2>1, LitFacts
<1> HIDE DEF lit
<1>5. ws \in Seq(Watch)
  BY <1>2, <1>4
<1>6. /\ r0.lits = r.lits /\ r0.watches = r.watches /\ r0.garbage = r.garbage /\ r0.conflict = r.conflict
      /\ r0.next = r.next + 1 /\ r0.trail = r.trail /\ Shaped(r0)
  BY DEF RupOK, RupTyped, Shaped, Fields
<1> HIDE DEF r0, x
<1>7. RupOK(r0)
  BY <1>2, <1>3, <1>6, NewTrail
<1>9. PICK E : /\ E[0] = a
               /\ \A i \in 1..Len(ws) : E[i] = Visit(FALSE, lit, E[i - 1], ws[i])
               /\ x = [E[Len(ws)].r EXCEPT !.watches[neg] = E[Len(ws)].kept]
  <2> DEFINE no == FALSE
  <2> HIDE DEF no
  <2>1. /\ Len(r.watches[-r.trail[r.next + 1]]) \in Nat
        /\ DOMAIN r.watches[-r.trail[r.next + 1]] = 1..Len(r.watches[-r.trail[r.next + 1]])
    BY <1>5 DEF lit
  <2>2. \E E : /\ E[0] = [r |-> [r EXCEPT !.next = @ + 1], kept |-> <<>>]
               /\ \A i \in 1..Len(r.watches[-r.trail[r.next + 1]]) :
                    E[i] = Visit(no, r.trail[r.next + 1], E[i - 1], r.watches[-r.trail[r.next + 1]][i])
               /\ PropagateLiteral(no, r) =
                    [E[Len(r.watches[-r.trail[r.next + 1]])].r EXCEPT
                       !.watches[-r.trail[r.next + 1]] = E[Len(r.watches[-r.trail[r.next + 1]])].kept]
    BY <2>1, VisitFold, ZenonT(60)
  <2> QED
    BY <2>2 DEF r0, lit, x, no
<1> DEFINE end == E[Len(ws)]
<1>1. x = [end.r EXCEPT !.watches[neg] = end.kept]
  BY <1>9
<1> HIDE DEF end
<1>10. Visiting(r0, neg, ws)
  <2>1. ListOK(r.lits, r.garbage, neg, ws)
    BY <1>4 DEF RupOK
  <2> QED
    BY <1>2, <1>4, <1>5, <1>6, <2>1 DEF Visiting, ListOK
<1>11. VisitInv(r0, neg, ws, 0, a)
  <2>1. a.r = r0 /\ a.kept = <<>> /\ a = [f \in {"r", "kept"} |-> a[f]]
    OBVIOUS
  <2>2. Continues(r0, r0)
    BY <1>2, <1>6 DEF Continues, Extended
  <2>3. ListOK(r0.lits, r0.garbage, neg, <<>>)
    BY DEF ListOK, Single
  <2>4. \A j \in 0 + 1..Len(ws) : WatchOK(r0.lits, r0.garbage, neg, ws[j])
    BY <1>4, <1>5, <1>6, <1>7 DEF RupOK, ListOK
  <2>5. DOMAIN <<>> = {} /\ <<>> \in Seq(Watch)
    OBVIOUS
  <2> HIDE DEF a, neg
  <2>6. RupTyped(r0) /\ r0.watches[neg] = ws
        /\ \A l \in Lits \ {neg} : ListOK(r0.lits, r0.garbage, l, r0.watches[l])
    BY <1>4, <1>6, <1>7 DEF RupOK
  <2> HIDE DEF ws
  <2> QED
    BY <2>1, <2>2, <2>3, <2>4, <2>5, <2>6 DEF VisitInv
<1>12. VisitInv(r0, neg, ws, Len(ws), end)
  <2> HIDE DEF a, neg, ws
  <2> DEFINE P == {i \in Nat : i <= Len(ws) => VisitInv(r0, neg, ws, i, E[i])}
  <2>1. 0 \in P
    BY <1>9, <1>11
  <2>2. ASSUME NEW i \in Nat, i \in P PROVE i + 1 \in P
    <3> SUFFICES ASSUME i + 1 <= Len(ws) PROVE VisitInv(r0, neg, ws, i + 1, E[i + 1])
      OBVIOUS
    <3>1. Len(ws) \in Nat
      BY <1>5
    <3>2. i < Len(ws) /\ i <= Len(ws) /\ i + 1 \in 1..Len(ws) /\ (i + 1) - 1 = i
      BY <3>1
    <3>3. VisitInv(r0, neg, ws, i, E[i])
      BY <2>2, <3>2
    <3>4. E[i + 1] = Visit(FALSE, lit, E[i], ws[i + 1])
      BY <1>9, <3>2
    <3>5. neg = -lit
      BY DEF neg
    <3> QED
      BY <1>4, <1>5, <1>10, <3>2, <3>3, <3>4, <3>5, VisitStep
  <2>3. Len(ws) \in P
    <3>1. Len(ws) \in Nat
      BY <1>5
    <3> HIDE DEF P
    <3> QED
      BY <2>1, <2>2, <3>1, NatSetInduction
  <2> QED
    BY <2>3, <1>5 DEF end
<1> HIDE DEF a, neg, ws
<1>13. /\ RupTyped(end.r) /\ end.kept \in Seq(Watch) /\ Continues(r0, end.r)
       /\ (\A l \in Lits \ {neg} : ListOK(end.r.lits, end.r.garbage, l, end.r.watches[l]))
       /\ ListOK(end.r.lits, end.r.garbage, neg, end.kept)
       /\ \A S : Total(S) /\ Hits(r0, S) /\ TrueTrail(r0, S) => TrueTrail(end.r, S)
  BY <1>12 DEF VisitInv
<1>14. /\ x.lits = end.r.lits /\ x.garbage = end.r.garbage
       /\ x.watches = [end.r.watches EXCEPT ![neg] = end.kept]
       /\ x.next = end.r.next /\ x.trail = end.r.trail /\ x.conflict = end.r.conflict /\ Shaped(x)
  BY <1>1, <1>13 DEF RupTyped, Shaped, Fields
<1>15. x.watches \in [Lits -> Seq(Watch)] /\ x.watches[neg] = end.kept
       /\ \A l \in Lits \ {neg} : x.watches[l] = end.r.watches[l]
  BY <1>4, <1>13, <1>14 DEF RupTyped
<1>16. RupOK(x)
  <2>1. RupTyped(x)
    BY <1>13, <1>14, <1>15 DEF RupTyped
  <2>2. \A l \in Lits : ListOK(x.lits, x.garbage, l, x.watches[l])
    BY <1>13, <1>14, <1>15
  <2> QED
    BY <2>1, <2>2 DEF RupOK
<1>17. Continues(r, x)
  BY <1>6, <1>13, <1>14 DEF Continues
<1>18. ASSUME NEW S, Total(S), Hits(r, S), TrueTrail(r, S) PROVE TrueTrail(x, S)
  <2>1. Hits(r0, S) /\ TrueTrail(r0, S)
    BY <1>6, <1>18 DEF Hits, TrueTrail
  <2>2. TrueTrail(end.r, S)
    BY <1>13, <1>18, <2>1
  <2> QED
    BY <1>14, <2>2 DEF TrueTrail
<1> QED
  BY <1>16, <1>17, <1>18 DEF x

\* What propagation does to a state r.
Sound(r, x) ==
  /\ RupOK(x) /\ Continues(r, x)
  /\ \A S : Total(S) /\ Hits(r, S) /\ TrueTrail(r, S) => TrueTrail(x, S)

\* Two sound changes after each other are one.
LEMMA SoundTransitive ==
  ASSUME NEW r, NEW x, NEW y, Sound(r, x), RupOK(r), Sound(x, y) PROVE Sound(r, y)
<1>1. \A S : Hits(r, S) => Hits(x, S)
  BY DEF Sound, Continues, Hits
<1>2. Continues(r, y)
  BY ContinuesTransitive DEF Sound, RupOK, RupTyped
<1> QED
  BY <1>1, <1>2 DEF Sound

\* Propagation keeps the clauses, and what it assigns follows from them.
LEMMA PropagateFacts ==
  ASSUME NEW r, RupOK(r), Var \in Nat
  PROVE  Sound(r, Propagate(FALSE, r))
<1>0. Propagate(FALSE, r) = PropagateTrail(FALSE, r)
  <2>1. {PropagateTrail(FALSE, IF FALSE THEN UnitPropagate(x) ELSE x) : x \in {r}} = {PropagateTrail(FALSE, r)}
    OBVIOUS
  <2> QED
    BY <2>1, OnlyOne DEF Propagate
<1>1. Var \in Nat
  OBVIOUS
<1> DEFINE Complete(x) == x.conflict # 0 \/ x.next = Len(x.trail)
           Next(x) == IF Complete(x) THEN x ELSE PropagateLiteral(FALSE, x)
<1> DEFINE Step(z, n) == Only({IF Complete(x) THEN x ELSE PropagateLiteral(FALSE, x) : x \in {z}})
           a == r
           FF(gg, mm) == [i \in 0..mm |-> IF i = 0 THEN a ELSE Step(gg[i - 1], i)]
           G == CHOOSE gg : gg = FF(gg, Var)
           QQ == {mm \in Nat : \E gg : gg = FF(gg, mm)}
<1> HIDE DEF Step, a
<1>3. 0 \in QQ
  <2> DEFINE gg == [i \in 0..0 |-> a]
  <2>1. gg = FF(gg, 0)
    OBVIOUS
  <2> QED
    BY <2>1
<1>4. ASSUME NEW mm \in Nat, mm \in QQ PROVE mm + 1 \in QQ
  <2>1. PICK gg : gg = FF(gg, mm)
    BY <1>4
  <2> DEFINE kk == [i \in 0..mm + 1 |-> IF i = mm + 1 THEN Step(gg[mm], mm + 1) ELSE gg[i]]
  <2>2. ASSUME NEW i \in 0..mm + 1 PROVE kk[i] = IF i = 0 THEN a ELSE Step(kk[i - 1], i)
    <3>1. CASE i = 0
      BY <2>1, <3>1
    <3>2. CASE i # 0 /\ i = mm + 1
      <4>1. kk[i] = Step(gg[mm], mm + 1) /\ kk[i - 1] = gg[mm]
        BY <3>2
      <4> QED
        BY <3>2, <4>1
    <3>3. CASE i # 0 /\ i # mm + 1
      <4>1. i \in 0..mm /\ i - 1 \in 0..mm + 1 /\ i - 1 # mm + 1
        BY <3>3
      <4>2. kk[i] = gg[i] /\ kk[i - 1] = gg[i - 1]
        BY <3>3, <4>1
      <4>3. gg[i] = Step(gg[i - 1], i)
        BY <2>1, <3>3, <4>1
      <4> QED
        BY <3>3, <4>2, <4>3
    <3> QED
      BY <3>1, <3>2, <3>3
  <2>3. kk = FF(kk, mm + 1)
    <3> HIDE DEF kk
    <3>1. kk = [i \in 0..mm + 1 |-> kk[i]]
      BY DEF kk
    <3> QED
      BY <2>2, <3>1
  <2> HIDE DEF kk, FF
  <2>4. mm + 1 \in Nat /\ \E e : e = FF(e, mm + 1)
    BY <2>3
  <2> QED
    BY <2>4
<1>5. Var \in QQ
  <2> HIDE DEF QQ
  <2> QED
    BY <1>1, <1>3, <1>4, NatSetInduction
<1>6. G = FF(G, Var)
  <2>1. PICK gg : gg = FF(gg, Var)
    BY <1>5
  <2> QED
    BY <2>1
<1> HIDE DEF G
<1>7. G[0] = a
  <2>1. 0 \in 0..Var
    BY <1>1
  <2> QED
    BY <1>6, <2>1
<1>8. ASSUME NEW i \in 1..Var PROVE G[i] = Step(G[i - 1], i)
  <2>1. i \in 0..Var /\ i # 0
    BY <1>1
  <2> QED
    BY <1>6, <2>1
<1>9. PropagateTrail(FALSE, r) = G[Var]
  BY DEF PropagateTrail, G, Step, a
<1>10. \A x, n : Step(x, n) = Next(x)
  <2> SUFFICES ASSUME NEW x, NEW n PROVE Step(x, n) = Next(x)
    OBVIOUS
  <2>1. {IF Complete(y) THEN y ELSE PropagateLiteral(FALSE, y) : y \in {x}} = {Next(x)}
    OBVIOUS
  <2> QED
    BY <2>1, OnlyOne DEF Step
<1>11. ASSUME NEW x, RupOK(x) PROVE Sound(x, Next(x))
  <2>1. CASE Complete(x)
    <3>1. Continues(x, x)
      BY <1>11 DEF Continues, Extended, RupOK, RupTyped
    <3> QED
      BY <1>11, <2>1, <3>1 DEF Sound
  <2>2. CASE ~Complete(x)
    <3>1. Next(x) = PropagateLiteral(FALSE, x) /\ x.next # Len(x.trail)
      BY <2>2
    <3> QED
      BY <1>11, <3>1, PropagateLiteralFacts DEF Sound
  <2> QED
    BY <2>1, <2>2
<1> HIDE DEF Next
<1>12. \A i \in 0..Var : Sound(r, G[i])
  <2> DEFINE P == {i \in Nat : i <= Var => Sound(r, G[i])}
  <2>1. 0 \in P
    <3>1. Continues(r, r)
      BY DEF Continues, Extended, RupOK, RupTyped
    <3> QED
      BY <1>7, <3>1 DEF Sound, a
  <2>2. ASSUME NEW i \in Nat, i \in P PROVE i + 1 \in P
    <3> SUFFICES ASSUME i + 1 <= Var PROVE Sound(r, G[i + 1])
      OBVIOUS
    <3>1. Sound(r, G[i]) /\ i + 1 \in 1..Var /\ (i + 1) - 1 = i
      BY <2>2
    <3>2. G[i + 1] = Next(G[i])
      BY <1>8, <1>10, <3>1
    <3>3. Sound(G[i], G[i + 1])
      BY <1>11, <3>1, <3>2 DEF Sound
    <3> QED
      BY <3>1, <3>3, SoundTransitive
  <2>3. \A i \in Nat : i \in P
    <3> HIDE DEF P
    <3> QED
      BY <2>1, <2>2, NatSetInduction
  <2> QED
    BY <2>3
<1>13. Var \in 0..Var
  OBVIOUS
<1> QED
  BY <1>0, <1>9, <1>12, <1>13

-----------------------------------------------------------------------------
(* Sorted clauses, sequences in order and the watches of a new clause. *)

\* A strict total order on S, as a set of pairs.
Orders(Q, S) ==
  /\ \A a \in S : <<a, a>> \notin Q
  /\ \A a, b, c \in S : <<a, b>> \in Q /\ <<b, c>> \in Q => <<a, c>> \in Q
  /\ \A a, b \in S : a # b => <<a, b>> \in Q \/ <<b, a>> \in Q

\* What is below a, and S from the bottom to the top.
Beneath(Q, S, a) == {m \in S : <<m, a>> \in Q}
InOrder(Q, S) == [i \in 1..Cardinality(S) |-> CHOOSE l \in S : Cardinality(Beneath(Q, S, l)) = i - 1]

\* The ranks of the elements of S are 0, 1, ...
LEMMA RankOnto ==
  ASSUME NEW S, IsFiniteSet(S), NEW Q, Orders(Q, S)
  PROVE  /\ Cardinality(S) \in Nat
         /\ \A a \in S : Cardinality(Beneath(Q, S, a)) \in 0..Cardinality(S) - 1
         /\ \A a, b \in S : Cardinality(Beneath(Q, S, a)) = Cardinality(Beneath(Q, S, b)) => a = b
         /\ \A i \in 0..Cardinality(S) - 1 : \E a \in S : Cardinality(Beneath(Q, S, a)) = i
<1> DEFINE n == Cardinality(S)
           rank == [a \in S |-> Cardinality(Beneath(Q, S, a))]
<1>1. n \in Nat
  BY FS_CardinalityType
<1>2. ASSUME NEW a \in S PROVE IsFiniteSet(Beneath(Q, S, a)) /\ rank[a] \in 0..n - 1
  <2>1. Beneath(Q, S, a) \in SUBSET S /\ a \notin Beneath(Q, S, a)
    BY DEF Orders, Beneath
  <2>2. IsFiniteSet(Beneath(Q, S, a)) /\ Cardinality(Beneath(Q, S, a)) <= n /\ Cardinality(Beneath(Q, S, a)) # n
    BY <2>1, FS_Subset
  <2>3. Cardinality(Beneath(Q, S, a)) \in Nat
    BY <2>2, FS_CardinalityType
  <2> HIDE DEF n
  <2> QED
    BY <1>1, <2>2, <2>3
<1>3. ASSUME NEW a \in S, NEW b \in S, <<a, b>> \in Q PROVE rank[a] # rank[b]
  <2>1. Beneath(Q, S, a) \in SUBSET Beneath(Q, S, b)
    BY <1>3 DEF Orders, Beneath
  <2>2. a \in Beneath(Q, S, b) /\ a \notin Beneath(Q, S, a)
    BY <1>3 DEF Orders, Beneath
  <2>3. IsFiniteSet(Beneath(Q, S, b))
    BY <1>2
  <2>4. Cardinality(Beneath(Q, S, b)) = Cardinality(Beneath(Q, S, a)) => Beneath(Q, S, b) = Beneath(Q, S, a)
    BY <2>1, <2>3, FS_Subset
  <2> QED
    BY <2>2, <2>4
<1>4. \A a, b \in S : rank[a] = rank[b] => a = b
  <2> HIDE DEF rank
  <2> QED
    BY <1>3 DEF Orders
<1>5. \A i \in 0..n - 1 : \E a \in S : rank[a] = i
  <2>0. \A a \in S : rank[a] \in 0..n - 1
    BY <1>2
  <2> DEFINE T == 0..n - 1
  <2>1. rank \in [S -> T]
    BY <2>0
  <2> HIDE DEF n, rank
  <2>2. rank \in Injection(S, T)
    BY <1>4, <2>1 DEF Injection, IsInjective
  <2>3. IsFiniteSet(T) /\ Cardinality(T) = n
    <3>1. 0 \in Int /\ n - 1 \in Int
      BY <1>1
    <3>2. IsFiniteSet(0..n - 1) /\ Cardinality(0..n - 1) = IF 0 > n - 1 THEN 0 ELSE (n - 1) - 0 + 1
      BY <3>1, FS_Interval
    <3> QED
      BY <1>1, <3>2
  <2> HIDE DEF T
  <2>4. rank \in Surjection(S, T)
    BY <2>2, <2>3, FS_Injection DEF n
  <2> QED
    BY <2>4 DEF Surjection, T
<1> QED
  BY <1>1, <1>2, <1>4, <1>5

\* A finite set in the order of Q is a sequence of its elements without
\* repeated ones.
LEMMA InOrderFacts ==
  ASSUME NEW S, IsFiniteSet(S), NEW Q, Orders(Q, S)
  PROVE  /\ InOrder(Q, S) \in Seq(S) /\ Len(InOrder(Q, S)) = Cardinality(S)
         /\ Rng(InOrder(Q, S)) = S /\ Distinct(InOrder(Q, S))
<1> DEFINE n == Cardinality(S)
           rank == [a \in S |-> Cardinality(Beneath(Q, S, a))]
           s == InOrder(Q, S)
<1>1. /\ n \in Nat /\ \A a \in S : rank[a] \in 0..n - 1
      /\ \A a, b \in S : rank[a] = rank[b] => a = b
      /\ \A i \in 0..n - 1 : \E a \in S : rank[a] = i
  BY RankOnto
<1>2. ASSUME NEW i \in 1..n PROVE s[i] \in S /\ rank[s[i]] = i - 1
  <2>1. s[i] = CHOOSE l \in S : Cardinality(Beneath(Q, S, l)) = i - 1
    BY DEF InOrder
  <2>2. i - 1 \in 0..n - 1
    BY <1>1
  <2>3. \E l \in S : Cardinality(Beneath(Q, S, l)) = i - 1
    BY <1>1, <2>2
  <2>4. s[i] \in S /\ Cardinality(Beneath(Q, S, s[i])) = i - 1
    BY <2>1, <2>3
  <2> QED
    BY <2>4
<1>0. DOMAIN s = 1..n /\ s = [i \in 1..n |-> s[i]]
  BY DEF InOrder
<1> HIDE DEF rank, s
<1>3. DOMAIN s = 1..n /\ s \in [1..n -> S]
  BY <1>0, <1>2
<1>4. s \in Seq(S) /\ Len(s) = n
  BY <1>1, <1>3, FunctionIsSeq
<1>5. Rng(s) = S
  <2>1. ASSUME NEW a \in S PROVE a \in Rng(s)
    <3>1. rank[a] \in 0..n - 1 /\ rank[a] + 1 \in 1..n /\ (rank[a] + 1) - 1 = rank[a]
      BY <1>1
    <3>2. s[rank[a] + 1] = a
      BY <1>1, <1>2, <3>1
    <3> QED
      BY <1>3, <3>1, <3>2 DEF Rng
  <2> QED
    BY <1>2, <1>3, <2>1 DEF Rng
<1>6. Distinct(s)
  <2> SUFFICES ASSUME NEW i \in 1..n, NEW j \in 1..n, s[i] = s[j] PROVE i = j
    BY <1>3 DEF Distinct
  <2>1. i - 1 = j - 1
    BY <1>2
  <2> QED
    BY <1>1, <2>1
<1> QED
  BY <1>4, <1>5, <1>6 DEF s

\* There are finitely many literals.
LEMMA FiniteLits ==
  ASSUME Var \in Nat PROVE IsFiniteSet(Lits) /\ \A S \in SUBSET Lits : IsFiniteSet(S)
<1>1. Lits \in SUBSET (-Var..Var)
  BY DEF Lits, LitsOf
<1>2. -Var \in Int /\ Var \in Int
  OBVIOUS
<1>3. IsFiniteSet(-Var..Var)
  BY <1>2, FS_Interval
<1> QED
  BY <1>1, <1>3, FS_Subset

\* The literals of a clause, sorted and without duplicates.
LEMMA SimplifyFacts ==
  ASSUME Var \in Nat, NEW c \in Seq(Lits)
  PROVE  Simplify(c) \in Seq(Lits) /\ Rng(Simplify(c)) = Rng(c) /\ Distinct(Simplify(c))
<1> DEFINE S == Rng(c)
           Q == {p \in S \X S : LitSmaller(p[1], p[2])}
<1>1. S \in SUBSET Lits
  BY DEF Rng
<1>2. IsFiniteSet(S)
  BY <1>1, FiniteLits
<1>3. \A a, b \in S : <<a, b>> \in Q <=> LitSmaller(a, b)
  OBVIOUS
<1>4. Orders(Q, S)
  <2>1. \A a \in S : a \in Int /\ VarOf(a) \in Int /\ (a = VarOf(a) \/ a = -VarOf(a))
    BY <1>1 DEF Lits, LitsOf, VarOf
  <2> HIDE DEF Q, S
  <2>2. \A a \in S : ~LitSmaller(a, a)
    BY <2>1 DEF LitSmaller
  <2>3. \A a, b, e \in S : LitSmaller(a, b) /\ LitSmaller(b, e) => LitSmaller(a, e)
    BY <2>1 DEF LitSmaller
  <2>4. \A a, b \in S : a # b => LitSmaller(a, b) \/ LitSmaller(b, a)
    BY <2>1 DEF LitSmaller
  <2> QED
    BY <1>3, <2>2, <2>3, <2>4 DEF Orders
<1>5. Simplify(c) = InOrder(Q, S)
  <2> DEFINE L(l) == {m \in S : LitSmaller(m, l)}
  <2>1. \A l \in S : L(l) = Beneath(Q, S, l)
    BY <1>3 DEF Beneath
  <2>2. Simplify(c) = [i \in 1..Cardinality(S) |-> CHOOSE l \in S : Cardinality(L(l)) = i - 1]
    BY DEF Simplify
  <2> HIDE DEF Q, S, L
  <2>3. \A i : (CHOOSE l \in S : Cardinality(L(l)) = i - 1)
             = (CHOOSE l \in S : Cardinality(Beneath(Q, S, l)) = i - 1)
    <3> SUFFICES ASSUME NEW i
                 PROVE  (CHOOSE l \in S : Cardinality(L(l)) = i - 1)
                          = (CHOOSE l \in S : Cardinality(Beneath(Q, S, l)) = i - 1)
      OBVIOUS
    <3>1. \A l : (l \in S /\ Cardinality(L(l)) = i - 1)
                 <=> (l \in S /\ Cardinality(Beneath(Q, S, l)) = i - 1)
      BY <2>1
    <3> QED
      BY <3>1
  <2> QED
    BY <2>2, <2>3 DEF InOrder
<1> HIDE DEF Q, S
<1>6. Simplify(c) \in Seq(S) /\ Rng(Simplify(c)) = S /\ Distinct(Simplify(c))
  BY <1>2, <1>4, <1>5, InOrderFacts
<1>7. Simplify(c) \in Seq(Lits)
  BY <1>1, <1>6
<1> QED
  BY <1>6, <1>7 DEF S

\* The elements of a set of numbers in order.
LEMMA AscendingFacts ==
  ASSUME NEW S, IsFiniteSet(S), S \subseteq Int
  PROVE  /\ Ascending(S) \in Seq(S) /\ Len(Ascending(S)) = Cardinality(S)
         /\ Rng(Ascending(S)) = S /\ Distinct(Ascending(S))
<1> DEFINE Q == {p \in S \X S : p[1] < p[2]}
           U(x) == {y \in S : y <= x}
<1>0. \A a, b \in S : <<a, b>> \in Q <=> a < b
  OBVIOUS
<1> HIDE DEF Q
<1>1. Orders(Q, S)
  BY <1>0 DEF Orders
<1>2. ASSUME NEW x \in S
      PROVE  Cardinality(U(x)) = Cardinality(Beneath(Q, S, x)) + 1 /\ Cardinality(Beneath(Q, S, x)) \in Nat
  <2>1. ~(x < x) /\ \A y \in S : y <= x <=> y < x \/ y = x
    OBVIOUS
  <2>2. U(x) = Beneath(Q, S, x) \cup {x} /\ x \notin Beneath(Q, S, x) /\ Beneath(Q, S, x) \in SUBSET S
    BY <1>0, <2>1 DEF Beneath
  <2>3. IsFiniteSet(Beneath(Q, S, x))
    BY <2>2, FS_Subset
  <2> HIDE DEF U
  <2> QED
    BY <2>2, <2>3, FS_AddElement, FS_CardinalityType
<1>3. Ascending(S) = InOrder(Q, S)
  <2>1. Ascending(S) = [i \in 1..Cardinality(S) |-> CHOOSE l \in S : Cardinality(U(l)) = i]
    BY DEF Ascending
  <2> HIDE DEF U
  <2>2. ASSUME NEW i \in 1..Cardinality(S)
        PROVE (CHOOSE l \in S : Cardinality(U(l)) = i)
               = (CHOOSE l \in S : Cardinality(Beneath(Q, S, l)) = i - 1)
    <3>0. i \in Int
      OBVIOUS
    <3>1. \A l \in S : Cardinality(U(l)) = i <=> Cardinality(Beneath(Q, S, l)) = i - 1
      BY <1>2, <3>0
    <3>2. \A l : (l \in S /\ Cardinality(U(l)) = i)
                 <=> (l \in S /\ Cardinality(Beneath(Q, S, l)) = i - 1)
      BY <3>1
    <3> QED
      BY <3>2
  <2> QED
    BY <2>1, <2>2 DEF InOrder
<1> QED
  BY <1>1, <1>3, InOrderFacts

\* The elements of s at positions I.
LEMMA SubSeqAtFacts ==
  ASSUME NEW T, NEW s \in Seq(T), NEW I, I \subseteq DOMAIN s
  PROVE  /\ SubSeqAt(s, I) \in Seq(T) /\ Len(SubSeqAt(s, I)) = Cardinality(I) /\ IsFiniteSet(I)
         /\ Rng(SubSeqAt(s, I)) = {s[i] : i \in I}
         /\ \E f \in [DOMAIN SubSeqAt(s, I) -> I] :
              \A i, j \in DOMAIN SubSeqAt(s, I) : SubSeqAt(s, I)[i] = s[f[i]] /\ (f[i] = f[j] => i = j)
<1> DEFINE f == Ascending(I)  t == SubSeqAt(s, I)  n == Cardinality(I)
<1>1. DOMAIN s = 1..Len(s) /\ Len(s) \in Nat /\ 1 \in Int /\ Len(s) \in Int
  OBVIOUS
<1>2. IsFiniteSet(I) /\ I \subseteq Int
  <2>1. IsFiniteSet(1..Len(s))
    BY <1>1, FS_Interval
  <2>2. I \in SUBSET (1..Len(s))
    BY <1>1
  <2> QED
    BY <2>1, <2>2, FS_Subset
<1>3. f \in Seq(I) /\ Len(f) = n /\ Rng(f) = I /\ Distinct(f)
  BY <1>2, AscendingFacts
<1>4. DOMAIN f = 1..n /\ n \in Nat /\ \A i \in 1..n : f[i] \in I
  BY <1>3
<1>5. t = [i \in 1..n |-> s[f[i]]]
  BY DEF SubSeqAt
<1> HIDE DEF f, t, n
<1>6. t \in [1..n -> T] /\ DOMAIN t = 1..n
  BY <1>4, <1>5
<1>7. t \in Seq(T) /\ Len(t) = n
  BY <1>4, <1>6, FunctionIsSeq
<1>8. Rng(t) = {s[i] : i \in I}
  BY <1>3, <1>4, <1>5, <1>6 DEF Rng
<1>9. f \in [DOMAIN t -> I] /\ \A i, j \in DOMAIN t : t[i] = s[f[i]] /\ (f[i] = f[j] => i = j)
  BY <1>3, <1>4, <1>5, <1>6, SMTT(40) DEF Distinct
<1> QED
  BY <1>2, <1>7, <1>8, <1>9 DEF t, n

\* A free place of the table.
LEMMA FreePlace ==
  ASSUME NEW D, IsFiniteSet(D), D \subseteq Nat \ {0}
  PROVE  LET k == CHOOSE n \in 1..Cardinality(D) + 1 : n \notin D /\ 1..n - 1 \subseteq D
         IN k \notin D /\ k \in Nat \ {0}
<1> DEFINE c == Cardinality(D)
           N == {n \in Nat \ {0} : n \notin D}
<1>1. c \in Nat
  BY FS_CardinalityType
<1>2. ASSUME NEW n \in Nat, 1..n \subseteq D PROVE n <= c
  <2>1. IsFiniteSet(1..n) /\ Cardinality(1..n) = n
    <3>1. 1 \in Int /\ n \in Int
      OBVIOUS
    <3>2. IsFiniteSet(1..n) /\ Cardinality(1..n) = IF 1 > n THEN 0 ELSE n - 1 + 1
      BY <3>1, FS_Interval
    <3> QED
      BY <3>2
  <2>2. 1..n \in SUBSET D
    BY <1>2
  <2> QED
    BY <2>1, <2>2, FS_Subset
<1>3. N # {} /\ N \subseteq Nat
  <2>1. c + 1 \in Nat /\ ~(c + 1 <= c)
    BY <1>1
  <2>2. ~(1..c + 1 \subseteq D)
    BY <1>2, <2>1
  <2> QED
    BY <2>2
<1>4. PICK n \in N : \A m \in N : n <= m
  <2> HIDE DEF N
  <2> QED
    BY <1>3, NatLeast
<1>5. 1..n - 1 \subseteq D /\ n - 1 \in Nat /\ n \notin D
  <2>1. \A m \in 1..n - 1 : m \in Nat \ {0} /\ ~(n <= m)
    OBVIOUS
  <2> QED
    BY <1>4, <2>1
<1>6. n \in 1..c + 1
  <2>1. n - 1 <= c
    BY <1>2, <1>5
  <2> QED
    BY <1>1, <2>1
<1> HIDE DEF c, N
<1>7. \E m \in 1..c + 1 : m \notin D /\ 1..m - 1 \subseteq D
  BY <1>5, <1>6
<1> DEFINE k == CHOOSE m \in 1..c + 1 : m \notin D /\ 1..m - 1 \subseteq D
<1>8. k \in 1..c + 1 /\ k \notin D
  BY <1>7
<1> HIDE DEF k
<1>9. k \notin D /\ k \in Nat \ {0}
  BY <1>8, <1>1
<1> QED
  BY <1>9 DEF k, c

\* Literals that are not false are moved to the front.
LEMMA SwapInFacts ==
  ASSUME NEW r, NEW s \in Seq(Lits), Distinct(s), NEW i \in Nat \ {0}
  PROVE  LET t == SwapIn(r, s, i) IN
         t \in Seq(Lits) /\ Len(t) = Len(s) /\ Rng(t) = Rng(s) /\ Distinct(t)
<1> DEFINE J == {j \in i + 1..Len(s) : Value(r, s[j]) >= 0}
<1>1. SwapIn(r, s, i) = IF J = {} \/ Value(r, s[i]) >= 0 THEN s ELSE Swap(s, i, Min(J))
  BY DEF SwapIn
<1>2. CASE J # {}
  <2>1. J \subseteq Nat /\ J \subseteq i + 1..Len(s)
    OBVIOUS
  <2> HIDE DEF J
  <2>2. \E n \in J : \A x \in J : n <= x
    BY <1>2, <2>1, NatLeast
  <2>3. Min(J) \in J
    BY <2>2 DEF Min
  <2>4. Min(J) \in DOMAIN s /\ i \in DOMAIN s
    <3> DEFINE m == Min(J)
    <3>0. m \in J
      BY <2>3
    <3> HIDE DEF m
    <3>1. m \in i + 1..Len(s)
      BY <2>1, <3>0
    <3>3. Len(s) \in Nat
      OBVIOUS
    <3>2. m \in 1..Len(s) /\ i \in 1..Len(s)
      BY <3>1, <3>3
    <3> QED
      BY <3>2 DEF m
  <2>5. LET u == Swap(s, i, Min(J)) IN u \in Seq(Lits) /\ Len(u) = Len(s) /\ Rng(u) = Rng(s) /\ Distinct(u)
    BY <2>4, SwapFacts
  <2> QED
    BY <1>1, <2>5
<1> QED
  BY <1>1, <1>2

\* A new clause s is put at place k, the watches and the trail stay.
Allocated(r, s, k, x) ==
  /\ Shaped(x) /\ k \notin DOMAIN r.lits /\ k \in Nat \ {0}
  /\ x.lits = [j \in DOMAIN r.lits \cup {k} |-> IF j = k THEN s ELSE r.lits[j]]
  /\ x.garbage = r.garbage /\ x.trail = r.trail /\ x.next = r.next /\ x.conflict = r.conflict

\* A state with a new clause has its types.
LEMMA AllocatedTyped ==
  ASSUME NEW r, RupOK(r), NEW s \in Seq(Lits), Distinct(s), NEW k, NEW x, Allocated(r, s, k, x),
         x.watches \in [Lits -> Seq(Watch)]
  PROVE  RupTyped(x)
<1>1. DOMAIN x.lits = DOMAIN r.lits \cup {k}
  BY DEF Allocated
<1>2. IsFiniteSet(DOMAIN r.lits \cup {k})
  BY FS_AddElement DEF RupOK, RupTyped
<1>3. x.lits \in [DOMAIN x.lits -> Seq(Lits)] /\ (\A j \in DOMAIN x.lits : Distinct(x.lits[j]))
      /\ DOMAIN x.lits \subseteq Nat \ {0}
  BY <1>1 DEF Allocated, RupOK, RupTyped
<1> QED
  BY <1>1, <1>2, <1>3 DEF Allocated, RupOK, RupTyped

\* The lists of watches are right for the larger table.
LEMMA AllocatedList ==
  ASSUME NEW r, RupOK(r), NEW s \in Seq(Lits), NEW k, NEW x, Allocated(r, s, k, x), NEW l \in Lits
  PROVE  /\ ListOK(x.lits, x.garbage, l, r.watches[l])
         /\ \A i \in DOMAIN r.watches[l] : r.watches[l][i].clause # k
<1> DEFINE ws == r.watches[l]
<1>1. ListOK(r.lits, r.garbage, l, ws)
  BY DEF RupOK
<1> HIDE DEF ws
<1>2. ASSUME NEW i \in DOMAIN ws
      PROVE  WatchOK(x.lits, x.garbage, l, ws[i]) /\ ws[i].clause # k
  <2>1. WatchOK(r.lits, r.garbage, l, ws[i])
    BY <1>1 DEF ListOK
  <2>2. x.lits[ws[i].clause] = r.lits[ws[i].clause] /\ ws[i].clause \in DOMAIN x.lits /\ ws[i].clause # k
    BY <2>1 DEF WatchOK, Allocated
  <2> QED
    BY <2>1, <2>2 DEF WatchOK, Allocated
<1>3. Single(x.garbage, ws)
  BY <1>1 DEF ListOK, Allocated
<1> QED
  BY <1>2, <1>3 DEF ListOK, ws

\* The first two literals of the new clause watch it.
LEMMA WatchClauseFacts ==
  ASSUME NEW r, RupOK(r), NEW s \in Seq(Lits), Distinct(s), NEW k, NEW y, Allocated(r, s, k, y),
         y.watches = r.watches
  PROVE  LET x == WatchClause(y, s, k) IN RupOK(x) /\ Allocated(r, s, k, x)
<1> DEFINE x == WatchClause(y, s, k)
           W(i) == [blit |-> s[3 - i], size |-> Len(s), clause |-> k]
           z == [y EXCEPT !.watches[s[1]] = Append(@, W(1)), !.watches[s[2]] = Append(@, W(2))]
<1>1. r.watches \in [Lits -> Seq(Watch)]
  BY DEF RupOK, RupTyped
<1>2. CASE x = y
  <2>1. RupTyped(y)
    BY <1>1, AllocatedTyped
  <2>2. \A l \in Lits : ListOK(y.lits, y.garbage, l, y.watches[l])
    BY AllocatedList
  <2> QED
    BY <1>2, <2>1, <2>2 DEF RupOK
<1>3. CASE Len(s) >= 2 /\ x = z
  <2> DEFINE w1 == W(1)  w2 == W(2)  a == s[1]  b == s[2]
             A == Append(r.watches[a], w1)  B == Append(r.watches[b], w2)
  <2>1. a \in Lits /\ b \in Lits /\ a # b /\ 1 \in DOMAIN s /\ 2 \in DOMAIN s
    BY <1>3 DEF Distinct
  <2>2. w1.blit = b /\ w1.size = Len(s) /\ w1.clause = k /\ w2.blit = a /\ w2.size = Len(s) /\ w2.clause = k
        /\ w1 = [blit |-> b, size |-> Len(s), clause |-> k] /\ w2 = [blit |-> a, size |-> Len(s), clause |-> k]
    OBVIOUS
  <2>3. k \in Nat \ {0} /\ Len(s) \in Nat
    BY DEF Allocated
  <2> HIDE DEF a, b, w1, w2
  <2>4. w1 \in Watch /\ w2 \in Watch
    BY <2>1, <2>2, <2>3 DEF Watch
  <2>5. x = [y EXCEPT !.watches[a] = Append(@, w1), !.watches[b] = Append(@, w2)]
    BY <1>3 DEF a, b, w1, w2
  <2> HIDE DEF x, z
  <2>6. /\ x.watches = [y.watches EXCEPT ![a] = Append(@, w1), ![b] = Append(@, w2)]
        /\ x.lits = y.lits /\ x.garbage = y.garbage /\ x.trail = y.trail /\ x.next = y.next
        /\ x.conflict = y.conflict /\ Shaped(x)
    BY <2>5 DEF Allocated, Shaped, Fields
  <2>7. /\ x.watches[a] = A /\ x.watches[b] = B /\ DOMAIN x.watches = Lits
        /\ \A l \in Lits \ {a, b} : x.watches[l] = r.watches[l]
    BY <1>1, <2>1, <2>6
  <2>8. A \in Seq(Watch) /\ B \in Seq(Watch)
    BY <1>1, <2>1, <2>4
  <2> HIDE DEF A, B
  <2>9. x.watches \in [Lits -> Seq(Watch)]
    <3>1. x.watches = [l \in Lits |-> x.watches[l]]
      BY <1>1, <2>6
    <3> QED
      BY <1>1, <2>7, <2>8, <3>1, ZenonT(60)
  <2>10. Allocated(r, s, k, x)
    BY <2>6 DEF Allocated
  <2>11. WatchOK(x.lits, x.garbage, a, w1) /\ WatchOK(x.lits, x.garbage, b, w2)
    <3>1. k \in DOMAIN x.lits /\ x.lits[k] = s
      BY <2>10 DEF Allocated
    <3>2. Len(s) = 2 => Rng(s) \subseteq {a, b}
      BY DEF Rng, a, b
    <3> QED
      BY <1>3, <2>2, <2>3, <3>1, <3>2 DEF WatchOK, a, b
  <2>12. ASSUME NEW l \in Lits PROVE ListOK(x.lits, x.garbage, l, x.watches[l])
    <3>1. /\ ListOK(x.lits, x.garbage, l, r.watches[l])
          /\ \A i \in DOMAIN r.watches[l] : r.watches[l][i].clause # k
      BY <2>10, AllocatedList
    <3>2. r.watches[l] \in Seq(Watch)
      BY <1>1
    <3>3. CASE l = a
      <4>1. ListOK(x.lits, x.garbage, a, Append(r.watches[a], w1))
        BY <2>2, <2>4, <2>11, <3>1, <3>2, <3>3, ListAppended
      <4> QED
        BY <2>7, <3>3, <4>1 DEF A
    <3>4. CASE l = b
      <4>1. ListOK(x.lits, x.garbage, b, Append(r.watches[b], w2))
        BY <2>2, <2>4, <2>11, <3>1, <3>2, <3>4, ListAppended
      <4> QED
        BY <2>7, <3>4, <4>1 DEF B
    <3>5. CASE l \notin {a, b}
      BY <2>7, <3>1, <3>5
    <3> QED
      BY <3>3, <3>4, <3>5
  <2>13. RupTyped(x)
    BY <2>9, <2>10, AllocatedTyped
  <2> QED
    BY <2>10, <2>12, <2>13 DEF RupOK, x
<1>4. x = y \/ (Len(s) >= 2 /\ x = z)
  <2>1. Len(s) \in Nat
    OBVIOUS
  <2> HIDE DEF z
  <2>2. x = IF Len(s) < 2 \/ IsTautology(s) THEN y ELSE z
    BY DEF WatchClause, z
  <2> QED
    BY <2>1, <2>2
<1> QED
  BY <1>2, <1>3, <1>4

\* A clause is put into the table; its literals may be permuted.
LEMMA InsertFacts ==
  ASSUME NEW r, RupOK(r), NEW c \in Seq(Lits), Distinct(c), NEW id
  PROVE  LET x == Insert(r, id, c).r IN
         RupOK(x) /\ \E k, s : Allocated(r, s, k, x) /\ Rng(s) = Rng(c)
<1> DEFINE D == DOMAIN r.lits
           k == CHOOSE n \in 1..Cardinality(D) + 1 : n \notin D /\ 1..n - 1 \subseteq D
           s == SwapIn(r, SwapIn(r, c, 1), 2)
           n == Cardinality(Alive(r))
           y == [r EXCEPT !.lits = [j \in DOMAIN @ \cup {k} |-> IF j = k THEN s ELSE @[j]],
                          !.id = [j \in DOMAIN @ \cup {k} |-> IF j = k THEN id ELSE @[j]],
                          !.units = IF Len(s) = 1 THEN Append(@, k) ELSE @,
                          !.size = IF n = @ THEN Max({1, 2 * @}) ELSE @]
<1>1. k \notin D /\ k \in Nat \ {0}
  BY FreePlace DEF RupOK, RupTyped
<1>2. s \in Seq(Lits) /\ Rng(s) = Rng(c) /\ Distinct(s)
  <2> DEFINE t == SwapIn(r, c, 1)
  <2>1. t \in Seq(Lits) /\ Rng(t) = Rng(c) /\ Distinct(t)
    BY SwapInFacts
  <2> HIDE DEF t
  <2>2. SwapIn(r, t, 2) \in Seq(Lits) /\ Rng(SwapIn(r, t, 2)) = Rng(t) /\ Distinct(SwapIn(r, t, 2))
    BY <2>1, SwapInFacts
  <2> QED
    BY <2>1, <2>2 DEF t
<1>3. Insert(r, id, c).r = WatchClause(y, s, k)
  <2> HIDE DEF k, s
  <2> DEFINE N(t, j) == [r EXCEPT !.lits = [i \in DOMAIN @ \cup {j} |-> IF i = j THEN t ELSE @[i]],
                             !.id = [i \in DOMAIN @ \cup {j} |-> IF i = j THEN id ELSE @[i]],
                             !.units = IF Len(t) = 1 THEN Append(@, j) ELSE @,
                             !.size = IF n = @ THEN Max({1, 2 * @}) ELSE @]
             A(t, j) == [r |-> WatchClause(N(t, j), t, j), key |-> j]
  <2>1. Insert(r, id, c) = Only({A(t, j) : t \in {s}, j \in {k}})
    BY DEF Insert, k, s
  <2>2. {A(t, j) : t \in {s}, j \in {k}} = {A(s, k)}
    <3> HIDE DEF A
    <3> QED
      OBVIOUS
  <2>3. Insert(r, id, c) = A(s, k)
    <3> DEFINE al == A(s, k)
               X == {A(t, j) : t \in {s}, j \in {k}}
    <3> HIDE DEF A
    <3>1. Insert(r, id, c) = Only(X) /\ X = {al}
      BY <2>1, <2>2
    <3> HIDE DEF al, X
    <3>2. Insert(r, id, c) = al
      BY <3>1, OnlyOne
    <3> QED
      BY <3>2 DEF al
  <2> QED
    BY <2>3
<1> HIDE DEF k, s
<1>4. Allocated(r, s, k, y) /\ y.watches = r.watches
  BY <1>1 DEF Allocated, RupOK, RupTyped, Shaped, Fields
<1> HIDE DEF y
<1> QED
  BY <1>2, <1>3, <1>4, WatchClauseFacts

-----------------------------------------------------------------------------
(* The checker without chains. *)

\* The state of the checker between two events.
CheckerOK(k) ==
  k = [f \in {"r", "inconsistent"} |-> k[f]] /\ RupOK(k.r) /\ k.r.conflict = 0

\* S is a model of what the checker knows.
Trusts(k, S) == ~k.inconsistent /\ Hits(k.r, S) /\ Rng(k.r.trail) \subseteq S

\* The trail is undone to what r had propagated.
LEMMA BacktrackFacts ==
  ASSUME NEW r, RupOK(r), NEW x, RupOK(x), Continues(r, x)
  PROVE  LET y == [Backtrack(x, r.next) EXCEPT !.conflict = 0] IN
         RupOK(y) /\ y.conflict = 0 /\ y.lits = x.lits /\ Rng(y.trail) \subseteq Rng(r.trail)
<1> DEFINE n == r.next
           t == SubSeq(x.trail, 1, n)
           y == [Backtrack(x, n) EXCEPT !.conflict = 0]
<1>1. /\ y.lits = x.lits /\ y.garbage = x.garbage /\ y.watches = x.watches /\ y.trail = t
      /\ y.next = n /\ y.conflict = 0 /\ Shaped(y)
  BY DEF Backtrack, RupOK, RupTyped, Shaped, Fields
<1> HIDE DEF t, y
<1>2. /\ r.trail \in Seq(Lits) /\ x.trail \in Seq(Lits) /\ n \in 0..Len(r.trail)
      /\ Len(r.trail) \in Nat /\ Len(x.trail) \in Nat /\ Len(r.trail) <= Len(x.trail)
      /\ \A i \in 1..Len(r.trail) : x.trail[i] = r.trail[i]
  <2>1. r.trail \in Seq(Lits) /\ x.trail \in Seq(Lits) /\ n \in 0..Len(r.trail)
    BY DEF RupOK, RupTyped
  <2>2. Extended(r.trail, x.trail)
    BY DEF Continues
  <2> QED
    BY <2>1, <2>2 DEF Extended
<1> HIDE DEF n
<1>3. t \in Seq(Lits) /\ Len(t) = n /\ \A i \in 1..n : t[i] = x.trail[i]
  BY <1>2 DEF t
<1>4. n \in 0..Len(t)
  BY <1>2, <1>3
<1>5. Rng(t) \subseteq Rng(r.trail)
  <2>1. DOMAIN t = 1..n /\ DOMAIN r.trail = 1..Len(r.trail)
    BY <1>2, <1>3
  <2>2. \A i \in 1..n : i \in 1..Len(r.trail) /\ t[i] = r.trail[i]
    BY <1>2, <1>3
  <2> QED
    BY <2>1, <2>2 DEF Rng
<1>6. RupOK(y)
  BY <1>1, <1>3, <1>4, NewTrail
<1> QED
  BY <1>1, <1>5, <1>6 DEF y, n

\* A clause that passes the check is true in every model of the table.
LEMMA CheckFacts ==
  ASSUME Var \in Nat, NEW k, CheckerOK(k), ~k.inconsistent, NEW cl \in Seq(Lits)
  PROVE  LET c == Check(k, cl) IN
         /\ c = [f \in {"ok", "k"} |-> c[f]]
         /\ CheckerOK(c.k) /\ ~c.k.inconsistent
         /\ \A S : Total(S) /\ Trusts(k, S) => Trusts(c.k, S) /\ (c.ok => Rng(cl) \cap S # {})
<1> DEFINE n == Len(cl)
           Step(x, l) == IF Value(x, -l) > 0 THEN x ELSE Assign(x, -l, 0)
           a == k.r
           FF(gg, mm) == [ss \in SUBSET (1..mm) |->
                         IF ss = {} THEN a ELSE LET xx == Max(ss) IN Step(gg[ss \ {xx}], cl[xx])]
           G == CHOOSE gg : gg = [ss \in SUBSET DOMAIN cl |->
                         IF ss = {} THEN a ELSE LET xx == Max(ss) IN Step(gg[ss \ {xx}], cl[xx])]
           QQ == {mm \in Nat : \E gg : gg = FF(gg, mm)}
           E == [i \in 0..n |-> G[1..i]]
<1>1. n \in Nat /\ DOMAIN cl = 1..n
  OBVIOUS
<1>2. FoldLeft(Step, a, cl) = G[1..n]
  <2> HIDE DEF n
  <2> QED
    BY <1>1 DEF FoldLeft, MapThenFoldSet
<1> HIDE DEF Step, a, n
<1>3. 0 \in QQ
  <2> DEFINE gg == [ss \in SUBSET (1..0) |-> a]
  <2>1. \A ss \in SUBSET (1..0) : ss = {}
    OBVIOUS
  <2>2. gg = FF(gg, 0)
    BY <2>1
  <2> QED
    BY <2>2
<1>4. ASSUME NEW mm \in Nat, mm \in QQ PROVE mm + 1 \in QQ
  <2>1. PICK gg : gg = FF(gg, mm)
    BY <1>4
  <2> DEFINE kk == [ss \in SUBSET (1..mm + 1) |->
                     IF mm + 1 \in ss THEN Step(gg[ss \ {mm + 1}], cl[mm + 1]) ELSE gg[ss]]
  <2>2. ASSUME NEW ss \in SUBSET (1..mm + 1)
        PROVE  kk[ss] = IF ss = {} THEN a ELSE LET xx == Max(ss) IN Step(kk[ss \ {xx}], cl[xx])
    <3>1. \A j \in 1..mm + 1 : j = mm + 1 \/ j \in 1..mm
      OBVIOUS
    <3>2. mm + 1 \notin 1..mm /\ 1..mm \subseteq 1..mm + 1 /\ mm + 1 \in Nat
      OBVIOUS
    <3>3. CASE mm + 1 \in ss
      <4>1. Max(ss) \in ss /\ (\A j \in ss : j <= Max(ss)) /\ ss # {}
        BY <3>2, <3>3, SubsetMax
      <4>2. Max(ss) = mm + 1
        <5>1. Max(ss) \in 1..mm + 1 /\ mm + 1 <= Max(ss)
          BY <3>3, <4>1
        <5> HIDE DEF kk
        <5> QED
          BY <5>1
      <4>3. ss \ {mm + 1} \in SUBSET (1..mm)
        BY <3>1
      <4>4. ss \ {mm + 1} \in SUBSET (1..mm + 1) /\ mm + 1 \notin ss \ {mm + 1}
        BY <3>2, <4>3
      <4>5. kk[ss \ {mm + 1}] = gg[ss \ {mm + 1}]
        BY <4>4
      <4> QED
        BY <3>3, <4>1, <4>2, <4>5
    <3>4. CASE mm + 1 \notin ss
      <4>1. ss \in SUBSET (1..mm)
        BY <3>1, <3>4
      <4>2. kk[ss] = gg[ss] /\ gg[ss] = FF(gg, mm)[ss]
        BY <2>1, <3>4
      <4>3. CASE ss = {}
        BY <2>1, <4>1, <4>2, <4>3
      <4>4. CASE ss # {}
        <5>1. Max(ss) \in ss
          BY <4>1, <4>4, SubsetMax
        <5>2. ss \ {Max(ss)} \in SUBSET (1..mm + 1) /\ mm + 1 \notin ss \ {Max(ss)}
          BY <3>2, <3>4, <4>1
        <5>3. kk[ss \ {Max(ss)}] = gg[ss \ {Max(ss)}]
          BY <5>2
        <5>4. gg[ss] = Step(gg[ss \ {Max(ss)}], cl[Max(ss)])
          BY <2>1, <4>1, <4>4
        <5> QED
          BY <4>2, <4>4, <5>3, <5>4
      <4> QED
        BY <4>3, <4>4
    <3> QED
      BY <3>3, <3>4
  <2>3. kk = FF(kk, mm + 1)
    <3> HIDE DEF kk
    <3>1. kk = [ss \in SUBSET (1..mm + 1) |-> kk[ss]]
      BY DEF kk
    <3> QED
      BY <2>2, <3>1
  <2> HIDE DEF kk, FF
  <2>4. mm + 1 \in Nat /\ \E e : e = FF(e, mm + 1)
    BY <2>3
  <2> QED
    BY <2>4
<1>5. n \in QQ
  <2> HIDE DEF QQ
  <2> QED
    BY <1>1, <1>3, <1>4, NatSetInduction
<1>6. G = FF(G, n)
  <2>1. PICK gg : gg = FF(gg, n)
    BY <1>5
  <2>2. gg = [ss \in SUBSET DOMAIN cl |->
                         IF ss = {} THEN a ELSE LET xx == Max(ss) IN Step(gg[ss \ {xx}], cl[xx])]
    BY <1>1, <2>1
  <2>3. G = [ss \in SUBSET DOMAIN cl |->
                         IF ss = {} THEN a ELSE LET xx == Max(ss) IN Step(G[ss \ {xx}], cl[xx])]
    BY <2>2
  <2> HIDE DEF G
  <2> QED
    BY <1>1, <2>3
<1> HIDE DEF G
<1>7. E[0] = a /\ E[n] = G[1..n]
  <2>1. 1..0 = {} /\ 0 \in 0..n /\ n \in 0..n
    BY <1>1
  <2>2. G[{}] = a
    <3>1. {} \in SUBSET (1..n)
      OBVIOUS
    <3> QED
      BY <1>6, <3>1
  <2> QED
    BY <2>1, <2>2
<1>8. ASSUME NEW i \in 1..n PROVE E[i] = Step(E[i - 1], cl[i])
  <2>0. i \in Nat /\ 1 <= i /\ i <= n /\ n \in Nat
    BY <1>1
  <2>1. 1..i \in SUBSET (1..n) /\ i \in 1..i /\ 1..i # {} /\ i \in Nat
    <3>1. \A j \in 1..i : j \in 1..n
      BY <2>0
    <3>2. i \in 1..i
      BY <2>0
    <3> QED
      BY <2>0, <3>1, <3>2
  <2>2. Max(1..i) \in 1..i /\ \A j \in 1..i : j <= Max(1..i)
    BY <2>1, SubsetMax
  <2>3. Max(1..i) = i
    BY <2>1, <2>2
  <2>4. (1..i) \ {i} = 1..i - 1
    BY <2>1
  <2>5. G[1..i] = Step(G[1..i - 1], cl[i])
    BY <1>6, <2>1, <2>3, <2>4
  <2>6. i \in 0..n /\ i - 1 \in 0..n
    BY <1>1
  <2> QED
    BY <2>5, <2>6
<1> HIDE DEF E
<1> DEFINE Assumed(i, x) ==
             /\ RupOK(x) /\ Continues(k.r, x) /\ x.lits = k.r.lits /\ x.conflict = 0
             /\ Rng(x.trail) \subseteq Rng(k.r.trail) \cup {-cl[j] : j \in 1..i}
<1>9. RupOK(k.r) /\ k.r.conflict = 0
  BY DEF CheckerOK
<1>10. \A i \in 1..n : cl[i] \in Lits /\ -cl[i] \in Lits
  BY <1>1, LitFacts
<1>11. Assumed(0, E[0])
  <2>1. Continues(k.r, k.r)
    BY <1>9 DEF Continues, Extended, RupOK, RupTyped
  <2> QED
    BY <1>7, <1>9, <2>1 DEF a
<1>12. ASSUME NEW i \in Nat, i < n, Assumed(i, E[i]) PROVE Assumed(i + 1, E[i + 1])
  <2> DEFINE x == E[i]  l == cl[i + 1]  y == E[i + 1]
  <2>1. i + 1 \in 1..n /\ (i + 1) - 1 = i
    BY <1>1, <1>12
  <2>2. y = Step(x, l)
    BY <1>8, <2>1
  <2>3. {-cl[j] : j \in 1..i + 1} = {-cl[j] : j \in 1..i} \cup {-l}
    <3>1. \A j \in 1..i + 1 : j \in 1..i \/ j = i + 1
      OBVIOUS
    <3>2. \A j \in 1..i : j \in 1..i + 1
      OBVIOUS
    <3>3. i + 1 \in 1..i + 1
      OBVIOUS
    <3> QED
      BY <3>1, <3>2, <3>3
  <2>4. -l \in Lits
    BY <1>10, <2>1
  <2> HIDE DEF x, y, l
  <2>5. RupOK(x) /\ Continues(k.r, x) /\ x.lits = k.r.lits /\ x.conflict = 0
        /\ Rng(x.trail) \subseteq Rng(k.r.trail) \cup {-cl[j] : j \in 1..i}
    BY <1>12 DEF x
  <2>6. CASE Value(x, -l) > 0
    <3>1. y = x
      BY <2>2, <2>6 DEF Step
    <3> QED
      BY <2>3, <2>5, <3>1 DEF y
  <2>7. CASE ~(Value(x, -l) > 0)
    <3>1. y = Assign(x, -l, 0)
      BY <2>2, <2>7 DEF Step
    <3>2. /\ RupOK(y) /\ Continues(x, y) /\ Rng(y.trail) = Rng(x.trail) \cup {-l}
          /\ y.conflict = x.conflict /\ y.lits = x.lits
      BY <2>4, <2>5, <3>1, AssignFacts
    <3>3. Continues(k.r, y)
      BY <1>9, <2>5, <3>2, ContinuesTransitive DEF RupOK, RupTyped
    <3> QED
      BY <2>3, <2>5, <3>2, <3>3 DEF y
  <2> QED
    BY <2>6, <2>7
<1>13. Assumed(n, E[n])
  <2> HIDE DEF Assumed
  <2> DEFINE P == {i \in Nat : i <= n => Assumed(i, E[i])}
  <2>1. 0 \in P
    BY <1>11
  <2>2. ASSUME NEW i \in Nat, i \in P PROVE i + 1 \in P
    <3>1. i + 1 <= n => i < n /\ i <= n
      BY <1>1
    <3> QED
      BY <1>12, <2>2, <3>1
  <2>3. \A i \in Nat : i \in P
    <3> HIDE DEF P
    <3> QED
      BY <2>1, <2>2, NatSetInduction
  <2> QED
    BY <1>1, <2>3
<1> DEFINE x == E[n]
           y == Propagate(FALSE, x)
           z == [Backtrack(y, k.r.next) EXCEPT !.conflict = 0]
           c == [ok |-> y.conflict # 0, k |-> [k EXCEPT !.r = z]]
<1>14. Check(k, cl) = c
  <2> DEFINE F(v) == [ok |-> v.conflict # 0,
                      k |-> [k EXCEPT !.r = [Backtrack(v, k.r.next) EXCEPT !.conflict = 0]]]
             p == Propagate(FALSE, FoldLeft(Step, a, cl))
  <2>1. Check(k, cl) = Only({F(v) : v \in {p}})
    BY DEF Check, Step, a
  <2>2. p = y
    BY <1>2, <1>7
  <2>3. {F(v) : v \in {y}} = {F(y)}
    <3> HIDE DEF F, y
    <3> QED
      OBVIOUS
  <2> DEFINE X == F(y)
  <2>4. F(y) = c
    OBVIOUS
  <2> HIDE DEF F, p, y, X, c
  <2>5. Check(k, cl) = Only({X})
    BY <2>1, <2>2, <2>3 DEF X
  <2> QED
    BY <2>4, <2>5, OnlyOne DEF X
<1> HIDE DEF y, z
<1>15. RupOK(x) /\ Continues(k.r, x) /\ x.lits = k.r.lits /\ x.conflict = 0
       /\ Rng(x.trail) \subseteq Rng(k.r.trail) \cup {-cl[j] : j \in 1..n}
  BY <1>13
<1> HIDE DEF x, Assumed
<1>16. Sound(x, y)
  BY <1>15, PropagateFacts DEF y
<1>17. RupOK(y) /\ Continues(k.r, y)
  BY <1>9, <1>15, <1>16, ContinuesTransitive DEF Sound, RupOK, RupTyped
<1>18. RupOK(z) /\ z.conflict = 0 /\ z.lits = y.lits /\ Rng(z.trail) \subseteq Rng(k.r.trail)
  BY <1>9, <1>17, BacktrackFacts DEF z
<1>19. c.k.r = z /\ c.k.inconsistent = k.inconsistent /\ c.k = [f \in {"r", "inconsistent"} |-> c.k[f]]
       /\ c.ok = (y.conflict # 0) /\ c = [f \in {"ok", "k"} |-> c[f]]
  BY DEF CheckerOK
<1> HIDE DEF c
<1>20. CheckerOK(c.k) /\ ~c.k.inconsistent
  BY <1>18, <1>19 DEF CheckerOK
<1>21. ASSUME NEW S, Total(S), Trusts(k, S) PROVE Trusts(c.k, S) /\ (c.ok => Rng(cl) \cap S # {})
  <2>1. Hits(z, S)
    BY <1>17, <1>18, <1>21 DEF Trusts, Hits, Continues
  <2>2. Trusts(c.k, S)
    BY <1>18, <1>19, <1>21, <2>1 DEF Trusts
  <2>3. ASSUME Rng(cl) \cap S = {} PROVE y.conflict = 0
    <3>1. \A j \in 1..n : -cl[j] \in S
      BY <1>1, <1>10, <1>21, <2>3 DEF Total, Rng
    <3>2. TrueTrail(x, S)
      BY <1>15, <1>21, <3>1 DEF TrueTrail, Trusts
    <3>3. Hits(x, S)
      BY <1>15, <1>21 DEF Trusts, Hits
    <3> QED
      BY <1>16, <1>21, <3>2, <3>3 DEF Sound, TrueTrail
  <2> QED
    BY <1>19, <2>2, <2>3
<1> QED
  BY <1>14, <1>19, <1>20, <1>21

\* A clause is entered: every model of it and of the table stays one.
LEMMA CheckerAddFacts ==
  ASSUME Var \in Nat, NEW k, CheckerOK(k), ~k.inconsistent, NEW s \in Seq(Lits), Distinct(s), NEW id
  PROVE  LET c == CheckerAdd(k, id, s) IN
         CheckerOK(c) /\ \A S : Total(S) /\ Trusts(k, S) /\ Rng(s) \cap S # {} => Trusts(c, S)
<1> DEFINE free == {l \in Rng(s) : Value(k.r, l) >= 0}
           l == CHOOSE m \in free : TRUE
           x == Propagate(FALSE, Assign(k.r, l, 0))
           c == CheckerAdd(k, id, s)
           c1 == [k EXCEPT !.inconsistent = TRUE]
           c2 == [r |-> [x EXCEPT !.conflict = 0], inconsistent |-> x.conflict # 0]
           c3 == [k EXCEPT !.r = Insert(k.r, id, s).r]
<1>1. c = IF free = {} THEN c1 ELSE IF Cardinality(free) = 1 THEN c2 ELSE c3
  <2> DEFINE F(v) == [r |-> [v EXCEPT !.conflict = 0], inconsistent |-> v.conflict # 0]
  <2>1. c = IF free = {} THEN c1
            ELSE IF Cardinality(free) = 1 THEN Only({F(v) : v \in {x}}) ELSE c3
    BY DEF CheckerAdd
  <2>2. {F(v) : v \in {x}} = {F(x)}
    <3> HIDE DEF F, x
    <3> QED
      OBVIOUS
  <2>3. F(x) = c2
    OBVIOUS
  <2> HIDE DEF c1, c2, c3, x, F, free, c
  <2> QED
    BY <2>1, <2>2, <2>3, OnlyOne
<1>2. RupOK(k.r) /\ k.r.conflict = 0 /\ k = [f \in {"r", "inconsistent"} |-> k[f]]
  BY DEF CheckerOK
<1>3. Rng(s) \in SUBSET Lits /\ free \in SUBSET Lits /\ IsFiniteSet(free)
  <2>1. Rng(s) \in SUBSET Lits
    BY DEF Rng
  <2> QED
    BY <2>1, FiniteLits
<1>4. \A m \in Rng(s) \ free : -m \in Rng(k.r.trail)
  BY ValueFacts
<1> HIDE DEF free, c
<1>5. CASE c = c1 /\ free = {}
  <2>1. CheckerOK(c)
    BY <1>2, <1>5 DEF CheckerOK
  <2>2. ASSUME NEW S, Total(S), Trusts(k, S), Rng(s) \cap S # {} PROVE FALSE
    BY <1>3, <1>4, <1>5, <2>2 DEF Trusts, Total
  <2> QED
    BY <2>1, <2>2 DEF c
<1>6. CASE c = c2 /\ free # {} /\ Cardinality(free) = 1
  <2> DEFINE r == Assign(k.r, l, 0)
             z == [x EXCEPT !.conflict = 0]
  <2>1. l \in free /\ l \in Lits /\ free = {l}
    <3>1. l \in free
      BY <1>6
    <3>2. \E e : free = {e}
      BY <1>3, <1>6, FS_Singleton
    <3> QED
      BY <1>3, <3>1, <3>2
  <2> HIDE DEF l
  <2>2. /\ RupOK(r) /\ Rng(r.trail) = Rng(k.r.trail) \cup {l} /\ r.conflict = k.r.conflict
        /\ r.lits = k.r.lits
    BY <1>2, <2>1, AssignFacts
  <2> HIDE DEF r
  <2>3. Sound(r, x)
    BY <2>2, PropagateFacts DEF r
  <2> HIDE DEF x
  <2>4. /\ z.lits = x.lits /\ z.garbage = x.garbage /\ z.watches = x.watches /\ z.trail = x.trail
        /\ z.next = x.next /\ z.conflict = 0 /\ Shaped(z)
    BY <2>3 DEF Sound, RupOK, RupTyped, Shaped, Fields
  <2>0. c.r = z /\ c.inconsistent = (x.conflict # 0) /\ c = [f \in {"r", "inconsistent"} |-> c[f]]
    BY <1>6
  <2> HIDE DEF z, c2
  <2>5. RupOK(z)
    BY <2>3, <2>4, NewTrail DEF Sound, RupOK, RupTyped
  <2>6. CheckerOK(c)
    BY <2>0, <2>4, <2>5 DEF CheckerOK
  <2>7. ASSUME NEW S, Total(S), Trusts(k, S), Rng(s) \cap S # {} PROVE Trusts(c, S)
    <3>1. l \in S
      BY <1>3, <1>4, <2>1, <2>7 DEF Trusts, Total
    <3>2. TrueTrail(r, S) /\ Hits(r, S)
      BY <1>2, <2>2, <2>7, <3>1 DEF TrueTrail, Trusts, Hits
    <3>3. TrueTrail(x, S) /\ Hits(x, S)
      BY <2>3, <2>7, <3>2 DEF Sound, Continues, Hits
    <3> QED
      BY <2>0, <2>4, <3>3 DEF Trusts, TrueTrail, Hits
  <2> QED
    BY <2>6, <2>7 DEF c
<1>7. CASE c = c3
  <2> DEFINE x3 == Insert(k.r, id, s).r
  <2>1. RupOK(x3) /\ \E j, t : Allocated(k.r, t, j, x3) /\ Rng(t) = Rng(s)
    BY <1>2, InsertFacts
  <2>2. c.r = x3 /\ c.inconsistent = k.inconsistent /\ c = [f \in {"r", "inconsistent"} |-> c[f]]
    BY <1>2, <1>7
  <2> HIDE DEF x3, c3
  <2>3. PICK j, t : Allocated(k.r, t, j, x3) /\ Rng(t) = Rng(s)
    BY <2>1
  <2>4. CheckerOK(c)
    BY <1>2, <2>1, <2>2, <2>3 DEF CheckerOK, Allocated
  <2>5. ASSUME NEW S, Total(S), Trusts(k, S), Rng(s) \cap S # {} PROVE Trusts(c, S)
    BY <2>2, <2>3, <2>5 DEF Trusts, Hits, Allocated
  <2> QED
    BY <2>4, <2>5 DEF c
<1> QED
  BY <1>1, <1>5, <1>6, <1>7

\* Making room for the variables of a clause changes nothing else.
LEMMA EnlargeVarsFacts ==
  ASSUME NEW k, CheckerOK(k), NEW c
  PROVE  LET new == [k EXCEPT !.r = EnlargeVars(@, c)] IN
         CheckerOK(new) /\ new.inconsistent = k.inconsistent /\ \A S : Trusts(k, S) <=> Trusts(new, S)
<1> DEFINE x == EnlargeVars(k.r, c)
           new == [k EXCEPT !.r = x]
<1>1. \E v : x = [k.r EXCEPT !.vars = v]
  <2>1. k.r = [k.r EXCEPT !.vars = @]
    BY DEF CheckerOK, RupOK, RupTyped, Shaped, Fields
  <2> QED
    BY <2>1 DEF EnlargeVars
<1> HIDE DEF x
<1>2. /\ x.lits = k.r.lits /\ x.garbage = k.r.garbage /\ x.watches = k.r.watches /\ x.trail = k.r.trail
      /\ x.next = k.r.next /\ x.conflict = k.r.conflict /\ Shaped(x)
  BY <1>1 DEF CheckerOK, RupOK, RupTyped, Shaped, Fields
<1>3. RupOK(x)
  BY <1>2, NewTrail DEF CheckerOK, RupOK, RupTyped
<1>4. new.r = x /\ new.inconsistent = k.inconsistent /\ new = [f \in {"r", "inconsistent"} |-> new[f]]
  BY DEF CheckerOK
<1> HIDE DEF new
<1>5. CheckerOK(new)
  BY <1>2, <1>3, <1>4 DEF CheckerOK
<1>6. \A S : Trusts(k, S) <=> Trusts(new, S)
  BY <1>2, <1>4 DEF Trusts, Hits
<1> QED
  BY <1>4, <1>5, <1>6 DEF new, x

\* A clause that the checker takes for a tautology is true in the models of
\* what it knows.
LEMMA TautologicalHolds ==
  ASSUME NEW k, NEW c \in Seq(Lits), Tautological(k, c), NEW S, Total(S), Trusts(k, S)
  PROVE  Rng(c) \cap S # {}
<1>1. Rng(c) \subseteq Lits
  BY DEF Rng
<1>2. CASE IsTautology(c)
  BY <1>1, <1>2 DEF IsTautology, Total
<1>3. CASE ClauseSatisfied(k.r, c)
  <2>1. PICK l \in Rng(c) : Value(k.r, l) > 0
    BY <1>3 DEF ClauseSatisfied
  <2>2. l \in Rng(k.r.trail)
    BY <2>1, ValueFacts
  <2> QED
    BY <2>2 DEF Trusts
<1> QED
  BY <1>2, <1>3 DEF Tautological

\* An original clause that S satisfies keeps what the checker trusts true in S.
LEMMA CheckerOriginalFacts ==
  ASSUME Var \in Nat, NEW k, CheckerOK(k), NEW c \in Seq(Lits), NEW id
  PROVE  LET e == CheckerOriginal(k, id, c) IN
         CheckerOK(e) /\ \A S : Total(S) /\ Trusts(k, S) /\ Rng(c) \cap S # {} => Trusts(e, S)
<1> DEFINE new == [k EXCEPT !.r = EnlargeVars(@, c)]
           s == Simplify(c)
           e == CheckerOriginal(k, id, c)
<1>1. e = IF k.inconsistent THEN k ELSE IF Tautological(k, c) THEN new ELSE CheckerAdd(new, id, s)
  BY DEF CheckerOriginal
<1>2. CheckerOK(new) /\ new.inconsistent = k.inconsistent /\ \A S : Trusts(k, S) <=> Trusts(new, S)
  BY EnlargeVarsFacts
<1>3. s \in Seq(Lits) /\ Rng(s) = Rng(c) /\ Distinct(s)
  BY SimplifyFacts
<1> HIDE DEF new, s, e
<1>4. CASE k.inconsistent
  BY <1>1, <1>4 DEF Trusts, e
<1>5. CASE ~k.inconsistent /\ Tautological(k, c)
  BY <1>1, <1>2, <1>5 DEF e
<1>6. CASE ~k.inconsistent /\ ~Tautological(k, c)
  <2>1. /\ CheckerOK(CheckerAdd(new, id, s))
        /\ \A S : Total(S) /\ Trusts(new, S) /\ Rng(s) \cap S # {} => Trusts(CheckerAdd(new, id, s), S)
    BY <1>2, <1>3, <1>6, CheckerAddFacts
  <2> QED
    BY <1>1, <1>2, <1>3, <1>6, <2>1 DEF e
<1> QED
  BY <1>4, <1>5, <1>6

\* A derived clause that the checker lets pass is true in every total set that
\* its table is.
LEMMA CheckerDerivedFacts ==
  ASSUME Var \in Nat, NEW k, CheckerOK(k), NEW c \in Seq(Lits), NEW id
  PROVE  LET e == CheckerDerived(k, id, c) IN
         /\ CheckerOK(e.k)
         /\ \A S : Total(S) /\ Trusts(k, S) => Trusts(e.k, S) /\ (e.ok => Rng(c) \cap S # {})
<1> DEFINE new == [k EXCEPT !.r = EnlargeVars(@, c)]
           s == Simplify(c)
           e == CheckerDerived(k, id, c)
           x == Check(new, s)
           F(v) == IF v.ok THEN [v EXCEPT !.k = CheckerAdd(v.k, id, s)] ELSE v
<1>1. e = IF k.inconsistent THEN [ok |-> TRUE, k |-> k]
          ELSE IF Tautological(k, c) THEN [ok |-> TRUE, k |-> new] ELSE F(x)
  <2>1. {F(v) : v \in {x}} = {F(x)}
    <3> HIDE DEF F, x
    <3> QED
      OBVIOUS
  <2>2. e = IF k.inconsistent THEN [ok |-> TRUE, k |-> k]
            ELSE IF Tautological(k, c) THEN [ok |-> TRUE, k |-> new] ELSE Only({F(v) : v \in {x}})
    BY DEF CheckerDerived
  <2> HIDE DEF F, x, e, new
  <2> QED
    BY <2>1, <2>2, OnlyOne
<1>2. CheckerOK(new) /\ new.inconsistent = k.inconsistent /\ \A S : Trusts(k, S) <=> Trusts(new, S)
  BY EnlargeVarsFacts
<1>3. s \in Seq(Lits) /\ Rng(s) = Rng(c) /\ Distinct(s)
  BY SimplifyFacts
<1> HIDE DEF new, s, e
<1>4. CASE k.inconsistent
  <2>1. e.k = k
    BY <1>1, <1>4
  <2> QED
    BY <1>4, <2>1 DEF Trusts, e
<1>5. CASE ~k.inconsistent /\ Tautological(k, c)
  <2>1. e.k = new
    BY <1>1, <1>5
  <2> QED
    BY <1>2, <1>5, <2>1, TautologicalHolds DEF e
<1>6. CASE ~k.inconsistent /\ ~Tautological(k, c)
  <2>1. /\ x = [f \in {"ok", "k"} |-> x[f]] /\ CheckerOK(x.k) /\ ~x.k.inconsistent
        /\ \A S : Total(S) /\ Trusts(new, S) => Trusts(x.k, S) /\ (x.ok => Rng(s) \cap S # {})
    BY <1>2, <1>3, <1>6, CheckFacts
  <2> HIDE DEF x
  <2>2. CASE x.ok
    <3> DEFINE y == CheckerAdd(x.k, id, s)
    <3>1. CheckerOK(y) /\ \A S : Total(S) /\ Trusts(x.k, S) /\ Rng(s) \cap S # {} => Trusts(y, S)
      BY <1>3, <2>1, CheckerAddFacts
    <3>2. e = [x EXCEPT !.k = y]
      BY <1>1, <1>6, <2>2
    <3> HIDE DEF y
    <3>3. e.k = y
      BY <2>1, <3>2
    <3> QED
      BY <1>2, <1>3, <2>1, <2>2, <3>1, <3>3 DEF e
  <2>3. CASE ~x.ok
    <3>1. e = x
      BY <1>1, <1>6, <2>3
    <3> QED
      BY <1>2, <2>1, <2>3, <3>1 DEF e
  <2> QED
    BY <2>2, <2>3
<1> QED
  BY <1>4, <1>5, <1>6

\* Marking a clause as garbage.
LEMMA GarbageFacts ==
  ASSUME NEW r, RupOK(r), NEW G
  PROVE  LET x == [r EXCEPT !.garbage = @ \cup G] IN
         /\ RupOK(x) /\ x.lits = r.lits /\ x.trail = r.trail /\ x.conflict = r.conflict
<1> DEFINE x == [r EXCEPT !.garbage = @ \cup G]
<1>1. /\ x.lits = r.lits /\ x.garbage = r.garbage \cup G /\ x.watches = r.watches /\ x.trail = r.trail
      /\ x.next = r.next /\ x.conflict = r.conflict /\ Shaped(x)
  BY DEF RupOK, RupTyped, Shaped, Fields
<1> HIDE DEF x
<1>2. RupTyped(x)
  BY <1>1 DEF RupOK, RupTyped
<1>3. ASSUME NEW l \in Lits PROVE ListOK(x.lits, x.garbage, l, x.watches[l])
  <2>1. ListOK(r.lits, r.garbage, l, r.watches[l])
    BY DEF RupOK
  <2> QED
    BY <1>1, <2>1 DEF ListOK, WatchOK, Single
<1> QED
  BY <1>1, <1>2, <1>3 DEF RupOK, x

\* Freeing the garbage clauses.
LEMMA CollectFacts ==
  ASSUME NEW r, RupOK(r)
  PROVE  LET x == Collect(r) IN
         /\ RupOK(x) /\ x.trail = r.trail /\ x.conflict = r.conflict
         /\ DOMAIN x.lits \subseteq DOMAIN r.lits /\ \A k \in DOMAIN x.lits : x.lits[k] = r.lits[k]
<1> DEFINE x == Collect(r)
           G == r.garbage
           I(l) == {i \in DOMAIN r.watches[l] : r.watches[l][i].clause \notin G}
<1>1. /\ x.lits = [k \in DOMAIN r.lits \ G |-> r.lits[k]] /\ x.garbage = {} /\ x.trail = r.trail
      /\ x.watches = [l \in Lits |-> SubSeqAt(r.watches[l], I(l))]
      /\ x.next = r.next /\ x.conflict = r.conflict /\ Shaped(x)
  BY DEF Collect, Sieve, RupOK, RupTyped, Shaped, Fields
<1>2. r.watches \in [Lits -> Seq(Watch)] /\ IsFiniteSet(DOMAIN r.lits) /\ r.lits \in [DOMAIN r.lits -> Seq(Lits)]
  BY DEF RupOK, RupTyped
<1> HIDE DEF x
<1>3. ASSUME NEW l \in Lits PROVE x.watches[l] \in Seq(Watch) /\ ListOK(x.lits, x.garbage, l, x.watches[l])
  <2> DEFINE ws == r.watches[l]  new == x.watches[l]  J == I(l)
  <2>1. ws \in Seq(Watch) /\ new = SubSeqAt(ws, J) /\ J \subseteq DOMAIN ws
        /\ \A i \in J : ws[i].clause \notin G
    BY <1>1, <1>2
  <2>2. ListOK(r.lits, G, l, ws)
    BY DEF RupOK
  <2> HIDE DEF ws, new, J, I
  <2>3. /\ new \in Seq(Watch)
        /\ \E f \in [DOMAIN new -> J] : \A i, j \in DOMAIN new : new[i] = ws[f[i]] /\ (f[i] = f[j] => i = j)
    BY <2>1, SubSeqAtFacts
  <2>4. PICK f \in [DOMAIN new -> J] : \A i, j \in DOMAIN new : new[i] = ws[f[i]] /\ (f[i] = f[j] => i = j)
    BY <2>3
  <2>5. ASSUME NEW i \in DOMAIN new PROVE WatchOK(x.lits, x.garbage, l, new[i])
    <3>1. f[i] \in J /\ new[i] = ws[f[i]]
      BY <2>4
    <3>2. WatchOK(r.lits, G, l, new[i]) /\ new[i].clause \notin G
      BY <2>1, <2>2, <3>1 DEF ListOK
    <3>3. new[i].clause \in DOMAIN x.lits /\ x.lits[new[i].clause] = r.lits[new[i].clause]
      BY <1>1, <3>2 DEF WatchOK
    <3> QED
      BY <3>2, <3>3 DEF WatchOK
  <2>6. Single(x.garbage, new)
    <3> SUFFICES ASSUME NEW i \in DOMAIN new, NEW j \in DOMAIN new, new[i].clause = new[j].clause
                 PROVE  i = j
      BY DEF Single
    <3>1. f[i] \in J /\ f[j] \in J /\ new[i] = ws[f[i]] /\ new[j] = ws[f[j]]
      BY <2>4
    <3>2. f[i] = f[j]
      BY <2>1, <2>2, <3>1 DEF ListOK, Single
    <3> QED
      BY <2>4, <3>2
  <2> QED
    BY <2>3, <2>5, <2>6 DEF ListOK, new
<1>4. x.watches \in [Lits -> Seq(Watch)]
  <2>1. x.watches = [l \in Lits |-> x.watches[l]]
    BY <1>1
  <2> QED
    BY <1>3, <2>1
<1>5. DOMAIN x.lits \subseteq DOMAIN r.lits /\ \A k \in DOMAIN x.lits : x.lits[k] = r.lits[k]
  BY <1>1
<1>6. x.lits \in [DOMAIN x.lits -> Seq(Lits)] /\ IsFiniteSet(DOMAIN x.lits)
  <2>1. DOMAIN x.lits \in SUBSET DOMAIN r.lits
    BY <1>5
  <2>2. IsFiniteSet(DOMAIN x.lits)
    BY <1>2, <2>1, FS_Subset
  <2> QED
    BY <1>1, <1>2, <2>2
<1>7. RupTyped(x)
  <2>1. \A k \in DOMAIN x.lits : Distinct(x.lits[k])
    BY <1>5 DEF RupOK, RupTyped
  <2>2. DOMAIN x.lits \subseteq Nat \ {0}
    BY <1>5 DEF RupOK, RupTyped
  <2>3. r.trail \in Seq(Lits) /\ r.next \in 0..Len(r.trail)
    BY DEF RupOK, RupTyped
  <2> QED
    BY <1>1, <1>4, <1>6, <2>1, <2>2, <2>3 DEF RupTyped
<1>8. RupOK(x)
  BY <1>3, <1>7 DEF RupOK
<1> QED
  BY <1>1, <1>5, <1>8 DEF x

\* A deletion keeps what the checker trusts.
LEMMA CheckerDeleteFacts ==
  ASSUME NEW k, CheckerOK(k), NEW c, NEW id
  PROVE  LET e == CheckerDelete(k, id, c) IN
         CheckerOK(e.k) /\ \A S : Trusts(k, S) => Trusts(e.k, S)
<1> DEFINE found == {j \in Alive(k.r) : k.r.id[j] = id /\ Rng(k.r.lits[j]) = Rng(c)}
           r == MarkGarbage(k.r, CHOOSE j \in found : TRUE)
           x == IF Overflows(r) THEN CheckerCollect(r) ELSE r
           y == [k EXCEPT !.r = x]
           e == CheckerDelete(k, id, c)
<1>1. e.k = k \/ e.k = y
  BY DEF CheckerDelete
<1>2. RupOK(k.r) /\ k.r.conflict = 0 /\ k = [f \in {"r", "inconsistent"} |-> k[f]]
  BY DEF CheckerOK
<1>3. RupOK(r) /\ r.lits = k.r.lits /\ r.trail = k.r.trail /\ r.conflict = k.r.conflict
  BY <1>2, GarbageFacts DEF MarkGarbage
<1> HIDE DEF r, e
<1>4. /\ RupOK(x) /\ x.trail = r.trail /\ x.conflict = r.conflict
      /\ DOMAIN x.lits \subseteq DOMAIN r.lits /\ \A j \in DOMAIN x.lits : x.lits[j] = r.lits[j]
  <2> DEFINE G == {j \in Alive(r) : ClauseSatisfied(r, r.lits[j])}
             g == [r EXCEPT !.garbage = @ \cup G]
  <2>1. RupOK(g) /\ g.lits = r.lits /\ g.trail = r.trail /\ g.conflict = r.conflict
    BY <1>3, GarbageFacts
  <2>2. CheckerCollect(r) = Collect(g)
    BY DEF CheckerCollect
  <2> HIDE DEF g
  <2>3. /\ RupOK(Collect(g)) /\ Collect(g).trail = g.trail /\ Collect(g).conflict = g.conflict
        /\ DOMAIN Collect(g).lits \subseteq DOMAIN g.lits
        /\ \A j \in DOMAIN Collect(g).lits : Collect(g).lits[j] = g.lits[j]
    BY <2>1, CollectFacts
  <2> QED
    BY <1>3, <2>1, <2>2, <2>3
<1> HIDE DEF x
<1>5. y.r = x /\ y.inconsistent = k.inconsistent /\ y = [f \in {"r", "inconsistent"} |-> y[f]]
  BY <1>2
<1> HIDE DEF y
<1>6. CheckerOK(y)
  BY <1>2, <1>3, <1>4, <1>5 DEF CheckerOK
<1>7. \A S : Trusts(k, S) => Trusts(y, S)
  BY <1>3, <1>4, <1>5 DEF Trusts, Hits
<1> QED
  BY <1>1, <1>6, <1>7 DEF e

\* The checker starts with an empty table.
LEMMA CheckerInitFacts ==
  ASSUME Var \in Nat PROVE CheckerOK(CheckerInit) /\ \A S : Trusts(CheckerInit, S)
<1>1. /\ Init0.lits = <<>> /\ Init0.garbage = {} /\ Init0.watches = [l \in Lits |-> <<>>]
      /\ Init0.trail = <<>> /\ Init0.next = 0 /\ Init0.conflict = 0 /\ Shaped(Init0)
  BY DEF Init0, Shaped, Fields
<1>2. DOMAIN <<>> = {} /\ <<>> \in Seq(Lits) /\ <<>> \in Seq(Watch) /\ 0 \in 0..Len(<<>>)
      /\ <<>> \in [{} -> Seq(Lits)]
  OBVIOUS
<1>3. RupTyped(Init0)
  BY <1>1, <1>2, FS_EmptySet DEF RupTyped
<1>4. RupOK(Init0)
  BY <1>1, <1>2, <1>3 DEF RupOK, ListOK, Single
<1> QED
  BY <1>1, <1>2, <1>4 DEF CheckerOK, CheckerInit, Trusts, Hits, Rng

-----------------------------------------------------------------------------
(* The LRAT checker. *)

\* A chain that refutes the negation of c: c is true in every model of the table.
LEMMA ChainSound ==
  ASSUME Var \in Nat, NEW S, Total(S), NEW lits,
         \A id \in DOMAIN lits : lits[id] \in Seq(Lits) /\ Rng(lits[id]) \cap S # {},
         NEW c \in Seq(Lits), NEW T, NEW chain \in Seq(T), ChainRefutes(lits, c, chain)
  PROVE  Rng(c) \cap S # {}
<1> SUFFICES ASSUME Rng(c) \cap S = {} PROVE FALSE
  OBVIOUS
<1> DEFINE n == Len(chain)
           Step(st, id) ==
             IF st.end # "no" THEN st
             ELSE IF id \notin DOMAIN lits \/ Taut(lits[id]) \/ id \in st.used
             THEN [st EXCEPT !.end = "fail"]
             ELSE LET free == {l \in Rng(lits[id]) : -l \notin st.true} IN
                  IF Cardinality(free) > 1 THEN [st EXCEPT !.end = "fail"]
                  ELSE IF free = {} THEN [st EXCEPT !.end = "conflict"]
                  ELSE [st EXCEPT !.true = @ \cup free, !.used = @ \cup {id}]
           a == [true |-> {-l : l \in Rng(c)}, used |-> {}, end |-> "no"]
           FF(gg, mm) == [ss \in SUBSET (1..mm) |->
                         IF ss = {} THEN a ELSE LET xx == Max(ss) IN Step(gg[ss \ {xx}], chain[xx])]
           G == CHOOSE gg : gg = [ss \in SUBSET DOMAIN chain |->
                         IF ss = {} THEN a ELSE LET xx == Max(ss) IN Step(gg[ss \ {xx}], chain[xx])]
           QQ == {mm \in Nat : \E gg : gg = FF(gg, mm)}
           E == [i \in 0..n |-> G[1..i]]
<1>1. n \in Nat /\ DOMAIN chain = 1..n
  OBVIOUS
<1>2. FoldLeft(Step, a, chain) = G[1..n]
  <2> HIDE DEF n
  <2> QED
    BY <1>1 DEF FoldLeft, MapThenFoldSet
<1> HIDE DEF Step, a, n
<1>3. 0 \in QQ
  <2> DEFINE gg == [ss \in SUBSET (1..0) |-> a]
  <2>1. \A ss \in SUBSET (1..0) : ss = {}
    OBVIOUS
  <2>2. gg = FF(gg, 0)
    BY <2>1
  <2> QED
    BY <2>2
<1>4. ASSUME NEW mm \in Nat, mm \in QQ PROVE mm + 1 \in QQ
  <2>1. PICK gg : gg = FF(gg, mm)
    BY <1>4
  <2> DEFINE kk == [ss \in SUBSET (1..mm + 1) |->
                     IF mm + 1 \in ss THEN Step(gg[ss \ {mm + 1}], chain[mm + 1]) ELSE gg[ss]]
  <2>2. ASSUME NEW ss \in SUBSET (1..mm + 1)
        PROVE  kk[ss] = IF ss = {} THEN a ELSE LET xx == Max(ss) IN Step(kk[ss \ {xx}], chain[xx])
    <3>1. \A j \in 1..mm + 1 : j = mm + 1 \/ j \in 1..mm
      OBVIOUS
    <3>2. mm + 1 \notin 1..mm /\ 1..mm \subseteq 1..mm + 1 /\ mm + 1 \in Nat
      OBVIOUS
    <3>3. CASE mm + 1 \in ss
      <4>1. Max(ss) \in ss /\ (\A j \in ss : j <= Max(ss)) /\ ss # {}
        BY <3>2, <3>3, SubsetMax
      <4>2. Max(ss) = mm + 1
        <5>1. Max(ss) \in 1..mm + 1 /\ mm + 1 <= Max(ss)
          BY <3>3, <4>1
        <5> HIDE DEF kk
        <5> QED
          BY <5>1
      <4>3. ss \ {mm + 1} \in SUBSET (1..mm)
        BY <3>1
      <4>4. ss \ {mm + 1} \in SUBSET (1..mm + 1) /\ mm + 1 \notin ss \ {mm + 1}
        BY <3>2, <4>3
      <4>5. kk[ss \ {mm + 1}] = gg[ss \ {mm + 1}]
        BY <4>4
      <4> QED
        BY <3>3, <4>1, <4>2, <4>5
    <3>4. CASE mm + 1 \notin ss
      <4>1. ss \in SUBSET (1..mm)
        BY <3>1, <3>4
      <4>2. kk[ss] = gg[ss] /\ gg[ss] = FF(gg, mm)[ss]
        BY <2>1, <3>4
      <4>3. CASE ss = {}
        BY <2>1, <4>1, <4>2, <4>3
      <4>4. CASE ss # {}
        <5>1. Max(ss) \in ss
          BY <4>1, <4>4, SubsetMax
        <5>2. ss \ {Max(ss)} \in SUBSET (1..mm + 1) /\ mm + 1 \notin ss \ {Max(ss)}
          BY <3>2, <3>4, <4>1
        <5>3. kk[ss \ {Max(ss)}] = gg[ss \ {Max(ss)}]
          BY <5>2
        <5>4. gg[ss] = Step(gg[ss \ {Max(ss)}], chain[Max(ss)])
          BY <2>1, <4>1, <4>4
        <5> QED
          BY <4>2, <4>4, <5>3, <5>4
      <4> QED
        BY <4>3, <4>4
    <3> QED
      BY <3>3, <3>4
  <2>3. kk = FF(kk, mm + 1)
    <3> HIDE DEF kk
    <3>1. kk = [ss \in SUBSET (1..mm + 1) |-> kk[ss]]
      BY DEF kk
    <3> QED
      BY <2>2, <3>1
  <2> HIDE DEF kk, FF
  <2>4. mm + 1 \in Nat /\ \E e : e = FF(e, mm + 1)
    BY <2>3
  <2> QED
    BY <2>4
<1>5. n \in QQ
  <2> HIDE DEF QQ
  <2> QED
    BY <1>1, <1>3, <1>4, NatSetInduction
<1>6. G = FF(G, n)
  <2>1. PICK gg : gg = FF(gg, n)
    BY <1>5
  <2>2. gg = [ss \in SUBSET DOMAIN chain |->
                         IF ss = {} THEN a ELSE LET xx == Max(ss) IN Step(gg[ss \ {xx}], chain[xx])]
    BY <1>1, <2>1
  <2>3. G = [ss \in SUBSET DOMAIN chain |->
                         IF ss = {} THEN a ELSE LET xx == Max(ss) IN Step(G[ss \ {xx}], chain[xx])]
    BY <2>2
  <2> HIDE DEF G
  <2> QED
    BY <1>1, <2>3
<1> HIDE DEF G
<1>7. E[0] = a /\ E[n] = G[1..n]
  <2>1. 1..0 = {} /\ 0 \in 0..n /\ n \in 0..n
    BY <1>1
  <2>2. G[{}] = a
    <3>1. {} \in SUBSET (1..n)
      OBVIOUS
    <3> QED
      BY <1>6, <3>1
  <2> QED
    BY <2>1, <2>2
<1>8. ASSUME NEW i \in 1..n PROVE E[i] = Step(E[i - 1], chain[i])
  <2>0. i \in Nat /\ 1 <= i /\ i <= n /\ n \in Nat
    BY <1>1
  <2>1. 1..i \in SUBSET (1..n) /\ i \in 1..i /\ 1..i # {} /\ i \in Nat
    <3>1. \A j \in 1..i : j \in 1..n
      BY <2>0
    <3>2. i \in 1..i
      BY <2>0
    <3> QED
      BY <2>0, <3>1, <3>2
  <2>2. Max(1..i) \in 1..i /\ \A j \in 1..i : j <= Max(1..i)
    BY <2>1, SubsetMax
  <2>3. Max(1..i) = i
    BY <2>1, <2>2
  <2>4. (1..i) \ {i} = 1..i - 1
    BY <2>1
  <2>5. G[1..i] = Step(G[1..i - 1], chain[i])
    BY <1>6, <2>1, <2>3, <2>4
  <2>6. i \in 0..n /\ i - 1 \in 0..n
    BY <1>1
  <2> QED
    BY <2>5, <2>6
<1> HIDE DEF E
<1> DEFINE D(x) == x = [f \in {"true", "used", "end"} |-> x[f]] /\ x.true \subseteq S /\ x.end # "conflict"
<1>9. D(a)
  <2>1. \A l \in Rng(c) : -l \in S
    BY DEF Rng, Total
  <2> QED
    BY <2>1 DEF a
<1>10. ASSUME NEW x, NEW id, D(x) PROVE D(Step(x, id))
  <2> DEFINE free == {l \in Rng(lits[id]) : -l \notin x.true}
             y1 == [x EXCEPT !.end = "fail"]
             y2 == [x EXCEPT !.end = "conflict"]
             y3 == [x EXCEPT !.true = @ \cup free, !.used = @ \cup {id}]
  <2>1. Step(x, id) = IF x.end # "no" THEN x
             ELSE IF id \notin DOMAIN lits \/ Taut(lits[id]) \/ id \in x.used THEN y1
             ELSE IF Cardinality(free) > 1 THEN y1 ELSE IF free = {} THEN y2 ELSE y3
    BY DEF Step
  <2>2. D(y1)
    BY <1>10
  <2>3. ASSUME id \in DOMAIN lits PROVE \E l \in free : l \in S
    BY <1>10, <2>3 DEF Total, Rng
  <2>4. ASSUME id \in DOMAIN lits, ~(Cardinality(free) > 1) PROVE free \subseteq S
    <3>1. free \in SUBSET Lits
      BY <2>4 DEF Rng
    <3>2. IsFiniteSet(free)
      BY <3>1, FiniteLits
    <3> HIDE DEF free
    <3>3. free # {}
      BY <2>3, <2>4
    <3>4. Cardinality(free) \in Nat /\ Cardinality(free) # 0
      BY <3>2, <3>3, FS_EmptySet, FS_CardinalityType
    <3>5. Cardinality(free) = 1
      BY <2>4, <3>4
    <3>6. \E e : free = {e}
      BY <3>2, <3>5, FS_Singleton
    <3> QED
      BY <2>3, <2>4, <3>6
  <2>5. ASSUME free \subseteq S PROVE D(y3)
    <3> HIDE DEF free
    <3>1. y3 = [y3 EXCEPT !.end = @] /\ y3.true = x.true \cup free /\ y3.end = x.end
          /\ y3 = [f \in {"true", "used", "end"} |-> y3[f]]
      BY <1>10
    <3> HIDE DEF y3
    <3> QED
      BY <1>10, <2>5, <3>1
  <2> HIDE DEF y1, y2, y3, D, free
  <2>6. CASE id \notin DOMAIN lits
    <3>1. Step(x, id) = x \/ Step(x, id) = y1
      BY <2>1, <2>6
    <3> QED
      BY <1>10, <2>2, <3>1
  <2>7. CASE id \in DOMAIN lits
    <3>1. free # {} /\ (~(Cardinality(free) > 1) => D(y3))
      BY <2>3, <2>4, <2>5, <2>7
    <3> QED
      BY <1>10, <2>1, <2>2, <3>1
  <2> QED
    BY <2>6, <2>7
<1>11. \A i \in 0..n : D(E[i])
  <2> HIDE DEF D
  <2> DEFINE P == {i \in Nat : i <= n => D(E[i])}
  <2>1. 0 \in P
    BY <1>7, <1>9
  <2>2. ASSUME NEW i \in Nat, i \in P PROVE i + 1 \in P
    <3>1. i + 1 <= n => i <= n /\ i + 1 \in 1..n /\ (i + 1) - 1 = i
      BY <1>1
    <3>2. i + 1 <= n => E[i + 1] = Step(E[i], chain[i + 1])
      BY <1>8, <3>1
    <3> QED
      BY <1>10, <2>2, <3>1, <3>2
  <2>3. \A i \in Nat : i \in P
    <3> HIDE DEF P
    <3> QED
      BY <2>1, <2>2, NatSetInduction
  <2> QED
    BY <2>3
<1>12. FoldLeft(Step, a, chain).end = "conflict"
  BY DEF ChainRefutes, Step, a
<1>13. n \in 0..n
  BY <1>1
<1> QED
  BY <1>2, <1>7, <1>11, <1>12, <1>13

-----------------------------------------------------------------------------
\* The state of the checker of chains.
LratFields == {"strict", "lits", "current", "assumptions", "constraint", "failed", "concluded",
               "finalized", "saved"}
LratOK(s) == s = [f \in LratFields |-> s[f]] /\ \A id \in DOMAIN s.lits : s.lits[id] \in Seq(Lits)

LratHits(s, S) == \A id \in DOMAIN s.lits : Rng(s.lits[id]) \cap S # {}

\* x is s but for what chains do not depend on.
SameTable(s, x) == x = [f \in LratFields |-> x[f]] /\ x.lits = s.lits

\* A table that is only read, or of which clauses are only marked, stays true.
LEMMA SameTableFacts ==
  ASSUME NEW s, LratOK(s), NEW x, SameTable(s, x)
  PROVE  LratOK(x) /\ \A S : LratHits(s, S) => LratHits(x, S)
BY DEF LratOK, LratHits, SameTable

\* A clause more.
LEMMA WithClause ==
  ASSUME NEW s, LratOK(s), NEW c \in Seq(Lits), NEW id, NEW x, x = [f \in LratFields |-> x[f]],
         x.lits = With(s.lits, id, c)
  PROVE  LratOK(x) /\ \A S : LratHits(s, S) /\ Rng(c) \cap S # {} => LratHits(x, S)
<1>1. DOMAIN x.lits = DOMAIN s.lits \cup {id}
      /\ \A j \in DOMAIN x.lits : x.lits[j] = IF j = id THEN c ELSE s.lits[j]
  BY DEF With
<1> QED
  BY <1>1 DEF LratOK, LratHits

\* Some clauses less.
LEMMA WithoutClause ==
  ASSUME NEW s, LratOK(s), NEW x, x = [f \in LratFields |-> x[f]],
         \A j \in DOMAIN x.lits : j \in DOMAIN s.lits /\ x.lits[j] = s.lits[j]
  PROVE  LratOK(x) /\ \A S : LratHits(s, S) => LratHits(x, S)
BY DEF LratOK, LratHits

\* An original clause enters the table of the LRAT checker.
LEMMA LratOriginalFacts ==
  ASSUME NEW s, LratOK(s), NEW c \in Seq(Lits), NEW id, NEW restore
  PROVE  LET x == LratOriginal(s, id, c, restore).s IN
         LratOK(x) /\ \A S : LratHits(s, S) /\ Rng(c) \cap S # {} => LratHits(x, S)
<1> DEFINE b == IF restore THEN LratRestore(s, id, c).s ELSE s
           x == [b EXCEPT !.lits = With(@, id, c),
                          !.current = IF ~restore /\ id = @ + 1 THEN id ELSE @]
<1>1. LratOriginal(s, id, c, restore).s = x
  BY DEF LratOriginal
<1>2. b = [f \in LratFields |-> b[f]] /\ b.lits = s.lits
  BY DEF LratRestore, LratOK, LratFields
<1> HIDE DEF b
<1>3. x = [f \in LratFields |-> x[f]] /\ x.lits = With(s.lits, id, c)
  BY <1>2 DEF LratFields
<1> HIDE DEF x
<1> QED
  BY <1>1, <1>3, WithClause

\* A clause enters it when its chain refutes the negation, so that it follows
\* from the table.
LEMMA LratDerivedFacts ==
  ASSUME Var \in Nat, NEW s, LratOK(s), NEW c \in Seq(Lits), NEW id, NEW chain
  PROVE  LET x == LratDerived(s, id, c, chain) IN
         /\ LratOK(x.s)
         /\ \A S : LratHits(s, S) /\ Rng(c) \cap S # {} => LratHits(x.s, S)
         /\ \A T : chain \in Seq(T) => \A S : Total(S) /\ LratHits(s, S) /\ x.ok => Rng(c) \cap S # {}
<1> DEFINE x == [s EXCEPT !.lits = With(@, id, c), !.current = id]
<1>1. LratDerived(s, id, c, chain).s = x
  BY DEF LratDerived
<1>3. x = [f \in LratFields |-> x[f]] /\ x.lits = With(s.lits, id, c)
  BY DEF LratFields, LratOK
<1> HIDE DEF x
<1>4. LratOK(x) /\ \A S : LratHits(s, S) /\ Rng(c) \cap S # {} => LratHits(x, S)
  BY <1>3, WithClause
<1>5. ASSUME NEW T, chain \in Seq(T), NEW S, Total(S), LratHits(s, S), LratDerived(s, id, c, chain).ok
      PROVE  Rng(c) \cap S # {}
  <2>1. Taut(c) \/ ChainRefutes(s.lits, c, chain)
    BY <1>5 DEF LratDerived, CheckChain
  <2>2. CASE Taut(c)
    BY <1>5, <2>2 DEF Taut, Total, Rng
  <2>3. CASE ChainRefutes(s.lits, c, chain)
    <3>1. \A j \in DOMAIN s.lits : s.lits[j] \in Seq(Lits) /\ Rng(s.lits[j]) \cap S # {}
      BY <1>5 DEF LratOK, LratHits
    <3> QED
      BY <1>5, <2>3, <3>1, ChainSound
  <2> QED
    BY <2>1, <2>2, <2>3
<1> QED
  BY <1>1, <1>4, <1>5

\* A deletion takes a clause away.
LEMMA LratDeleteFacts ==
  ASSUME NEW s, LratOK(s), NEW c, NEW id
  PROVE  LET x == LratDelete(s, id, c).s IN LratOK(x) /\ \A S : LratHits(s, S) => LratHits(x, S)
<1> DEFINE x == [s EXCEPT !.lits = Without(@, id)]
<1>1. LratDelete(s, id, c).s = x
  BY DEF LratDelete
<1>2. x = [f \in LratFields |-> x[f]] /\ x.lits = Without(s.lits, id)
  BY DEF LratFields, LratOK
<1> HIDE DEF x
<1>3. \A j \in DOMAIN x.lits : j \in DOMAIN s.lits /\ x.lits[j] = s.lits[j]
  BY <1>2 DEF Without
<1> QED
  BY <1>1, <1>2, <1>3, WithoutClause

\* A clause over failed assumptions is checked and not kept.
LEMMA LratAssumptionClauseFacts ==
  ASSUME NEW s, LratOK(s), NEW c \in Seq(Lits), NEW id, NEW chain
  PROVE  LET x == LratAssumptionClause(s, id, c, chain).s IN
         LratOK(x) /\ \A S : LratHits(s, S) => LratHits(x, S)
<1> DEFINE y == [s EXCEPT !.lits = With(@, id, c), !.current = id]
           z == [y EXCEPT !.lits = Without(@, id)]
           x == [z EXCEPT !.failed = Append(@, id)]
<1>1. LratAssumptionClause(s, id, c, chain).s = x
  BY DEF LratAssumptionClause, LratDerived, LratDelete
<1>2. y = [f \in LratFields |-> y[f]] /\ y.lits = With(s.lits, id, c)
  BY DEF LratFields, LratOK
<1> HIDE DEF y
<1>3. z = [f \in LratFields |-> z[f]] /\ z.lits = Without(y.lits, id)
  BY <1>2 DEF LratFields
<1> HIDE DEF z
<1>4. x = [f \in LratFields |-> x[f]] /\ x.lits = z.lits
  BY <1>3 DEF LratFields
<1> HIDE DEF x
<1>5. \A j \in DOMAIN x.lits : j \in DOMAIN s.lits /\ x.lits[j] = s.lits[j]
  <2>1. DOMAIN y.lits = DOMAIN s.lits \cup {id} /\ \A j \in DOMAIN s.lits \ {id} : y.lits[j] = s.lits[j]
    BY <1>2 DEF With
  <2>2. DOMAIN z.lits = DOMAIN y.lits \ {id} /\ \A j \in DOMAIN z.lits : z.lits[j] = y.lits[j]
    BY <1>3 DEF Without
  <2> QED
    BY <1>4, <2>1, <2>2
<1> QED
  BY <1>1, <1>4, <1>5, WithoutClause

\* What the other events do not change.
LEMMA LratOtherFacts ==
  ASSUME NEW s, LratOK(s), NEW id, NEW c, NEW a, NEW type, NEW ids, NEW strict
  PROVE  /\ SameTable(s, LratWeaken(s, id, c).s) /\ SameTable(s, LratFinalize(s, id, c).s)
         /\ SameTable(s, LratReport(s).s) /\ SameTable(s, LratConclude(s, type, ids).s)
         /\ SameTable(s, LratAssume(s, a)) /\ SameTable(s, LratConstrain(s, c))
         /\ SameTable(s, LratResetAssumptions(s)) /\ SameTable(s, LratBegin(s, id))
<1>1. SameTable(s, LratWeaken(s, id, c).s)
  BY DEF LratWeaken, SameTable, LratOK, LratFields
<1>2. SameTable(s, LratFinalize(s, id, c).s)
  BY DEF LratFinalize, SameTable, LratOK, LratFields
<1>3. SameTable(s, LratReport(s).s)
  BY DEF LratReport, SameTable, LratOK, LratFields
<1>4. SameTable(s, LratConclude(s, type, ids).s)
  BY DEF LratConclude, SameTable, LratOK, LratFields
<1>5. SameTable(s, LratAssume(s, a)) /\ SameTable(s, LratConstrain(s, c))
  BY DEF LratAssume, LratConstrain, SameTable, LratOK, LratFields
<1>6. SameTable(s, LratResetAssumptions(s)) /\ SameTable(s, LratBegin(s, id))
  BY DEF LratResetAssumptions, LratBegin, SameTable, LratOK, LratFields
<1> QED
  BY <1>1, <1>2, <1>3, <1>4, <1>5, <1>6

\* An empty table is true in every set.
LEMMA LratInitFacts ==
  ASSUME NEW strict PROVE LratOK(LratInit(strict)) /\ \A S : LratHits(LratInit(strict), S)
<1>1. DOMAIN <<>> = {}
  OBVIOUS
<1> QED
  BY <1>1 DEF LratInit, LratOK, LratHits, LratFields

-----------------------------------------------------------------------------
(* The events of a proof. *)

Totals(M) == \A S \in M : Total(S)

\* What the checkers have in their tables holds in every set of M.
Checkers(l, k, M) ==
  LratOK(l) /\ CheckerOK(k) /\ \A S \in M : LratHits(l, S) /\ Trusts(k, S)

PFields == {"b", "l", "k", "failed", "file"}
IsProof(p) == p = [f \in PFields |-> p[f]]
Good(p, M) == IsProof(p) /\ Checkers(p.l, p.k, M)

Fine(p, M) == IsProof(p) /\ (p.failed \/ Good(p, M))

\* Every set of M makes a literal of c true.
True(c, M) == \A S \in M : Rng(c) \cap S # {}

-----------------------------------------------------------------------------
\* What the checkers that are on leave of a proof.
LEMMA CheckedFacts ==
  ASSUME NEW p, IsProof(p), NEW lrat, NEW checker
  PROVE  LET told == Checked(p, lrat, checker) IN
         /\ IsProof(told) /\ told.l = (IF HasLrat THEN lrat.s ELSE p.l)
         /\ told.k = (IF HasChecker THEN checker.k ELSE p.k) /\ told.b = p.b /\ told.file = p.file
         /\ told.failed = ((HasLrat /\ ~lrat.ok) \/ (HasChecker /\ ~checker.ok))
BY DEF Checked, IsProof, PFields

\* What the events of a clause leave of the checkers' tables.
LEMMA AddOriginalClauseShape ==
  ASSUME NEW p, IsProof(p), NEW c, NEW id, NEW restore
  PROVE  LET q == AddOriginalClause(p, id, c, restore)
         IN /\ IsProof(q) /\ q.l = (IF HasLrat THEN LratOriginal(p.l, id, c, restore).s ELSE p.l)
            /\ q.k = (IF HasChecker THEN CheckerOriginal(p.k, id, c) ELSE p.k)
<1> DEFINE L == LratOriginal(p.l, id, c, restore)
           K == [ok |-> TRUE, k |-> CheckerOriginal(p.k, id, c)]
           told == Checked(p, L, K)
           q == AddOriginalClause(p, id, c, restore)
<1>1. \E b, f : q = [told EXCEPT !.b = b, !.file = f]
  BY DEF AddOriginalClause
<1> HIDE DEF L, q
<1>2. /\ IsProof(told) /\ told.l = (IF HasLrat THEN L.s ELSE p.l)
      /\ told.k = (IF HasChecker THEN K.k ELSE p.k)
  <2> HIDE DEF K
  <2> QED
    BY CheckedFacts
<1> HIDE DEF told
<1>3. IsProof(q) /\ q.l = told.l /\ q.k = told.k
  BY <1>1, <1>2 DEF IsProof, PFields
<1> QED
  BY <1>2, <1>3 DEF L, q

\* An original clause that is true in every set of M keeps the checkers right.
LEMMA AddOriginalClauseFacts ==
  ASSUME Var \in Nat, NEW M, Totals(M), NEW p, Good(p, M), NEW c \in Seq(Lits), True(c, M), NEW id,
         NEW restore
  PROVE  Good(AddOriginalClause(p, id, c, restore), M)
<1> DEFINE L == LratOriginal(p.l, id, c, restore)
           K == CheckerOriginal(p.k, id, c)
           q == AddOriginalClause(p, id, c, restore)
<1>1. IsProof(p) /\ Checkers(p.l, p.k, M)
  BY DEF Good
<1>2. Checkers(L.s, K, M)
  <2>1. LratOK(L.s) /\ \A S : LratHits(p.l, S) /\ Rng(c) \cap S # {} => LratHits(L.s, S)
    BY <1>1, LratOriginalFacts DEF Checkers
  <2>2. CheckerOK(K) /\ \A S : Total(S) /\ Trusts(p.k, S) /\ Rng(c) \cap S # {} => Trusts(K, S)
    BY <1>1, CheckerOriginalFacts DEF Checkers
  <2> HIDE DEF L, K
  <2> QED
    BY <1>1, <2>1, <2>2 DEF Checkers, True, Totals
<1>3. IsProof(q) /\ q.l = (IF HasLrat THEN L.s ELSE p.l) /\ q.k = (IF HasChecker THEN K ELSE p.k)
  BY <1>1, AddOriginalClauseShape
<1> HIDE DEF L, K, q
<1> QED
  BY <1>1, <1>2, <1>3 DEF Good, Checkers, q

\* The chain of a derived clause is the builder's or the solver's, and each
\* checker that is on has a veto.
LEMMA AddDerivedClauseShape ==
  ASSUME NEW p, IsProof(p), NEW c, NEW id, NEW redundant, NEW given
  PROVE  LET q == AddDerivedClause(p, id, redundant, c, given)
             chain == IF HasBuilder THEN Built(p, id, c).chain ELSE given
             L == LratDerived(p.l, id, c, chain)
             K == CheckerDerived(p.k, id, c)
         IN /\ IsProof(q) /\ q.l = (IF HasLrat THEN L.s ELSE p.l)
            /\ q.k = (IF HasChecker THEN K.k ELSE p.k)
            /\ q.failed = (((HasLrat /\ ~L.ok) \/ (HasChecker /\ ~K.ok)) \/ ~Built(p, id, c).ok)
<1> DEFINE built == Built(p, id, c)
           chain == IF HasBuilder THEN built.chain ELSE given
           p1 == [p EXCEPT !.b = built.b]
           L == LratDerived(p.l, id, c, chain)
           K == CheckerDerived(p.k, id, c)
           told == Checked(p1, L, K)
           q == AddDerivedClause(p, id, redundant, c, given)
<1>2. \E f : q = [told EXCEPT !.failed = @ \/ ~built.ok, !.file = f]
  <2> DEFINE Told(b) ==
               LET ch == IF HasBuilder THEN b.chain ELSE given
                   f == p.file
                   to == Checked([p EXCEPT !.b = b.b], LratDerived(p.l, id, c, ch), CheckerDerived(p.k, id, c))
               IN [to EXCEPT !.failed = @ \/ ~b.ok,
                    !.file = [f EXCEPT !.lrat = LratFileDerived(@, id, ch),
                                       !.frat = FratDerived(@, id, ch),
                                       !.veripb = VeripbDerived(@, id, redundant, ch),
                                       !.idrup = IdrupDerived(@, c),
                                       !.lidrup = LidrupAdd(@, id, ch)]]
             X == Told(built)
  <2>1. q = Only({Told(x) : x \in {built}})
    BY DEF AddDerivedClause
  <2>2. {Told(x) : x \in {built}} = {X}
    <3> HIDE DEF Told, built
    <3> QED
      BY DEF X
  <2>3. \E f : X = [told EXCEPT !.failed = @ \/ ~built.ok, !.file = f]
    <3> HIDE DEF built, K
    <3> QED
      BY DEF K
  <2> HIDE DEF X, Told, q, built, told
  <2> QED
    BY <2>1, <2>2, <2>3, OnlyOne
<1>3. IsProof(p1) /\ p1.l = p.l /\ p1.k = p.k
  BY DEF IsProof, PFields
<1> HIDE DEF p1, L, K, q, built
<1>4. /\ IsProof(told) /\ told.l = (IF HasLrat THEN L.s ELSE p.l)
      /\ told.k = (IF HasChecker THEN K.k ELSE p.k)
      /\ told.failed = ((HasLrat /\ ~L.ok) \/ (HasChecker /\ ~K.ok))
  BY <1>3, CheckedFacts
<1> HIDE DEF told
<1>5. IsProof(q) /\ q.l = told.l /\ q.k = told.k /\ q.failed = (told.failed \/ ~built.ok)
  BY <1>2, <1>4 DEF IsProof, PFields
<1> QED
  BY <1>4, <1>5 DEF q, L, K, built

\* A clause that the checkers let pass is true in every set of M.
LEMMA AddDerivedClauseFacts ==
  ASSUME Var \in Nat, NEW M, Totals(M), NEW p, Good(p, M), NEW c \in Seq(Lits), NEW id, NEW redundant,
         NEW given, mode \in {"external", "internal", "drup"},
         mode = "internal" => given \in Seq(Rng(given))
  PROVE  LET q == AddDerivedClause(p, id, redundant, c, given) IN
         IsProof(q) /\ (q.failed \/ (Good(q, M) /\ True(c, M)))
<1> DEFINE built == Built(p, id, c)
           chain == IF HasBuilder THEN built.chain ELSE given
           L == LratDerived(p.l, id, c, chain)
           K == CheckerDerived(p.k, id, c)
           q == AddDerivedClause(p, id, redundant, c, given)
<1>1. IsProof(p) /\ Checkers(p.l, p.k, M)
  BY DEF Good
<1>4. /\ IsProof(q) /\ q.l = (IF HasLrat THEN L.s ELSE p.l)
      /\ q.k = (IF HasChecker THEN K.k ELSE p.k)
      /\ q.failed = (((HasLrat /\ ~L.ok) \/ (HasChecker /\ ~K.ok)) \/ ~built.ok)
  BY <1>1, AddDerivedClauseShape
<1> HIDE DEF q, L, K, built
<1> HIDE DEF chain
<1>6. /\ LratOK(L.s) /\ \A S : LratHits(p.l, S) /\ Rng(c) \cap S # {} => LratHits(L.s, S)
      /\ \A T : chain \in Seq(T) => \A S : Total(S) /\ LratHits(p.l, S) /\ L.ok => Rng(c) \cap S # {}
  BY <1>1, LratDerivedFacts DEF L, Checkers
<1>7. CheckerOK(K.k) /\ \A S : Total(S) /\ Trusts(p.k, S) => Trusts(K.k, S) /\ (K.ok => Rng(c) \cap S # {})
  BY <1>1, CheckerDerivedFacts DEF K, Checkers
<1> SUFFICES ASSUME ~q.failed PROVE Good(q, M) /\ True(c, M)
  BY <1>4 DEF q
<1>8. (HasLrat => L.ok) /\ (HasChecker => K.ok)
  BY <1>4
<1>9. True(c, M)
  <2>1. CASE HasChecker
    BY <1>1, <1>7, <1>8, <2>1 DEF True, Totals, Checkers
  <2>2. CASE ~HasChecker
    <3>1. mode = "internal" /\ HasLrat
      BY <2>2 DEF HasChecker, HasLrat
    <3>2. chain = given
      BY <3>1 DEF chain, HasBuilder
    <3>3. chain \in Seq(Rng(given))
      BY <3>1, <3>2
    <3> QED
      BY <1>1, <1>6, <1>8, <3>1, <3>3 DEF True, Totals, Checkers
  <2> QED
    BY <2>1, <2>2
<1>10. Checkers(q.l, q.k, M)
  <2>1. LratOK(q.l) /\ \A S \in M : LratHits(q.l, S)
    BY <1>1, <1>4, <1>6, <1>9 DEF Checkers, True
  <2>2. CheckerOK(q.k) /\ \A S \in M : Trusts(q.k, S)
    BY <1>1, <1>4, <1>7 DEF Checkers, Totals
  <2> QED
    BY <2>1, <2>2 DEF Checkers
<1> QED
  BY <1>4, <1>9, <1>10 DEF Good

\* A deletion reaches the checkers that are on.
LEMMA DeleteClauseShape ==
  ASSUME NEW p, IsProof(p), NEW c, NEW id, NEW redundant
  PROVE  LET q == DeleteClause(p, id, redundant, c)
         IN /\ IsProof(q) /\ q.l = (IF HasLrat THEN LratDelete(p.l, id, c).s ELSE p.l)
            /\ q.k = (IF HasChecker THEN CheckerDelete(p.k, id, c).k ELSE p.k)
<1> DEFINE L == LratDelete(p.l, id, c)
           K == CheckerDelete(p.k, id, c)
           told == Checked(p, L, K)
           q == DeleteClause(p, id, redundant, c)
<1>1. \E v, b, f : q = [told EXCEPT !.failed = v, !.b = b, !.file = f]
  <2> HIDE DEF L, K
  <2> QED
    BY DEF DeleteClause, L, K
<1> HIDE DEF L, K, q
<1>2. /\ IsProof(told) /\ told.l = (IF HasLrat THEN L.s ELSE p.l)
      /\ told.k = (IF HasChecker THEN K.k ELSE p.k)
  BY CheckedFacts
<1> HIDE DEF told
<1>3. IsProof(q) /\ q.l = told.l /\ q.k = told.k
  BY <1>1, <1>2 DEF IsProof, PFields
<1> QED
  BY <1>2, <1>3 DEF q, L, K

\* A deletion takes nothing from what the checkers' tables imply.
LEMMA DeleteClauseFacts ==
  ASSUME NEW M, NEW p, Good(p, M), NEW c, NEW id, NEW redundant
  PROVE  Good(DeleteClause(p, id, redundant, c), M)
<1> DEFINE L == LratDelete(p.l, id, c)
           K == CheckerDelete(p.k, id, c)
           q == DeleteClause(p, id, redundant, c)
<1>1. IsProof(p) /\ Checkers(p.l, p.k, M)
  BY DEF Good
<1>2. LratOK(L.s) /\ \A S : LratHits(p.l, S) => LratHits(L.s, S)
  BY <1>1, LratDeleteFacts DEF Checkers
<1>3. CheckerOK(K.k) /\ \A S : Trusts(p.k, S) => Trusts(K.k, S)
  BY <1>1, CheckerDeleteFacts DEF Checkers
<1>4. IsProof(q) /\ q.l = (IF HasLrat THEN L.s ELSE p.l) /\ q.k = (IF HasChecker THEN K.k ELSE p.k)
  BY <1>1, DeleteClauseShape
<1> HIDE DEF L, K, q
<1> QED
  BY <1>1, <1>2, <1>3, <1>4 DEF Good, Checkers, q

\* A clause over failed assumptions is forgotten at once.
LEMMA AddAssumptionClauseFacts ==
  ASSUME Var \in Nat, NEW M, Totals(M), NEW p, Good(p, M), NEW c \in Seq(Lits), NEW id, NEW given
  PROVE  Good(AddAssumptionClause(p, id, c, given), M)
<1> DEFINE built == Built(p, id, c)
           chain == IF HasBuilder THEN built.chain ELSE given
           Deleted(added) == [CheckerDelete(added.k, id, c) EXCEPT !.ok = @ /\ added.ok]
           A == CheckerDerived(p.k, id, c)
           K == Deleted(A)
           L == LratAssumptionClause(p.l, id, c, chain)
           told == Checked(p, L, K)
           q == AddAssumptionClause(p, id, c, given)
<1>1. IsProof(p) /\ Checkers(p.l, p.k, M)
  BY DEF Good
<1>0. Only({Deleted(x) : x \in {A}}) = K
  <2>1. {Deleted(x) : x \in {A}} = {K}
    <3> HIDE DEF Deleted, A
    <3> QED
      BY DEF K
  <2> HIDE DEF Deleted, A, K
  <2> QED
    BY <2>1, OnlyOne
<1>2. IsProof(q) /\ q.l = told.l /\ q.k = told.k
  <2> DEFINE Told(bl) ==
        LET ch == IF HasBuilder THEN bl.chain ELSE given
            checked == Only({Deleted(x) : x \in {A}})
            to == Checked(p, LratAssumptionClause(p.l, id, c, ch), checked)
        IN [to EXCEPT !.failed = @ \/ ~bl.ok,
             !.b = IF HasBuilder /\ bl.ok THEN BuilderDelete(bl.b, id) ELSE @,
             !.file.idrup = IdrupAssumptionClause(@, id, c),
             !.file.lidrup = LidrupAssumptionClause(@, id, ch)]
             X == Told(built)
  <2>1. q = Only({Told(x) : x \in {built}})
    BY DEF AddAssumptionClause
  <2>2. {Told(x) : x \in {built}} = {X}
    <3> HIDE DEF Told, built
    <3> QED
      BY DEF X
  <2>4. IsProof(told)
    <3> HIDE DEF L, K
    <3> QED
      BY <1>1, CheckedFacts
  <2>3. IsProof(X) /\ X.l = told.l /\ X.k = told.k
    <3> DEFINE d == Only({Deleted(x) : x \in {A}})
               to == Checked(p, L, d)
    <3>1. X = [to EXCEPT !.failed = @ \/ ~built.ok,
             !.b = IF HasBuilder /\ built.ok THEN BuilderDelete(built.b, id) ELSE @,
             !.file.idrup = IdrupAssumptionClause(@, id, c),
             !.file.lidrup = LidrupAssumptionClause(@, id, chain)]
      OBVIOUS
    <3>2. to = told
      <4> HIDE DEF d, K, L
      <4> QED
        BY <1>0 DEF d
    <3> HIDE DEF to, told, X, built, chain
    <3> QED
      BY <2>4, <3>1, <3>2 DEF IsProof, PFields
  <2> HIDE DEF X, Told, q, built, told
  <2> QED
    BY <2>1, <2>2, <2>3, OnlyOne
<1>3. LratOK(L.s) /\ \A S : LratHits(p.l, S) => LratHits(L.s, S)
  <2> HIDE DEF chain
  <2> QED
    BY <1>1, LratAssumptionClauseFacts DEF Checkers
<1>4. CheckerOK(K.k) /\ \A S : Total(S) /\ Trusts(p.k, S) => Trusts(K.k, S)
  <2>1. CheckerOK(A.k) /\ \A S : Total(S) /\ Trusts(p.k, S) => Trusts(A.k, S)
    BY <1>1, CheckerDerivedFacts DEF Checkers
  <2> HIDE DEF A
  <2> DEFINE e == CheckerDelete(A.k, id, c)
  <2>2. CheckerOK(e.k) /\ \A S : Trusts(A.k, S) => Trusts(e.k, S)
    BY <2>1, CheckerDeleteFacts
  <2>3. e = [f \in {"ok", "k"} |-> e[f]]
    BY DEF CheckerDelete
  <2>4. K.k = e.k
    <3>1. K = [e EXCEPT !.ok = @ /\ A.ok]
      OBVIOUS
    <3> HIDE DEF K, e
    <3> QED
      BY <2>3, <3>1
  <2> HIDE DEF e, K
  <2> QED
    BY <2>1, <2>2, <2>4
<1> HIDE DEF L, K, q
<1>5. /\ IsProof(told) /\ told.l = (IF HasLrat THEN L.s ELSE p.l)
      /\ told.k = (IF HasChecker THEN K.k ELSE p.k)
  BY <1>1, CheckedFacts
<1> HIDE DEF told
<1> QED
  BY <1>1, <1>2, <1>3, <1>4, <1>5 DEF Good, Checkers, Totals, q

\* An event that the checkers only take note of.
LEMMA NotedFacts ==
  ASSUME NEW M, NEW p, Good(p, M), NEW q, IsProof(q), q.k = p.k, q.l = p.l \/ SameTable(p.l, q.l)
  PROVE  Good(q, M)
<1>1. Checkers(p.l, p.k, M) /\ LratOK(p.l)
  BY DEF Good, Checkers
<1>2. LratOK(q.l) /\ \A S : LratHits(p.l, S) => LratHits(q.l, S)
  BY <1>1, SameTableFacts
<1> QED
  BY <1>1, <1>2 DEF Good, Checkers

\* The other events leave the clauses of the checkers alone.
LEMMA OtherEvents ==
  ASSUME NEW M, NEW p, Good(p, M), NEW id, NEW c, NEW a, NEW type, NEW ids
  PROVE  /\ Good(WeakenMinus(p, id, c), M) /\ Good(StrengthenEvent(p, id), M)
         /\ Good(FinalizeClause(p, id, c), M) /\ Good(ReportStatus(p), M)
         /\ Good(ConcludeUnsat(p, type, ids), M) /\ Good(AddAssumption(p, a), M)
         /\ Good(AddConstraint(p, c), M) /\ Good(SolveQuery(p), M)
         /\ Good(ResetAssumptions(p), M) /\ Good(BeginProof(p, id), M)
<1>1. IsProof(p) /\ LratOK(p.l)
  BY DEF Good, Checkers
<1>2. /\ SameTable(p.l, LratWeaken(p.l, id, c).s) /\ SameTable(p.l, LratFinalize(p.l, id, c).s)
      /\ SameTable(p.l, LratReport(p.l).s) /\ SameTable(p.l, LratConclude(p.l, type, ids).s)
      /\ SameTable(p.l, LratAssume(p.l, a)) /\ SameTable(p.l, LratConstrain(p.l, c))
      /\ SameTable(p.l, LratResetAssumptions(p.l)) /\ SameTable(p.l, LratBegin(p.l, id))
  BY <1>1, LratOtherFacts
<1> DEFINE q1 == WeakenMinus(p, id, c)  q2 == StrengthenEvent(p, id)  q3 == FinalizeClause(p, id, c)
           q4 == ReportStatus(p)  q5 == ConcludeUnsat(p, type, ids)  q6 == AddAssumption(p, a)
           q7 == AddConstraint(p, c)  q8 == SolveQuery(p)  q9 == ResetAssumptions(p)  q10 == BeginProof(p, id)
<1>3. IsProof(q1) /\ q1.k = p.k /\ q1.l = IF HasLrat THEN LratWeaken(p.l, id, c).s ELSE p.l
  BY <1>1 DEF WeakenMinus, IsProof, PFields
<1>4. IsProof(q2) /\ q2.k = p.k /\ q2.l = p.l
  BY <1>1 DEF StrengthenEvent, IsProof, PFields
<1>5. IsProof(q3) /\ q3.k = p.k /\ q3.l = IF HasLrat THEN LratFinalize(p.l, id, c).s ELSE p.l
  BY <1>1 DEF FinalizeClause, IsProof, PFields
<1>6. IsProof(q4) /\ q4.k = p.k /\ q4.l = IF HasLrat THEN LratReport(p.l).s ELSE p.l
  BY <1>1 DEF ReportStatus, IsProof, PFields
<1>7. IsProof(q5) /\ q5.k = p.k /\ q5.l = IF HasLrat THEN LratConclude(p.l, type, ids).s ELSE p.l
  BY <1>1 DEF ConcludeUnsat, IsProof, PFields
<1>8. IsProof(q6) /\ q6.k = p.k /\ q6.l = IF HasLrat THEN LratAssume(p.l, a) ELSE p.l
  BY <1>1 DEF AddAssumption, IsProof, PFields
<1>9. IsProof(q7) /\ q7.k = p.k /\ q7.l = IF HasLrat THEN LratConstrain(p.l, c) ELSE p.l
  BY <1>1 DEF AddConstraint, IsProof, PFields
<1>10. IsProof(q8) /\ q8.k = p.k /\ q8.l = p.l
  BY <1>1 DEF SolveQuery, IsProof, PFields
<1>11. IsProof(q9) /\ q9.k = p.k /\ q9.l = IF HasLrat THEN LratResetAssumptions(p.l) ELSE p.l
  BY <1>1 DEF ResetAssumptions, IsProof, PFields
<1>12. IsProof(q10) /\ q10.k = p.k /\ q10.l = IF HasLrat THEN LratBegin(p.l, id) ELSE p.l
  BY <1>1 DEF BeginProof, IsProof, PFields
<1> HIDE DEF q1, q2, q3, q4, q5, q6, q7, q8, q9, q10
<1>13. Good(q1, M) /\ Good(q2, M) /\ Good(q3, M) /\ Good(q4, M) /\ Good(q5, M)
  BY <1>2, <1>3, <1>4, <1>5, <1>6, <1>7, NotedFacts
<1>14. Good(q6, M) /\ Good(q7, M) /\ Good(q8, M) /\ Good(q9, M) /\ Good(q10, M)
  BY <1>2, <1>8, <1>9, <1>10, <1>11, <1>12, NotedFacts
<1> QED
  BY <1>13, <1>14 DEF q1, q2, q3, q4, q5, q6, q7, q8, q9, q10

\* An empty proof is right.
LEMMA ProofInitFacts ==
  ASSUME Var \in Nat, NEW M, NEW m PROVE Good(ProofInit(m), M)
<1>1. IsProof(ProofInit(m)) /\ ProofInit(m).l = LratInit(m = "internal") /\ ProofInit(m).k = CheckerInit
  BY DEF ProofInit, IsProof, PFields
<1> QED
  BY <1>1, CheckerInitFacts, LratInitFacts DEF Good, Checkers

-----------------------------------------------------------------------------
(* The clauses of the solver. *)

\* The clauses of the solver are clauses, finitely many, and true in every set of M.
DbOK(d, M) ==
  /\ IsFiniteSet(DOMAIN d)
  /\ d \in [DOMAIN d -> [lits : Seq(Lits), redundant : BOOLEAN, garbage : BOOLEAN]]
  /\ \A id \in DOMAIN d : True(d[id].lits, M)
WeakOK(w, M) == w \in [DOMAIN w -> Seq(Lits)] /\ \A id \in DOMAIN w : True(w[id], M)

\* The clauses of d under the ids of D.
Part(d, D) == [id \in D |-> d[id]]

-----------------------------------------------------------------------------
\* A function on an interval is a sequence over its own elements.
LEMMA IsSequence ==
  ASSUME NEW n \in Nat, NEW s, s = [i \in 1..n |-> s[i]]
  PROVE  s \in Seq(Rng(s)) /\ Len(s) = n
<1>1. s \in [1..n -> Rng(s)]
  BY DEF Rng
<1> QED
  BY <1>1

\* A deletion, or a clause that is finalized, keeps a proof right that is, or
\* that a checker has stopped.
LEMMA EventIfFine ==
  ASSUME NEW M, NEW p, Fine(p, M), NEW id, NEW redundant, NEW c
  PROVE  /\ Fine(IF p.failed THEN p ELSE DeleteClause(p, id, redundant, c), M)
         /\ Fine(IF p.failed THEN p ELSE FinalizeClause(p, id, c), M)
<1>1. CASE p.failed
  BY <1>1
<1>2. CASE ~p.failed
  <2>1. Good(DeleteClause(p, id, redundant, c), M) /\ Good(FinalizeClause(p, id, c), M)
    BY <1>2, DeleteClauseFacts, OtherEvents DEF Fine
  <2> QED
    BY <1>2, <2>1 DEF Fine, Good
<1> QED
  BY <1>1, <1>2

\* Deleting the garbage clauses keeps a proof right and takes only clauses away.
LEMMA DeleteGarbageFacts ==
  ASSUME NEW M, NEW p, Fine(p, M), NEW d, IsFiniteSet(DOMAIN d)
  PROVE  LET g == DeleteGarbageClauses(p, d) IN
         Fine(g.p, M) /\ \E D \in SUBSET DOMAIN d : g.d = Part(d, D)
<1> DEFINE ids == Ascending({id \in DOMAIN d : d[id].garbage})
           num == Cardinality({id \in DOMAIN d : d[id].garbage})
<1>a. num \in Nat /\ ids = [i \in 1..num |-> ids[i]]
  <2>1. IsFiniteSet({id \in DOMAIN d : d[id].garbage})
    BY FS_Subset
  <2>2. num \in Nat
    BY <2>1, FS_CardinalityType
  <2>3. \A S : Ascending(S) = [i \in 1..Cardinality(S) |-> Ascending(S)[i]]
    BY DEF Ascending
  <2>4. ids = [i \in 1..num |-> ids[i]]
    BY <2>3
  <2> QED
    BY <2>2, <2>4
<1> HIDE DEF num
<1>b. ids \in Seq(Rng(ids))
  <2> HIDE DEF ids
  <2> QED
    BY <1>a, IsSequence
<1>c. DeleteGarbageClauses(p, d) =
        LET Step(x, id) == LET F(y) == DeleteClause(y, id, d[id].redundant, d[id].lits) IN Then(x, F)
        IN [p |-> FoldLeft(Step, p, ids), d |-> [id \in DOMAIN d \ Rng(ids) |-> d[id]]]
  BY DEF DeleteGarbageClauses
<1> HIDE DEF ids
<1> DEFINE n == Len(ids)
           Step(x, id) == LET F(y) == DeleteClause(y, id, d[id].redundant, d[id].lits) IN Then(x, F)
           a == p
           FF(gg, mm) == [ss \in SUBSET (1..mm) |->
                         IF ss = {} THEN a ELSE LET xx == Max(ss) IN Step(gg[ss \ {xx}], ids[xx])]
           G == CHOOSE gg : gg = [ss \in SUBSET DOMAIN ids |->
                         IF ss = {} THEN a ELSE LET xx == Max(ss) IN Step(gg[ss \ {xx}], ids[xx])]
           QQ == {mm \in Nat : \E gg : gg = FF(gg, mm)}
           E == [i \in 0..n |-> G[1..i]]
<1>1. n \in Nat /\ DOMAIN ids = 1..n
  BY <1>b
<1>2. FoldLeft(Step, a, ids) = G[1..n]
  <2> HIDE DEF n
  <2> QED
    BY <1>1 DEF FoldLeft, MapThenFoldSet
<1> HIDE DEF Step, a, n
<1>3. 0 \in QQ
  <2> DEFINE gg == [ss \in SUBSET (1..0) |-> a]
  <2>1. \A ss \in SUBSET (1..0) : ss = {}
    OBVIOUS
  <2>2. gg = FF(gg, 0)
    BY <2>1
  <2> QED
    BY <2>2
<1>4. ASSUME NEW mm \in Nat, mm \in QQ PROVE mm + 1 \in QQ
  <2>1. PICK gg : gg = FF(gg, mm)
    BY <1>4
  <2> DEFINE kk == [ss \in SUBSET (1..mm + 1) |->
                     IF mm + 1 \in ss THEN Step(gg[ss \ {mm + 1}], ids[mm + 1]) ELSE gg[ss]]
  <2>2. ASSUME NEW ss \in SUBSET (1..mm + 1)
        PROVE  kk[ss] = IF ss = {} THEN a ELSE LET xx == Max(ss) IN Step(kk[ss \ {xx}], ids[xx])
    <3>1. \A j \in 1..mm + 1 : j = mm + 1 \/ j \in 1..mm
      OBVIOUS
    <3>2. mm + 1 \notin 1..mm /\ 1..mm \subseteq 1..mm + 1 /\ mm + 1 \in Nat
      OBVIOUS
    <3>3. CASE mm + 1 \in ss
      <4>1. Max(ss) \in ss /\ (\A j \in ss : j <= Max(ss)) /\ ss # {}
        BY <3>2, <3>3, SubsetMax
      <4>2. Max(ss) = mm + 1
        <5>1. Max(ss) \in 1..mm + 1 /\ mm + 1 <= Max(ss)
          BY <3>3, <4>1
        <5> HIDE DEF kk
        <5> QED
          BY <5>1
      <4>3. ss \ {mm + 1} \in SUBSET (1..mm)
        BY <3>1
      <4>4. ss \ {mm + 1} \in SUBSET (1..mm + 1) /\ mm + 1 \notin ss \ {mm + 1}
        BY <3>2, <4>3
      <4>5. kk[ss \ {mm + 1}] = gg[ss \ {mm + 1}]
        BY <4>4
      <4> QED
        BY <3>3, <4>1, <4>2, <4>5
    <3>4. CASE mm + 1 \notin ss
      <4>1. ss \in SUBSET (1..mm)
        BY <3>1, <3>4
      <4>2. kk[ss] = gg[ss] /\ gg[ss] = FF(gg, mm)[ss]
        BY <2>1, <3>4
      <4>3. CASE ss = {}
        BY <2>1, <4>1, <4>2, <4>3
      <4>4. CASE ss # {}
        <5>1. Max(ss) \in ss
          BY <4>1, <4>4, SubsetMax
        <5>2. ss \ {Max(ss)} \in SUBSET (1..mm + 1) /\ mm + 1 \notin ss \ {Max(ss)}
          BY <3>2, <3>4, <4>1
        <5>3. kk[ss \ {Max(ss)}] = gg[ss \ {Max(ss)}]
          BY <5>2
        <5>4. gg[ss] = Step(gg[ss \ {Max(ss)}], ids[Max(ss)])
          BY <2>1, <4>1, <4>4
        <5> QED
          BY <4>2, <4>4, <5>3, <5>4
      <4> QED
        BY <4>3, <4>4
    <3> QED
      BY <3>3, <3>4
  <2>3. kk = FF(kk, mm + 1)
    <3> HIDE DEF kk
    <3>1. kk = [ss \in SUBSET (1..mm + 1) |-> kk[ss]]
      BY DEF kk
    <3> QED
      BY <2>2, <3>1
  <2> HIDE DEF kk, FF
  <2>4. mm + 1 \in Nat /\ \E e : e = FF(e, mm + 1)
    BY <2>3
  <2> QED
    BY <2>4
<1>5. n \in QQ
  <2> HIDE DEF QQ
  <2> QED
    BY <1>1, <1>3, <1>4, NatSetInduction
<1>6. G = FF(G, n)
  <2>1. PICK gg : gg = FF(gg, n)
    BY <1>5
  <2>2. gg = [ss \in SUBSET DOMAIN ids |->
                         IF ss = {} THEN a ELSE LET xx == Max(ss) IN Step(gg[ss \ {xx}], ids[xx])]
    BY <1>1, <2>1
  <2>3. G = [ss \in SUBSET DOMAIN ids |->
                         IF ss = {} THEN a ELSE LET xx == Max(ss) IN Step(G[ss \ {xx}], ids[xx])]
    BY <2>2
  <2> HIDE DEF G
  <2> QED
    BY <1>1, <2>3
<1> HIDE DEF G
<1>7. E[0] = a /\ E[n] = G[1..n]
  <2>1. 1..0 = {} /\ 0 \in 0..n /\ n \in 0..n
    BY <1>1
  <2>2. G[{}] = a
    <3>1. {} \in SUBSET (1..n)
      OBVIOUS
    <3> QED
      BY <1>6, <3>1
  <2> QED
    BY <2>1, <2>2
<1>8. ASSUME NEW i \in 1..n PROVE E[i] = Step(E[i - 1], ids[i])
  <2>0. i \in Nat /\ 1 <= i /\ i <= n /\ n \in Nat
    BY <1>1
  <2>1. 1..i \in SUBSET (1..n) /\ i \in 1..i /\ 1..i # {} /\ i \in Nat
    <3>1. \A j \in 1..i : j \in 1..n
      BY <2>0
    <3>2. i \in 1..i
      BY <2>0
    <3> QED
      BY <2>0, <3>1, <3>2
  <2>2. Max(1..i) \in 1..i /\ \A j \in 1..i : j <= Max(1..i)
    BY <2>1, SubsetMax
  <2>3. Max(1..i) = i
    BY <2>1, <2>2
  <2>4. (1..i) \ {i} = 1..i - 1
    BY <2>1
  <2>5. G[1..i] = Step(G[1..i - 1], ids[i])
    BY <1>6, <2>1, <2>3, <2>4
  <2>6. i \in 0..n /\ i - 1 \in 0..n
    BY <1>1
  <2> QED
    BY <2>5, <2>6
<1> HIDE DEF E
<1>9. \A i \in Nat : i \in 0..n => Fine(E[i], M)
  <2> DEFINE T == {i \in Nat : i <= n => Fine(E[i], M)}
  <2>1. 0 \in T
    BY <1>7 DEF a
  <2>2. ASSUME NEW i \in Nat, i \in T PROVE i + 1 \in T
    <3>1. CASE i + 1 <= n
      <4>1. i + 1 \in 1..n /\ i <= n /\ (i + 1) - 1 = i
        BY <1>1, <3>1
      <4>2. Fine(E[i], M)
        BY <2>2, <4>1
      <4>3. E[i + 1] = Step(E[i], ids[i + 1])
        BY <1>8, <4>1
      <4> DEFINE x == E[i]
                 y == ids[i + 1]
                 z == IF x.failed THEN x ELSE DeleteClause(x, y, d[y].redundant, d[y].lits)
      <4>4. Step(x, y) = Only({IF v.failed THEN v ELSE DeleteClause(v, y, d[y].redundant, d[y].lits) : v \in {x}})
        <5> HIDE DEF x, y
        <5> QED
          BY DEF Step, Then
      <4>5. {IF v.failed THEN v ELSE DeleteClause(v, y, d[y].redundant, d[y].lits) : v \in {x}} = {z}
        <5> HIDE DEF x, y
        <5> QED
          BY DEF z
      <4>6. Fine(z, M)
        <5> HIDE DEF x, y
        <5>1. Fine(x, M)
          BY <4>2 DEF x
        <5> QED
          BY <5>1, EventIfFine DEF z
      <4>7. Step(x, y) = z
        <5> HIDE DEF x, y, z
        <5> QED
          BY <4>4, <4>5, OnlyOne
      <4> QED
        BY <4>3, <4>6, <4>7
    <3>2. CASE ~(i + 1 <= n)
      BY <3>2
    <3> QED
      BY <3>1, <3>2
  <2> HIDE DEF T
  <2>3. \A i \in Nat : i \in T
    BY <2>1, <2>2, NatSetInduction
  <2> QED
    BY <2>3, <1>1 DEF T
<1>10. Fine(E[n], M)
  BY <1>1, <1>9
<1>11. FoldLeft(Step, a, ids) = E[n]
  BY <1>2, <1>7
<1>12. DeleteGarbageClauses(p, d) = [p |-> FoldLeft(Step, a, ids), d |-> [id \in DOMAIN d \ Rng(ids) |-> d[id]]]
  BY <1>c DEF Step, a
<1>13. (DOMAIN d \ Rng(ids)) \in SUBSET DOMAIN d
  OBVIOUS
<1> QED
  BY <1>10, <1>11, <1>12, <1>13 DEF Part

\* Finalizing every clause and the report keep a proof right.
LEMMA FinalizedFacts ==
  ASSUME NEW M, NEW p, Fine(p, M), IsFiniteSet(DOMAIN db)
  PROVE  Fine(Finalized(p), M)
<1> DEFINE ids == Ascending(DOMAIN db)
           num == Cardinality(DOMAIN db)
<1>a. num \in Nat /\ ids = [i \in 1..num |-> ids[i]]
  <2>1. IsFiniteSet(DOMAIN db)
    BY FS_Subset
  <2>2. num \in Nat
    BY <2>1, FS_CardinalityType
  <2>3. \A S : Ascending(S) = [i \in 1..Cardinality(S) |-> Ascending(S)[i]]
    BY DEF Ascending
  <2>4. ids = [i \in 1..num |-> ids[i]]
    BY <2>3
  <2> QED
    BY <2>2, <2>4
<1> HIDE DEF num
<1>b. ids \in Seq(Rng(ids))
  <2> HIDE DEF ids
  <2> QED
    BY <1>a, IsSequence
<1>c. Finalized(p) =
        LET Step(x, id) == LET F(y) == FinalizeClause(y, id, db[id].lits) IN Then(x, F)
        IN Then(FoldLeft(Step, p, ids), ReportStatus)
  BY DEF Finalized
<1> HIDE DEF ids
<1> DEFINE n == Len(ids)
           Step(x, id) == LET F(y) == FinalizeClause(y, id, db[id].lits) IN Then(x, F)
           a == p
           FF(gg, mm) == [ss \in SUBSET (1..mm) |->
                         IF ss = {} THEN a ELSE LET xx == Max(ss) IN Step(gg[ss \ {xx}], ids[xx])]
           G == CHOOSE gg : gg = [ss \in SUBSET DOMAIN ids |->
                         IF ss = {} THEN a ELSE LET xx == Max(ss) IN Step(gg[ss \ {xx}], ids[xx])]
           QQ == {mm \in Nat : \E gg : gg = FF(gg, mm)}
           E == [i \in 0..n |-> G[1..i]]
<1>1. n \in Nat /\ DOMAIN ids = 1..n
  BY <1>b
<1>2. FoldLeft(Step, a, ids) = G[1..n]
  <2> HIDE DEF n
  <2> QED
    BY <1>1 DEF FoldLeft, MapThenFoldSet
<1> HIDE DEF Step, a, n
<1>3. 0 \in QQ
  <2> DEFINE gg == [ss \in SUBSET (1..0) |-> a]
  <2>1. \A ss \in SUBSET (1..0) : ss = {}
    OBVIOUS
  <2>2. gg = FF(gg, 0)
    BY <2>1
  <2> QED
    BY <2>2
<1>4. ASSUME NEW mm \in Nat, mm \in QQ PROVE mm + 1 \in QQ
  <2>1. PICK gg : gg = FF(gg, mm)
    BY <1>4
  <2> DEFINE kk == [ss \in SUBSET (1..mm + 1) |->
                     IF mm + 1 \in ss THEN Step(gg[ss \ {mm + 1}], ids[mm + 1]) ELSE gg[ss]]
  <2>2. ASSUME NEW ss \in SUBSET (1..mm + 1)
        PROVE  kk[ss] = IF ss = {} THEN a ELSE LET xx == Max(ss) IN Step(kk[ss \ {xx}], ids[xx])
    <3>1. \A j \in 1..mm + 1 : j = mm + 1 \/ j \in 1..mm
      OBVIOUS
    <3>2. mm + 1 \notin 1..mm /\ 1..mm \subseteq 1..mm + 1 /\ mm + 1 \in Nat
      OBVIOUS
    <3>3. CASE mm + 1 \in ss
      <4>1. Max(ss) \in ss /\ (\A j \in ss : j <= Max(ss)) /\ ss # {}
        BY <3>2, <3>3, SubsetMax
      <4>2. Max(ss) = mm + 1
        <5>1. Max(ss) \in 1..mm + 1 /\ mm + 1 <= Max(ss)
          BY <3>3, <4>1
        <5> HIDE DEF kk
        <5> QED
          BY <5>1
      <4>3. ss \ {mm + 1} \in SUBSET (1..mm)
        BY <3>1
      <4>4. ss \ {mm + 1} \in SUBSET (1..mm + 1) /\ mm + 1 \notin ss \ {mm + 1}
        BY <3>2, <4>3
      <4>5. kk[ss \ {mm + 1}] = gg[ss \ {mm + 1}]
        BY <4>4
      <4> QED
        BY <3>3, <4>1, <4>2, <4>5
    <3>4. CASE mm + 1 \notin ss
      <4>1. ss \in SUBSET (1..mm)
        BY <3>1, <3>4
      <4>2. kk[ss] = gg[ss] /\ gg[ss] = FF(gg, mm)[ss]
        BY <2>1, <3>4
      <4>3. CASE ss = {}
        BY <2>1, <4>1, <4>2, <4>3
      <4>4. CASE ss # {}
        <5>1. Max(ss) \in ss
          BY <4>1, <4>4, SubsetMax
        <5>2. ss \ {Max(ss)} \in SUBSET (1..mm + 1) /\ mm + 1 \notin ss \ {Max(ss)}
          BY <3>2, <3>4, <4>1
        <5>3. kk[ss \ {Max(ss)}] = gg[ss \ {Max(ss)}]
          BY <5>2
        <5>4. gg[ss] = Step(gg[ss \ {Max(ss)}], ids[Max(ss)])
          BY <2>1, <4>1, <4>4
        <5> QED
          BY <4>2, <4>4, <5>3, <5>4
      <4> QED
        BY <4>3, <4>4
    <3> QED
      BY <3>3, <3>4
  <2>3. kk = FF(kk, mm + 1)
    <3> HIDE DEF kk
    <3>1. kk = [ss \in SUBSET (1..mm + 1) |-> kk[ss]]
      BY DEF kk
    <3> QED
      BY <2>2, <3>1
  <2> HIDE DEF kk, FF
  <2>4. mm + 1 \in Nat /\ \E e : e = FF(e, mm + 1)
    BY <2>3
  <2> QED
    BY <2>4
<1>5. n \in QQ
  <2> HIDE DEF QQ
  <2> QED
    BY <1>1, <1>3, <1>4, NatSetInduction
<1>6. G = FF(G, n)
  <2>1. PICK gg : gg = FF(gg, n)
    BY <1>5
  <2>2. gg = [ss \in SUBSET DOMAIN ids |->
                         IF ss = {} THEN a ELSE LET xx == Max(ss) IN Step(gg[ss \ {xx}], ids[xx])]
    BY <1>1, <2>1
  <2>3. G = [ss \in SUBSET DOMAIN ids |->
                         IF ss = {} THEN a ELSE LET xx == Max(ss) IN Step(G[ss \ {xx}], ids[xx])]
    BY <2>2
  <2> HIDE DEF G
  <2> QED
    BY <1>1, <2>3
<1> HIDE DEF G
<1>7. E[0] = a /\ E[n] = G[1..n]
  <2>1. 1..0 = {} /\ 0 \in 0..n /\ n \in 0..n
    BY <1>1
  <2>2. G[{}] = a
    <3>1. {} \in SUBSET (1..n)
      OBVIOUS
    <3> QED
      BY <1>6, <3>1
  <2> QED
    BY <2>1, <2>2
<1>8. ASSUME NEW i \in 1..n PROVE E[i] = Step(E[i - 1], ids[i])
  <2>0. i \in Nat /\ 1 <= i /\ i <= n /\ n \in Nat
    BY <1>1
  <2>1. 1..i \in SUBSET (1..n) /\ i \in 1..i /\ 1..i # {} /\ i \in Nat
    <3>1. \A j \in 1..i : j \in 1..n
      BY <2>0
    <3>2. i \in 1..i
      BY <2>0
    <3> QED
      BY <2>0, <3>1, <3>2
  <2>2. Max(1..i) \in 1..i /\ \A j \in 1..i : j <= Max(1..i)
    BY <2>1, SubsetMax
  <2>3. Max(1..i) = i
    BY <2>1, <2>2
  <2>4. (1..i) \ {i} = 1..i - 1
    BY <2>1
  <2>5. G[1..i] = Step(G[1..i - 1], ids[i])
    BY <1>6, <2>1, <2>3, <2>4
  <2>6. i \in 0..n /\ i - 1 \in 0..n
    BY <1>1
  <2> QED
    BY <2>5, <2>6
<1> HIDE DEF E
<1>9. \A i \in Nat : i \in 0..n => Fine(E[i], M)
  <2> DEFINE T == {i \in Nat : i <= n => Fine(E[i], M)}
  <2>1. 0 \in T
    BY <1>7 DEF a
  <2>2. ASSUME NEW i \in Nat, i \in T PROVE i + 1 \in T
    <3>1. CASE i + 1 <= n
      <4>1. i + 1 \in 1..n /\ i <= n /\ (i + 1) - 1 = i
        BY <1>1, <3>1
      <4>2. Fine(E[i], M)
        BY <2>2, <4>1
      <4>3. E[i + 1] = Step(E[i], ids[i + 1])
        BY <1>8, <4>1
      <4> DEFINE x == E[i]
                 y == ids[i + 1]
                 z == IF x.failed THEN x ELSE FinalizeClause(x, y, db[y].lits)
      <4>4. Step(x, y) = Only({IF v.failed THEN v ELSE FinalizeClause(v, y, db[y].lits) : v \in {x}})
        <5> HIDE DEF x, y
        <5> QED
          BY DEF Step, Then
      <4>5. {IF v.failed THEN v ELSE FinalizeClause(v, y, db[y].lits) : v \in {x}} = {z}
        <5> HIDE DEF x, y
        <5> QED
          BY DEF z
      <4>6. Fine(z, M)
        <5> HIDE DEF x, y
        <5>1. Fine(x, M)
          BY <4>2 DEF x
        <5> QED
          BY <5>1, EventIfFine DEF z
      <4>7. Step(x, y) = z
        <5> HIDE DEF x, y, z
        <5> QED
          BY <4>4, <4>5, OnlyOne
      <4> QED
        BY <4>3, <4>6, <4>7
    <3>2. CASE ~(i + 1 <= n)
      BY <3>2
    <3> QED
      BY <3>1, <3>2
  <2> HIDE DEF T
  <2>3. \A i \in Nat : i \in T
    BY <2>1, <2>2, NatSetInduction
  <2> QED
    BY <2>3, <1>1 DEF T
<1>10. Fine(E[n], M)
  BY <1>1, <1>9
<1>11. FoldLeft(Step, a, ids) = E[n]
  BY <1>2, <1>7
<1> DEFINE told == FoldLeft(Step, a, ids)
           q == IF told.failed THEN told ELSE ReportStatus(told)
<1>12. Finalized(p) = Only({IF v.failed THEN v ELSE ReportStatus(v) : v \in {told}})
  BY <1>c DEF Step, a, Then
<1>13. {IF v.failed THEN v ELSE ReportStatus(v) : v \in {told}} = {q}
  <2> HIDE DEF told
  <2> QED
    BY DEF q
<1>14. Finalized(p) = q
  <2> HIDE DEF told, q
  <2> QED
    BY <1>12, <1>13, OnlyOne
<1>15. Fine(told, M)
  BY <1>10, <1>11
<1> HIDE DEF told
<1>16. ~told.failed => Good(ReportStatus(told), M)
  BY <1>15, OtherEvents DEF Fine
<1> QED
  BY <1>14, <1>15, <1>16 DEF Fine, Good

\* Concluding keeps a proof right.
Concluded(p, type, ids) == IF p.failed THEN p ELSE ConcludeUnsat(p, type, ids)

\* Concluding leaves a proof that is right or that a checker has stopped.
LEMMA ConcludedFacts ==
  ASSUME NEW M, NEW p, Fine(p, M), NEW type, NEW ids
  PROVE  /\ Only({IF v.failed THEN v ELSE ConcludeUnsat(v, type, ids) : v \in {p}}) = Concluded(p, type, ids)
         /\ Fine(Concluded(p, type, ids), M)
<1> DEFINE q == Concluded(p, type, ids)
<1>1. {IF v.failed THEN v ELSE ConcludeUnsat(v, type, ids) : v \in {p}} = {q}
  BY DEF Concluded
<1>2. ~p.failed => Good(ConcludeUnsat(p, type, ids), M)
  BY OtherEvents DEF Fine
<1>3. Fine(q, M)
  BY <1>2 DEF Fine, Good, Concluded
<1> HIDE DEF q
<1> QED
  BY <1>1, <1>3, OnlyOne DEF q

\* So does concluding from the empty clause.
LEMMA FinishConflictFacts ==
  ASSUME NEW M, NEW p, Fine(p, M) PROVE Fine(FinishConflict(p), M)
<1> DEFINE ids == <<CHOOSE id \in DOMAIN db : db[id].lits = <<>> >>
           q == Concluded(p, "CONFLICT", ids)
<1>1. FinishConflict(p) = Only({IF v.failed THEN v ELSE ConcludeUnsat(v, "CONFLICT", ids) : v \in {p}})
  BY DEF FinishConflict, Then
<1> HIDE DEF ids
<1>2. Only({IF v.failed THEN v ELSE ConcludeUnsat(v, "CONFLICT", ids) : v \in {p}}) = q /\ Fine(q, M)
  BY ConcludedFacts
<1> QED
  BY <1>1, <1>2

\* Concluding from clauses over failed assumptions keeps a proof right.
LEMMA FinishFailedFacts ==
  ASSUME Var \in Nat, NEW M, Totals(M), NEW p, Fine(p, M), NEW cs \in Seq(Seq(Lits)), NEW type
  PROVE  Fine(FinishFailed(p, cs, type), M)
<1> DEFINE N == Len(cs)
           Given(i) == IF mode = "internal" THEN Closure(cs[i]).chain ELSE <<>>
           Next(x, i) == IF x.failed THEN x ELSE AddAssumptionClause(x, nextId + i, cs[i], Given(i))
<1>1. N \in Nat /\ \A i \in 1..N : cs[i] \in Seq(Lits)
  OBVIOUS
<1> DEFINE Step(z, i) == Only({IF x.failed THEN x
                   ELSE AddAssumptionClause(x, nextId + i, cs[i],
                          IF mode = "internal" THEN Closure(cs[i]).chain ELSE <<>>) : x \in {z}})
           a == p
           FF(gg, mm) == [i \in 0..mm |-> IF i = 0 THEN a ELSE Step(gg[i - 1], i)]
           G == CHOOSE gg : gg = FF(gg, N)
           QQ == {mm \in Nat : \E gg : gg = FF(gg, mm)}
<1> HIDE DEF Step, a
<1>3. 0 \in QQ
  <2> DEFINE gg == [i \in 0..0 |-> a]
  <2>1. gg = FF(gg, 0)
    OBVIOUS
  <2> QED
    BY <2>1
<1>4. ASSUME NEW mm \in Nat, mm \in QQ PROVE mm + 1 \in QQ
  <2>1. PICK gg : gg = FF(gg, mm)
    BY <1>4
  <2> DEFINE kk == [i \in 0..mm + 1 |-> IF i = mm + 1 THEN Step(gg[mm], mm + 1) ELSE gg[i]]
  <2>2. ASSUME NEW i \in 0..mm + 1 PROVE kk[i] = IF i = 0 THEN a ELSE Step(kk[i - 1], i)
    <3>1. CASE i = 0
      BY <2>1, <3>1
    <3>2. CASE i # 0 /\ i = mm + 1
      <4>1. kk[i] = Step(gg[mm], mm + 1) /\ kk[i - 1] = gg[mm]
        BY <3>2
      <4> QED
        BY <3>2, <4>1
    <3>3. CASE i # 0 /\ i # mm + 1
      <4>1. i \in 0..mm /\ i - 1 \in 0..mm + 1 /\ i - 1 # mm + 1
        BY <3>3
      <4>2. kk[i] = gg[i] /\ kk[i - 1] = gg[i - 1]
        BY <3>3, <4>1
      <4>3. gg[i] = Step(gg[i - 1], i)
        BY <2>1, <3>3, <4>1
      <4> QED
        BY <3>3, <4>2, <4>3
    <3> QED
      BY <3>1, <3>2, <3>3
  <2>3. kk = FF(kk, mm + 1)
    <3> HIDE DEF kk
    <3>1. kk = [i \in 0..mm + 1 |-> kk[i]]
      BY DEF kk
    <3> QED
      BY <2>2, <3>1
  <2> HIDE DEF kk, FF
  <2>4. mm + 1 \in Nat /\ \E e : e = FF(e, mm + 1)
    BY <2>3
  <2> QED
    BY <2>4
<1>5. N \in QQ
  <2> HIDE DEF QQ
  <2> QED
    BY <1>1, <1>3, <1>4, NatSetInduction
<1>6. G = FF(G, N)
  <2>1. PICK gg : gg = FF(gg, N)
    BY <1>5
  <2> QED
    BY <2>1
<1> HIDE DEF G
<1>7. G[0] = a
  <2>1. 0 \in 0..N
    BY <1>1
  <2> QED
    BY <1>6, <2>1
<1>8. ASSUME NEW i \in 1..N PROVE G[i] = Step(G[i - 1], i)
  <2>1. i \in 0..N /\ i # 0
    BY <1>1
  <2> QED
    BY <1>6, <2>1
<1> DEFINE ids == [i \in 1..N |-> nextId + i]
           end == G[N]
<1>9. FinishFailed(p, cs, type) = Only({IF v.failed THEN v ELSE ConcludeUnsat(v, type, ids) : v \in {end}})
  BY DEF FinishFailed, Then, G, Step, a
<1>10. \A x, i : Step(x, i) = Next(x, i)
  <2> SUFFICES ASSUME NEW x, NEW i PROVE Step(x, i) = Next(x, i)
    OBVIOUS
  <2>0. Step(x, i) = Only({IF y.failed THEN y ELSE AddAssumptionClause(y, nextId + i, cs[i], Given(i)) : y \in {x}})
    BY DEF Step
  <2>1. {IF y.failed THEN y ELSE AddAssumptionClause(y, nextId + i, cs[i], Given(i)) : y \in {x}} = {Next(x, i)}
    <3> HIDE DEF Given
    <3> QED
      OBVIOUS
  <2> HIDE DEF Next
  <2> QED
    BY <2>0, <2>1, OnlyOne
<1>11. ASSUME NEW x, Fine(x, M), NEW i \in 1..N PROVE Fine(Next(x, i), M)
  <2> HIDE DEF Given, N
  <2>1. ~x.failed => Good(AddAssumptionClause(x, nextId + i, cs[i], Given(i)), M)
    BY <1>1, <1>11, AddAssumptionClauseFacts DEF Fine
  <2> QED
    BY <1>11, <2>1 DEF Fine, Good
<1> HIDE DEF Next, N
<1>12. \A i \in Nat : i <= N => Fine(G[i], M)
  <2> DEFINE P == {i \in Nat : i <= N => Fine(G[i], M)}
  <2>1. 0 \in P
    BY <1>7 DEF a
  <2>2. ASSUME NEW i \in Nat, i \in P PROVE i + 1 \in P
    <3> SUFFICES ASSUME i + 1 <= N PROVE Fine(G[i + 1], M)
      OBVIOUS
    <3>1. Fine(G[i], M) /\ i + 1 \in 1..N /\ (i + 1) - 1 = i
      BY <1>1, <2>2
    <3>2. G[i + 1] = Next(G[i], i + 1)
      BY <1>8, <1>10, <3>1
    <3> QED
      BY <1>11, <3>1, <3>2
  <2> HIDE DEF P
  <2>3. \A i \in Nat : i \in P
    BY <2>1, <2>2, NatSetInduction
  <2> QED
    BY <2>3 DEF P
<1>13. Fine(G[N], M)
  BY <1>1, <1>12
<1> HIDE DEF ids, end
<1>14. Only({IF v.failed THEN v ELSE ConcludeUnsat(v, type, ids) : v \in {end}}) = Concluded(end, type, ids)
       /\ Fine(Concluded(end, type, ids), M)
  BY <1>13, ConcludedFacts DEF end
<1> QED
  BY <1>9, <1>14

\* The clauses over failed assumptions are clauses.
LEMMA FailedClausesFacts ==
  ASSUME NEW c \in Seq(Lits), NEW constraint \in Seq(Lits)
  PROVE  FailedClauses(c, constraint) \in Seq(Seq(Lits))
<1>1. \A l \in Lits : -l \in Lits
  BY DEF Lits, LitsOf
<1>2. CASE constraint = <<>>
  <2>1. <<c>> \in Seq(Seq(Lits))
    OBVIOUS
  <2> QED
    BY <1>2, <2>1 DEF FailedClauses
<1>3. CASE constraint # <<>>
  <2> DEFINE n == Len(constraint)
             F == [i \in 1..n |-> Append(c, -Reverse(constraint)[i])]
  <2>1. n \in Nat
    OBVIOUS
  <2>2. ASSUME NEW i \in 1..n PROVE Append(c, -Reverse(constraint)[i]) \in Seq(Lits)
    <3>1. Reverse(constraint)[i] = constraint[(n - i) + 1] /\ (n - i) + 1 \in 1..n
      BY <2>1 DEF Reverse
    <3>2. -Reverse(constraint)[i] \in Lits
      BY <1>1, <3>1
    <3> QED
      BY <3>2
  <2>3. F \in [1..n -> Seq(Lits)]
    BY <2>2
  <2>4. F \in Seq(Seq(Lits))
    <3> HIDE DEF F
    <3> QED
      BY <2>1, <2>3
  <2> QED
    BY <1>3, <2>4 DEF FailedClauses
<1> QED
  BY <1>2, <1>3

\* The chain of a closure is a sequence.
LEMMA ClosureChain ==
  ASSUME Var \in Nat, NEW c
  PROVE  Closure(c).chain \in Seq(Rng(Closure(c).chain))
<1> DEFINE N == Var + 1
           I == {Min(S) : S \in SUBSET DOMAIN db}
           Free(st, id) == {l \in Rng(db[id].lits) : -l \notin st.true}
           F(st) ==
               LET next == {id \in DOMAIN db : Cardinality(Free(st, id)) < 2
                                              /\ Rng(db[id].lits) \cap st.true = {}}
                   false == {id \in next : Free(st, id) = {}}
                   id == Min(IF false # {} THEN false ELSE next)
               IN IF st.conflict \/ next = {} THEN st
                  ELSE [true |-> st.true \cup Free(st, id), chain |-> Append(st.chain, id),
                        conflict |-> false # {}]
<1>1. N \in Nat
  OBVIOUS
<1> DEFINE Step(z, i) ==
             LET Go(st) ==
               LET next == {id \in DOMAIN db : Cardinality(Free(st, id)) < 2
                                              /\ Rng(db[id].lits) \cap st.true = {}}
                   false == {id \in next : Free(st, id) = {}}
                   id == Min(IF false # {} THEN false ELSE next)
               IN IF st.conflict \/ next = {} THEN st
                  ELSE [true |-> st.true \cup Free(st, id), chain |-> Append(st.chain, id),
                        conflict |-> false # {}]
             IN Only({Go(x) : x \in {z}})
           a == [true |-> {-l : l \in Rng(c)}, chain |-> <<>>, conflict |-> FALSE]
           FF(gg, mm) == [i \in 0..mm |-> IF i = 0 THEN a ELSE Step(gg[i - 1], i)]
           G == CHOOSE gg : gg = FF(gg, N)
           QQ == {mm \in Nat : \E gg : gg = FF(gg, mm)}
<1> HIDE DEF Step, a
<1>3. 0 \in QQ
  <2> DEFINE gg == [i \in 0..0 |-> a]
  <2>1. gg = FF(gg, 0)
    OBVIOUS
  <2> QED
    BY <2>1
<1>4. ASSUME NEW mm \in Nat, mm \in QQ PROVE mm + 1 \in QQ
  <2>1. PICK gg : gg = FF(gg, mm)
    BY <1>4
  <2> DEFINE kk == [i \in 0..mm + 1 |-> IF i = mm + 1 THEN Step(gg[mm], mm + 1) ELSE gg[i]]
  <2>2. ASSUME NEW i \in 0..mm + 1 PROVE kk[i] = IF i = 0 THEN a ELSE Step(kk[i - 1], i)
    <3>1. CASE i = 0
      BY <2>1, <3>1
    <3>2. CASE i # 0 /\ i = mm + 1
      <4>1. kk[i] = Step(gg[mm], mm + 1) /\ kk[i - 1] = gg[mm]
        BY <3>2
      <4> QED
        BY <3>2, <4>1
    <3>3. CASE i # 0 /\ i # mm + 1
      <4>1. i \in 0..mm /\ i - 1 \in 0..mm + 1 /\ i - 1 # mm + 1
        BY <3>3
      <4>2. kk[i] = gg[i] /\ kk[i - 1] = gg[i - 1]
        BY <3>3, <4>1
      <4>3. gg[i] = Step(gg[i - 1], i)
        BY <2>1, <3>3, <4>1
      <4> QED
        BY <3>3, <4>2, <4>3
    <3> QED
      BY <3>1, <3>2, <3>3
  <2>3. kk = FF(kk, mm + 1)
    <3> HIDE DEF kk
    <3>1. kk = [i \in 0..mm + 1 |-> kk[i]]
      BY DEF kk
    <3> QED
      BY <2>2, <3>1
  <2> HIDE DEF kk, FF
  <2>4. mm + 1 \in Nat /\ \E e : e = FF(e, mm + 1)
    BY <2>3
  <2> QED
    BY <2>4
<1>5. N \in QQ
  <2> HIDE DEF QQ
  <2> QED
    BY <1>1, <1>3, <1>4, NatSetInduction
<1>6. G = FF(G, N)
  <2>1. PICK gg : gg = FF(gg, N)
    BY <1>5
  <2> QED
    BY <2>1
<1> HIDE DEF G
<1>7. G[0] = a
  <2>1. 0 \in 0..N
    BY <1>1
  <2> QED
    BY <1>6, <2>1
<1>8. ASSUME NEW i \in 1..N PROVE G[i] = Step(G[i - 1], i)
  <2>1. i \in 0..N /\ i # 0
    BY <1>1
  <2> QED
    BY <1>6, <2>1
<1>9. Closure(c) = G[N]
  BY DEF Closure, G, Step, a
<1>10. \A x, i : Step(x, i) = F(x)
  <2> SUFFICES ASSUME NEW x, NEW i PROVE Step(x, i) = F(x)
    OBVIOUS
  <2>0. Step(x, i) = Only({F(y) : y \in {x}})
    BY DEF Step
  <2>1. {F(y) : y \in {x}} = {F(x)}
    <3> HIDE DEF F
    <3> QED
      OBVIOUS
  <2> HIDE DEF F
  <2> QED
    BY <2>0, <2>1, OnlyOne
<1>11. ASSUME NEW x, x.chain \in Seq(I) PROVE F(x).chain \in Seq(I)
  <2> DEFINE next == {id \in DOMAIN db : Cardinality(Free(x, id)) < 2
                                              /\ Rng(db[id].lits) \cap x.true = {}}
             false == {id \in next : Free(x, id) = {}}
             B == IF false # {} THEN false ELSE next
  <2>1. Min(B) \in I
    <3>1. B \in SUBSET DOMAIN db
      OBVIOUS
    <3> HIDE DEF B
    <3> QED
      BY <3>1
  <2>2. F(x).chain = x.chain \/ F(x).chain = Append(x.chain, Min(B))
    OBVIOUS
  <2> HIDE DEF F, B, I
  <2> QED
    BY <1>11, <2>1, <2>2
<1> HIDE DEF F, N, I
<1>12. \A i \in Nat : i <= N => G[i].chain \in Seq(I)
  <2> DEFINE P == {i \in Nat : i <= N => G[i].chain \in Seq(I)}
  <2>1. 0 \in P
    <3>1. G[0].chain = <<>>
      BY <1>7 DEF a
    <3>2. <<>> \in Seq(I)
      OBVIOUS
    <3> QED
      BY <3>1, <3>2
  <2>2. ASSUME NEW i \in Nat, i \in P PROVE i + 1 \in P
    <3> SUFFICES ASSUME i + 1 <= N PROVE G[i + 1].chain \in Seq(I)
      OBVIOUS
    <3>1. G[i].chain \in Seq(I) /\ i + 1 \in 1..N /\ (i + 1) - 1 = i
      BY <1>1, <2>2
    <3>2. G[i + 1] = F(G[i])
      BY <1>8, <1>10, <3>1
    <3> QED
      BY <1>11, <3>1, <3>2
  <2> HIDE DEF P
  <2>3. \A i \in Nat : i \in P
    BY <2>1, <2>2, NatSetInduction
  <2> QED
    BY <2>3 DEF P
<1>13. G[N].chain \in Seq(I)
  BY <1>1, <1>12
<1> DEFINE s == Closure(c).chain
<1>14. s \in Seq(I)
  BY <1>9, <1>13
<1> HIDE DEF s
<1>15. s \in Seq(Rng(s))
  BY <1>14 DEF Rng
<1> QED
  BY <1>15 DEF s

\* The literals that are kept of a clause make a clause, and the chain of a
\* clause that loses false literals is a sequence.
LEMMA SelectFacts ==
  ASSUME NEW c \in Seq(Lits), NEW id
  PROVE  /\ \A I \in SUBSET DOMAIN c : SubSeqAt(c, I) \in Seq(Lits)
         /\ Select(c, NotFalse) \in Seq(Lits)
         /\ FlushChain(c, id) \in Seq(Rng(FlushChain(c, id)))
<1>1. \A I \in SUBSET DOMAIN c : SubSeqAt(c, I) \in Seq(Lits)
  BY SubSeqAtFacts
<1>2. DOMAIN c = 1..Len(c)
  OBVIOUS
<1>3. Select(c, NotFalse) \in Seq(Lits)
  <2> DEFINE I == {i \in 1..Len(c) : NotFalse(c[i]) /\ \A j \in 1..i - 1 : c[j] # c[i]}
  <2>1. Select(c, NotFalse) = SubSeqAt(c, I)
    BY DEF Select
  <2>2. I \in SUBSET DOMAIN c
    BY <1>2
  <2> HIDE DEF I
  <2> QED
    BY <1>1, <2>1, <2>2
<1>4. FlushChain(c, id) \in Seq(Rng(FlushChain(c, id)))
  <2> DEFINE I == {i \in 1..Len(c) : -c[i] \in Fixed /\ \A j \in 1..i - 1 : c[j] # c[i]}
             lits == SubSeqAt(c, I)
             n == Len(lits) + 1
             s == [i \in 1..Len(lits) + 1 |-> IF i > Len(lits) THEN id ELSE UnitId(-lits[i])]
  <2>1. FlushChain(c, id) = s
    BY DEF FlushChain, Select
  <2>2. I \in SUBSET DOMAIN c
    BY <1>2
  <2> HIDE DEF I
  <2>3. lits \in Seq(Lits)
    BY <1>1, <2>2
  <2> HIDE DEF lits
  <2>4. n \in Nat /\ s = [i \in 1..n |-> s[i]]
    BY <2>3
  <2> HIDE DEF n, s
  <2>5. s \in Seq(Rng(s))
    BY <2>4, IsSequence
  <2> QED
    BY <2>1, <2>5
<1> QED
  BY <1>1, <1>3, <1>4

\* Taking clauses away keeps the others true.
LEMMA DbRestricted ==
  ASSUME NEW M, NEW d, DbOK(d, M), NEW D \in SUBSET DOMAIN d PROVE DbOK(Part(d, D), M)
<1> DEFINE T == [lits : Seq(Lits), redundant : BOOLEAN, garbage : BOOLEAN]
           f == [id \in D |-> d[id]]
<1>1. IsFiniteSet(D)
  BY FS_Subset DEF DbOK
<1>2. \A id \in D : d[id] \in T /\ True(d[id].lits, M)
  BY DEF DbOK
<1>3. DOMAIN f = D /\ \A id \in D : f[id] = d[id]
  OBVIOUS
<1>4. f \in [D -> T]
  BY <1>2
<1> HIDE DEF f
<1>5. DbOK(f, M)
  BY <1>1, <1>2, <1>3, <1>4 DEF DbOK
<1> QED
  BY <1>5 DEF f, Part

\* What changes of the solver's clauses keep them true in every set of M.
LEMMA DbFacts ==
  ASSUME NEW M, NEW d, DbOK(d, M), NEW i,
         NEW e \in [lits : Seq(Lits), redundant : BOOLEAN, garbage : BOOLEAN], True(e.lits, M)
  PROVE  /\ DbOK(With(d, i, e), M) /\ DbOK(Without(d, i), M)
<1> DEFINE T == [lits : Seq(Lits), redundant : BOOLEAN, garbage : BOOLEAN]
<1>2. DbOK(Without(d, i), M)
  BY DbRestricted DEF Without, Part
<1>3. DbOK(With(d, i, e), M)
  <2> DEFINE f == With(d, i, e)  D == DOMAIN d \cup {i}
  <2>1. IsFiniteSet(D)
    BY FS_AddElement DEF DbOK
  <2>2. \A id \in D : f[id] = IF id = i THEN e ELSE d[id]
    BY DEF With
  <2>3. f = [id \in D |-> f[id]]
    BY DEF With
  <2> HIDE DEF f
  <2>4. \A id \in D : f[id] \in T /\ True(f[id].lits, M)
    BY <2>2 DEF DbOK
  <2>5. f \in [D -> T] /\ DOMAIN f = D
    BY <2>3, <2>4
  <2> HIDE DEF D
  <2> QED
    BY <2>1, <2>4, <2>5 DEF DbOK, f
<1> QED
  BY <1>2, <1>3

\* Marking a clause changes no literal.
LEMMA MarkFacts ==
  ASSUME NEW M, NEW d, DbOK(d, M), NEW i \in DOMAIN d
  PROVE  DbOK([d EXCEPT ![i].garbage = TRUE], M) /\ DbOK([d EXCEPT ![i].redundant = FALSE], M)
<1> DEFINE T == [lits : Seq(Lits), redundant : BOOLEAN, garbage : BOOLEAN]
           f == [d EXCEPT ![i].garbage = TRUE]
           g == [d EXCEPT ![i].redundant = FALSE]
<1>1. d \in [DOMAIN d -> T] /\ \A id \in DOMAIN d : d[id] \in T /\ True(d[id].lits, M)
  BY DEF DbOK
<1>2. \A e \in T : [e EXCEPT !.garbage = TRUE] \in T /\ [e EXCEPT !.garbage = TRUE].lits = e.lits
  OBVIOUS
<1>3. \A e \in T : [e EXCEPT !.redundant = FALSE] \in T /\ [e EXCEPT !.redundant = FALSE].lits = e.lits
  OBVIOUS
<1>4. f = [id \in DOMAIN d |-> f[id]] /\ \A id \in DOMAIN d : f[id] = IF id = i THEN [d[i] EXCEPT !.garbage = TRUE] ELSE d[id]
  OBVIOUS
<1>5. g = [id \in DOMAIN d |-> g[id]] /\ \A id \in DOMAIN d : g[id] = IF id = i THEN [d[i] EXCEPT !.redundant = FALSE] ELSE d[id]
  OBVIOUS
<1> HIDE DEF T, f, g
<1>6. \A id \in DOMAIN d : f[id] \in T /\ f[id].lits = d[id].lits /\ g[id] \in T /\ g[id].lits = d[id].lits
  <2> DEFINE u == [d[i] EXCEPT !.garbage = TRUE]  v == [d[i] EXCEPT !.redundant = FALSE]
  <2>1. u \in T /\ u.lits = d[i].lits /\ v \in T /\ v.lits = d[i].lits
    BY <1>1, <1>2, <1>3
  <2>2. \A id \in DOMAIN d : f[id] = (IF id = i THEN u ELSE d[id]) /\ g[id] = (IF id = i THEN v ELSE d[id])
    BY <1>4, <1>5
  <2> HIDE DEF u, v
  <2> QED
    BY <1>1, <2>1, <2>2
<1>7. f \in [DOMAIN d -> T] /\ DOMAIN f = DOMAIN d
  BY <1>4, <1>6
<1>8. g \in [DOMAIN d -> T] /\ DOMAIN g = DOMAIN d
  BY <1>5, <1>6
<1>9. IsFiniteSet(DOMAIN d)
  BY DEF DbOK
<1>10. DbOK(f, M)
  BY <1>1, <1>6, <1>7, <1>9 DEF DbOK, T
<1>11. DbOK(g, M)
  BY <1>1, <1>6, <1>8, <1>9 DEF DbOK, T
<1> QED
  BY <1>10, <1>11 DEF f, g

\* What changes of the weakened clauses keep them true.
LEMMA WeakFacts ==
  ASSUME NEW M, NEW w, WeakOK(w, M), NEW i
  PROVE  /\ WeakOK(Without(w, i), M)
         /\ \A c \in Seq(Lits) : True(c, M) => WeakOK(With(w, i, c), M)
<1>1. WeakOK(Without(w, i), M)
  <2> DEFINE f == Without(w, i)  D == DOMAIN w \ {i}
  <2>1. f = [id \in D |-> f[id]] /\ \A id \in D : f[id] = w[id]
    BY DEF Without
  <2>2. \A id \in D : w[id] \in Seq(Lits) /\ True(w[id], M)
    BY DEF WeakOK
  <2> HIDE DEF f, D
  <2>3. f \in [D -> Seq(Lits)] /\ DOMAIN f = D
    BY <2>1, <2>2
  <2> QED
    BY <2>1, <2>2, <2>3 DEF WeakOK, f
<1>2. ASSUME NEW c \in Seq(Lits), True(c, M) PROVE WeakOK(With(w, i, c), M)
  <2> DEFINE f == With(w, i, c)  D == DOMAIN w \cup {i}
  <2>1. f = [id \in D |-> f[id]] /\ \A id \in D : f[id] = IF id = i THEN c ELSE w[id]
    BY DEF With
  <2> HIDE DEF f
  <2>2. \A id \in D : f[id] \in Seq(Lits) /\ True(f[id], M)
    BY <1>2, <2>1 DEF WeakOK
  <2>3. f \in [D -> Seq(Lits)] /\ DOMAIN f = D
    BY <2>1, <2>2
  <2> HIDE DEF D
  <2> QED
    BY <2>2, <2>3 DEF WeakOK, f
<1> QED
  BY <1>1, <1>2

\* With fewer models everything stays true.
LEMMA FewerModels ==
  ASSUME NEW M, NEW N \in SUBSET M
  PROVE  /\ Totals(M) => Totals(N)
         /\ \A p : Good(p, M) => Good(p, N)
         /\ \A d : DbOK(d, M) => DbOK(d, N)
         /\ \A w : WeakOK(w, M) => WeakOK(w, N)
BY DEF Totals, Good, Checkers, DbOK, WeakOK, True

\* Models are total, and a further clause leaves fewer of them, all of which
\* satisfy it.
LEMMA ModelsFacts ==
  ASSUME Var \in Nat, NEW cs
  PROVE  /\ Totals(Models(cs)) /\ \A s : Models(cs \cup {s}) \subseteq Models(cs)
         /\ \A c : Rng(c) \in cs => True(c, Models(cs))
<1>1. \A s : Models(cs \cup {s}) \subseteq Models(cs)
  BY DEF Models
<1>2. \A c : Rng(c) \in cs => True(c, Models(cs))
  BY DEF Models, True
<1>3. ASSUME NEW S \in Assignments PROVE Total(S)
  <2>1. S \subseteq Lits /\ \A v \in 1..Var : v \in S <=> -v \notin S
    BY <1>3 DEF Assignments
  <2>2. ASSUME NEW l \in Lits PROVE l \in S <=> -l \notin S
    <3>1. l \in Int /\ (l \in 1..Var \/ -l \in 1..Var) /\ -(-l) = l
      BY DEF Lits, LitsOf
    <3>2. CASE l \in 1..Var
      BY <2>1, <3>2
    <3>3. CASE -l \in 1..Var
      BY <2>1, <3>1, <3>3
    <3> QED
      BY <3>1, <3>2, <3>3
  <2> QED
    BY <2>1, <2>2 DEF Total
<1>4. Totals(Models(cs))
  BY <1>3 DEF Models, Totals
<1> QED
  BY <1>1, <1>2, <1>4

-----------------------------------------------------------------------------
\* A clause of the user, or a weakened one, enters as it is, flushed or not at
\* all, and what enters is true in every set of M.
LEMMA AddNewOriginalClauseFacts ==
  ASSUME Var \in Nat, NEW M, Totals(M), mode \in {"external", "internal", "drup"},
         NEW p, Fine(p, M), NEW d, DbOK(d, M), NEW c \in Seq(Lits), True(c, M), NEW id, NEW restore, NEW next
  PROVE  LET x == AddNewOriginalClause(p, d, id, c, restore, next) IN
         IsProof(x.p) /\ (p.failed \/ x.p.failed \/ (Good(x.p, M) /\ DbOK(x.d, M)))
<1> DEFINE new == Select(c, NotFalse)
           skipped == Unsat \/ IsTautology(c) \/ Rng(c) \cap Fixed # {}
           replaced == ~skipped /\ Len(new) < Len(c)
           chain == IF mode = "internal" THEN FlushChain(c, id) ELSE <<>>
           Derive(x) == IF replaced THEN AddDerivedClause(x, next + 1, FALSE, new, chain) ELSE x
           Delete(x) == IF skipped \/ replaced THEN DeleteClause(x, id, FALSE, c) ELSE x
           p1 == AddOriginalClause(p, id, c, restore)
           p2 == IF p1.failed THEN p1 ELSE Derive(p1)
           p3 == IF p2.failed THEN p2 ELSE Delete(p2)
           D == IF skipped THEN d
                ELSE IF replaced THEN With(d, next + 1, Entry(new, FALSE)) ELSE With(d, id, Entry(c, FALSE))
           x == AddNewOriginalClause(p, d, id, c, restore, next)
<1>1. /\ x.p = Only({IF v.failed THEN v ELSE Delete(v) : v \in {Only({IF u.failed THEN u ELSE Derive(u) : u \in {p1}})}})
      /\ x.d = D
  BY DEF AddNewOriginalClause, Then
<1>2. new \in Seq(Lits) /\ (mode = "internal" => chain \in Seq(Rng(chain)))
  BY SelectFacts
<1>3. Entry(new, FALSE) \in [lits : Seq(Lits), redundant : BOOLEAN, garbage : BOOLEAN]
      /\ Entry(c, FALSE) \in [lits : Seq(Lits), redundant : BOOLEAN, garbage : BOOLEAN]
      /\ Entry(new, FALSE).lits = new /\ Entry(c, FALSE).lits = c
  BY <1>2 DEF Entry
<1>4. IsProof(p1) /\ (p.failed \/ Good(p1, M))
  BY AddOriginalClauseShape, AddOriginalClauseFacts DEF Fine
<1> HIDE DEF new, skipped, chain, x
<1>5. Only({IF u.failed THEN u ELSE Derive(u) : u \in {p1}}) = p2
  <2>1. {IF u.failed THEN u ELSE Derive(u) : u \in {p1}} = {p2}
    <3> HIDE DEF Derive, p1
    <3> QED
      BY DEF p2
  <2> HIDE DEF Derive, p1, p2
  <2> QED
    BY <2>1, OnlyOne
<1>6. Only({IF v.failed THEN v ELSE Delete(v) : v \in {p2}}) = p3
  <2>1. {IF v.failed THEN v ELSE Delete(v) : v \in {p2}} = {p3}
    <3> HIDE DEF Delete, p2
    <3> QED
      BY DEF p3
  <2> HIDE DEF Delete, p2, p3
  <2> QED
    BY <2>1, OnlyOne
<1>7. x.p = p3
  <2> HIDE DEF Delete, Derive, p1, p2, p3
  <2> QED
    BY <1>1, <1>5, <1>6
<1> HIDE DEF p1
<1>8. IsProof(p2) /\ (p.failed \/ p2.failed \/ (Good(p2, M) /\ (replaced => True(new, M))))
  <2>1. CASE p1.failed
    BY <1>4, <2>1
  <2>2. CASE ~p1.failed /\ ~replaced
    BY <1>4, <2>2
  <2>3. CASE ~p1.failed /\ replaced
    <3> DEFINE q == AddDerivedClause(p1, next + 1, FALSE, new, chain)
    <3>1. p2 = q
      BY <2>3
    <3> HIDE DEF q, p2, replaced
    <3>2. IsProof(q)
      BY <1>4, AddDerivedClauseShape DEF q
    <3>3. ASSUME Good(p1, M) PROVE q.failed \/ (Good(q, M) /\ True(new, M))
      <4> DEFINE no == FALSE  n == next + 1
      <4>1. q = AddDerivedClause(p1, n, no, new, chain)
        BY DEF q
      <4> HIDE DEF no, n
      <4>2. new \in Seq(Lits)
        BY <1>2
      <4>3. mode = "internal" => chain \in Seq(Rng(chain))
        BY <1>2
      <4>4. LET y == AddDerivedClause(p1, n, no, new, chain) IN
            IsProof(y) /\ (y.failed \/ (Good(y, M) /\ True(new, M)))
        BY <3>3, <4>2, <4>3, AddDerivedClauseFacts
      <4> QED
        BY <4>1, <4>4
    <3> QED
      BY <1>4, <3>1, <3>2, <3>3
  <2> QED
    BY <2>1, <2>2, <2>3
<1> HIDE DEF p2
<1>9. IsProof(p3) /\ (p3.failed \/ (~p2.failed /\ (Good(p2, M) => Good(p3, M))))
  <2>1. CASE p2.failed
    BY <1>8, <2>1
  <2>2. CASE ~p2.failed /\ ~(skipped \/ replaced)
    BY <1>8, <2>2
  <2>3. CASE ~p2.failed /\ (skipped \/ replaced)
    <3>1. p3 = DeleteClause(p2, id, FALSE, c)
      BY <2>3
    <3> HIDE DEF p3, replaced
    <3> QED
      BY <1>8, <2>3, <3>1, DeleteClauseShape, DeleteClauseFacts
  <2> QED
    BY <2>1, <2>2, <2>3
<1> HIDE DEF p3
<1>10. (replaced => True(new, M)) => DbOK(D, M)
  BY <1>3, DbFacts
<1> HIDE DEF D, replaced
<1> QED
  BY <1>1, <1>7, <1>8, <1>9, <1>10 DEF x

\* A clause that becomes garbage keeps the proof and the clauses right.
LEMMA MarkGarbageInFacts ==
  ASSUME NEW M, NEW p, Good(p, M), NEW d, DbOK(d, M), NEW id \in DOMAIN d
  PROVE  Good(MarkGarbageIn(p, d, id).p, M) /\ DbOK(MarkGarbageIn(p, d, id).d, M)
<1>1. Good(DeleteClause(p, id, d[id].redundant, d[id].lits), M)
  BY DeleteClauseFacts
<1>2. DbOK(Without(d, id), M)
  <2>1. d[id] \in [lits : Seq(Lits), redundant : BOOLEAN, garbage : BOOLEAN] /\ True(d[id].lits, M)
    BY DEF DbOK
  <2> QED
    BY <2>1, DbFacts
<1>3. DbOK([d EXCEPT ![id].garbage = TRUE], M)
  BY MarkFacts
<1> DEFINE x == MarkGarbageIn(p, d, id)
<1>4. \/ x.p = p /\ x.d = [d EXCEPT ![id].garbage = TRUE]
      \/ x.p = DeleteClause(p, id, d[id].redundant, d[id].lits) /\ x.d = Without(d, id)
  BY DEF MarkGarbageIn
<1> HIDE DEF x
<1> QED
  BY <1>1, <1>2, <1>3, <1>4 DEF x

-----------------------------------------------------------------------------
(* The steps of the solver. *)

Round == [add : Seq(Seq(Lits)), assume : Seq(Lits), constrain : Seq(Lits)]

\* The tables of the checkers, the clauses of the solver and the weakened ones
\* are true in every model of what the user added.
Holds(p, d, w, M) == Good(p, M) /\ DbOK(d, M) /\ WeakOK(w, M)

ProofInv ==
  /\ mode \in Modes /\ todo \in Seq(Round) /\ (phase # "input" => todo # <<>>)
  /\ Holds(proof, db, weakened, Models(inputs))

\* A step that no checker refuses leaves what it computed, and one that is
\* refused leaves everything.
LEMMA CommitFacts ==
  ASSUME NEW M, Holds(proof, db, weakened, M), NEW p, NEW d, NEW w, NEW id, NEW ok, Commit(p, d, w, id, ok),
         p.failed \/ (Good(p, M) /\ DbOK(d, M) /\ WeakOK(w, M))
  PROVE  Holds(proof', db', weakened', M)
<1>1. CASE p.failed
  <2>1. proof' = [proof EXCEPT !.failed = TRUE] /\ db' = db /\ weakened' = weakened
    BY <1>1 DEF Commit
  <2>2. Good(proof, M) /\ DbOK(db, M) /\ WeakOK(weakened, M)
    BY DEF Holds
  <2> DEFINE q == [proof EXCEPT !.failed = TRUE]
  <2>3. IsProof(q) /\ q.l = proof.l /\ q.k = proof.k
    BY <2>2 DEF Good, IsProof, PFields
  <2> HIDE DEF q
  <2>4. Good(q, M)
    BY <2>2, <2>3 DEF Good
  <2>5. Good(proof', M)
    BY <2>1, <2>4 DEF q
  <2>6. DbOK(db', M) /\ WeakOK(weakened', M)
    BY <2>1, <2>2
  <2> QED
    BY <2>5, <2>6 DEF Holds
<1>2. CASE ~p.failed
  <2>1. proof' = p /\ db' = d /\ weakened' = w
    BY <1>2 DEF Commit
  <2>2. Good(p, M) /\ DbOK(d, M) /\ WeakOK(w, M)
    BY <1>2
  <2>3. Good(proof', M) /\ DbOK(db', M) /\ WeakOK(weakened', M)
    BY <2>1, <2>2
  <2> QED
    BY <2>3 DEF Holds
<1> QED
  BY <1>1, <1>2

\* The invariant is kept when only the proof, the clauses and the weakened ones
\* change.
LEMMA KeepsInv ==
  ASSUME ProofInv, Holds(proof', db', weakened', Models(inputs)), UNCHANGED <<mode, todo, inputs>>,
         phase' # "input" => todo' # <<>>
  PROVE  ProofInv'
BY DEF ProofInv

\* What the invariant says of the parts of the state.
LEMMA InvFacts ==
  ASSUME ProofAssumption, ProofInv
  PROVE  /\ Var \in Nat /\ Totals(Models(inputs)) /\ mode \in {"external", "internal", "drup"}
         /\ Holds(proof, db, weakened, Models(inputs)) /\ Good(proof, Models(inputs)) /\ Fine(proof, Models(inputs))
         /\ DbOK(db, Models(inputs)) /\ WeakOK(weakened, Models(inputs))
         /\ \A i \in DOMAIN db :
              /\ db[i] \in [lits : Seq(Lits), redundant : BOOLEAN, garbage : BOOLEAN]
              /\ db[i].lits \in Seq(Lits) /\ True(db[i].lits, Models(inputs))
         /\ \A i \in DOMAIN weakened : weakened[i] \in Seq(Lits) /\ True(weakened[i], Models(inputs))
<1>1. Var \in Nat /\ mode \in {"external", "internal", "drup"}
  BY DEF ProofAssumption, ProofInv
<1> DEFINE M == Models(inputs)
<1>2. Totals(M)
  BY <1>1, ModelsFacts
<1>3. Holds(proof, db, weakened, M)
  BY DEF ProofInv
<1> HIDE DEF M
<1>4. Good(proof, M) /\ DbOK(db, M) /\ WeakOK(weakened, M)
  BY <1>3 DEF Holds
<1>5. Fine(proof, M)
  BY <1>4 DEF Fine, Good
<1>6. \A i \in DOMAIN db :
              /\ db[i] \in [lits : Seq(Lits), redundant : BOOLEAN, garbage : BOOLEAN]
              /\ True(db[i].lits, M)
  BY <1>4 DEF DbOK
<1>7. \A i \in DOMAIN weakened : weakened[i] \in Seq(Lits) /\ True(weakened[i], M)
  BY <1>4 DEF WeakOK
<1> QED
  BY <1>1, <1>2, <1>3, <1>4, <1>5, <1>6, <1>7 DEF M

-----------------------------------------------------------------------------
\* A clause of the user: fewer models, and it is true in all of them.
LEMMA AddOriginalKeeps == ASSUME ProofAssumption, ProofInv, AddOriginal PROVE ProofInv'
<1> DEFINE c == Head(Head(todo).add)
           id == IF original.last < original.reserved THEN original.last + 1 ELSE nextId + 1
           next == IF original.last < original.reserved THEN nextId ELSE id
           M == Models(inputs)
           N == Models(inputs \cup {Rng(c)})
           x == AddNewOriginalClause(proof, db, id, c, FALSE, next)
<1>1. /\ Var \in Nat /\ Totals(M) /\ mode \in {"external", "internal", "drup"}
      /\ Good(proof, M) /\ DbOK(db, M) /\ WeakOK(weakened, M)
  BY InvFacts
<1>2. todo # <<>> /\ Head(todo).add # <<>> /\ Commit(x.p, x.d, weakened, x.next, TRUE)
      /\ inputs' = inputs \cup {Rng(c)} /\ todo' = [todo EXCEPT ![1].add = Tail(@)] /\ mode' = mode
      /\ phase' = "input"
  BY DEF AddOriginal
<1>3. todo \in Seq(Round) /\ mode \in Modes
  BY DEF ProofInv
<1>4. Head(todo) \in Round /\ Head(todo) = todo[1] /\ 1 \in DOMAIN todo
  BY <1>2, <1>3
<1>5. Head(todo).add \in Seq(Seq(Lits))
  BY <1>4 DEF Round
<1>6. c \in Seq(Lits) /\ Tail(Head(todo).add) \in Seq(Seq(Lits))
  BY <1>2, <1>5
<1>7. todo' \in Seq(Round)
  <2> DEFINE r == [todo[1] EXCEPT !.add = Tail(@)]
  <2>1. r \in Round
    BY <1>4, <1>6 DEF Round
  <2>2. todo' = [todo EXCEPT ![1] = r]
    BY <1>2
  <2> HIDE DEF r
  <2> QED
    BY <1>3, <1>4, <2>1, <2>2
<1> HIDE DEF c
<1>8. N \subseteq M /\ Totals(N) /\ True(c, N)
  BY <1>1, ModelsFacts
<1> HIDE DEF M, N, id, next, x
<1>9. Good(proof, N) /\ DbOK(db, N) /\ WeakOK(weakened, N)
  BY <1>1, <1>8, FewerModels
<1>10. Fine(proof, N) /\ Holds(proof, db, weakened, N)
  BY <1>9 DEF Fine, Good, Holds
<1>11. IsProof(x.p) /\ (proof.failed \/ x.p.failed \/ (Good(x.p, N) /\ DbOK(x.d, N)))
  <2> DEFINE no == FALSE
  <2>1. x = AddNewOriginalClause(proof, db, id, c, no, next)
    BY DEF x
  <2> HIDE DEF no
  <2> QED
    BY <1>1, <1>6, <1>8, <1>9, <1>10, <2>1, AddNewOriginalClauseFacts
<1>12. ~proof.failed
  BY DEF AddOriginal
<1>13. Holds(proof', db', weakened', N)
  BY <1>2, <1>9, <1>10, <1>11, <1>12, CommitFacts
<1> QED
  BY <1>2, <1>3, <1>7, <1>13 DEF ProofInv, N

\* A query: assumptions and a constraint are not clauses.
LEMMA QueryKeeps == ASSUME ProofAssumption, ProofInv, Query PROVE ProofInv'
<1> DEFINE s == Head(todo).assume
           M == Models(inputs)
           told == FoldLeft(AddAssumption, proof, s)
           q == IF Head(todo).constrain = <<>> THEN told ELSE AddConstraint(told, Head(todo).constrain)
<1>0. todo # <<>> /\ todo \in Seq(Round) /\ Good(proof, M)
  BY InvFacts DEF Query, ProofInv
<1>a. s \in Seq(Lits)
  <2>1. Head(todo) \in Round
    BY <1>0
  <2> QED
    BY <2>1 DEF Round
<1>b. proof' = SolveQuery(q) /\ UNCHANGED <<mode, todo, db, weakened, inputs>> /\ mode \in Modes
  BY DEF Query, ProofInv
<1> HIDE DEF s, q
<1> DEFINE n == Len(s)
           Step(x, y) == AddAssumption(x, y)
           a == proof
           FF(gg, mm) == [ss \in SUBSET (1..mm) |->
                         IF ss = {} THEN a ELSE LET xx == Max(ss) IN Step(gg[ss \ {xx}], s[xx])]
           G == CHOOSE gg : gg = [ss \in SUBSET DOMAIN s |->
                         IF ss = {} THEN a ELSE LET xx == Max(ss) IN Step(gg[ss \ {xx}], s[xx])]
           QQ == {mm \in Nat : \E gg : gg = FF(gg, mm)}
           E == [i \in 0..n |-> G[1..i]]
<1>1. n \in Nat /\ DOMAIN s = 1..n
  BY <1>a
<1>2. FoldLeft(Step, a, s) = G[1..n]
  <2> HIDE DEF n
  <2> QED
    BY <1>1 DEF FoldLeft, MapThenFoldSet
<1> HIDE DEF Step, a, n
<1>3. 0 \in QQ
  <2> DEFINE gg == [ss \in SUBSET (1..0) |-> a]
  <2>1. \A ss \in SUBSET (1..0) : ss = {}
    OBVIOUS
  <2>2. gg = FF(gg, 0)
    BY <2>1
  <2> QED
    BY <2>2
<1>4. ASSUME NEW mm \in Nat, mm \in QQ PROVE mm + 1 \in QQ
  <2>1. PICK gg : gg = FF(gg, mm)
    BY <1>4
  <2> DEFINE kk == [ss \in SUBSET (1..mm + 1) |->
                     IF mm + 1 \in ss THEN Step(gg[ss \ {mm + 1}], s[mm + 1]) ELSE gg[ss]]
  <2>2. ASSUME NEW ss \in SUBSET (1..mm + 1)
        PROVE  kk[ss] = IF ss = {} THEN a ELSE LET xx == Max(ss) IN Step(kk[ss \ {xx}], s[xx])
    <3>1. \A j \in 1..mm + 1 : j = mm + 1 \/ j \in 1..mm
      OBVIOUS
    <3>2. mm + 1 \notin 1..mm /\ 1..mm \subseteq 1..mm + 1 /\ mm + 1 \in Nat
      OBVIOUS
    <3>3. CASE mm + 1 \in ss
      <4>1. Max(ss) \in ss /\ (\A j \in ss : j <= Max(ss)) /\ ss # {}
        BY <3>2, <3>3, SubsetMax
      <4>2. Max(ss) = mm + 1
        <5>1. Max(ss) \in 1..mm + 1 /\ mm + 1 <= Max(ss)
          BY <3>3, <4>1
        <5> HIDE DEF kk
        <5> QED
          BY <5>1
      <4>3. ss \ {mm + 1} \in SUBSET (1..mm)
        BY <3>1
      <4>4. ss \ {mm + 1} \in SUBSET (1..mm + 1) /\ mm + 1 \notin ss \ {mm + 1}
        BY <3>2, <4>3
      <4>5. kk[ss \ {mm + 1}] = gg[ss \ {mm + 1}]
        BY <4>4
      <4> QED
        BY <3>3, <4>1, <4>2, <4>5
    <3>4. CASE mm + 1 \notin ss
      <4>1. ss \in SUBSET (1..mm)
        BY <3>1, <3>4
      <4>2. kk[ss] = gg[ss] /\ gg[ss] = FF(gg, mm)[ss]
        BY <2>1, <3>4
      <4>3. CASE ss = {}
        BY <2>1, <4>1, <4>2, <4>3
      <4>4. CASE ss # {}
        <5>1. Max(ss) \in ss
          BY <4>1, <4>4, SubsetMax
        <5>2. ss \ {Max(ss)} \in SUBSET (1..mm + 1) /\ mm + 1 \notin ss \ {Max(ss)}
          BY <3>2, <3>4, <4>1
        <5>3. kk[ss \ {Max(ss)}] = gg[ss \ {Max(ss)}]
          BY <5>2
        <5>4. gg[ss] = Step(gg[ss \ {Max(ss)}], s[Max(ss)])
          BY <2>1, <4>1, <4>4
        <5> QED
          BY <4>2, <4>4, <5>3, <5>4
      <4> QED
        BY <4>3, <4>4
    <3> QED
      BY <3>3, <3>4
  <2>3. kk = FF(kk, mm + 1)
    <3> HIDE DEF kk
    <3>1. kk = [ss \in SUBSET (1..mm + 1) |-> kk[ss]]
      BY DEF kk
    <3> QED
      BY <2>2, <3>1
  <2> HIDE DEF kk, FF
  <2>4. mm + 1 \in Nat /\ \E e : e = FF(e, mm + 1)
    BY <2>3
  <2> QED
    BY <2>4
<1>5. n \in QQ
  <2> HIDE DEF QQ
  <2> QED
    BY <1>1, <1>3, <1>4, NatSetInduction
<1>6. G = FF(G, n)
  <2>1. PICK gg : gg = FF(gg, n)
    BY <1>5
  <2>2. gg = [ss \in SUBSET DOMAIN s |->
                         IF ss = {} THEN a ELSE LET xx == Max(ss) IN Step(gg[ss \ {xx}], s[xx])]
    BY <1>1, <2>1
  <2>3. G = [ss \in SUBSET DOMAIN s |->
                         IF ss = {} THEN a ELSE LET xx == Max(ss) IN Step(G[ss \ {xx}], s[xx])]
    BY <2>2
  <2> HIDE DEF G
  <2> QED
    BY <1>1, <2>3
<1> HIDE DEF G
<1>7. E[0] = a /\ E[n] = G[1..n]
  <2>1. 1..0 = {} /\ 0 \in 0..n /\ n \in 0..n
    BY <1>1
  <2>2. G[{}] = a
    <3>1. {} \in SUBSET (1..n)
      OBVIOUS
    <3> QED
      BY <1>6, <3>1
  <2> QED
    BY <2>1, <2>2
<1>8. ASSUME NEW i \in 1..n PROVE E[i] = Step(E[i - 1], s[i])
  <2>0. i \in Nat /\ 1 <= i /\ i <= n /\ n \in Nat
    BY <1>1
  <2>1. 1..i \in SUBSET (1..n) /\ i \in 1..i /\ 1..i # {} /\ i \in Nat
    <3>1. \A j \in 1..i : j \in 1..n
      BY <2>0
    <3>2. i \in 1..i
      BY <2>0
    <3> QED
      BY <2>0, <3>1, <3>2
  <2>2. Max(1..i) \in 1..i /\ \A j \in 1..i : j <= Max(1..i)
    BY <2>1, SubsetMax
  <2>3. Max(1..i) = i
    BY <2>1, <2>2
  <2>4. (1..i) \ {i} = 1..i - 1
    BY <2>1
  <2>5. G[1..i] = Step(G[1..i - 1], s[i])
    BY <1>6, <2>1, <2>3, <2>4
  <2>6. i \in 0..n /\ i - 1 \in 0..n
    BY <1>1
  <2> QED
    BY <2>5, <2>6
<1> HIDE DEF E
<1> HIDE DEF M
<1>9. \A i \in Nat : i <= n => Good(E[i], M)
  <2> DEFINE P == {i \in Nat : i <= n => Good(E[i], M)}
  <2>1. 0 \in P
    BY <1>0, <1>7 DEF a
  <2>2. ASSUME NEW i \in Nat, i \in P PROVE i + 1 \in P
    <3> SUFFICES ASSUME i + 1 <= n PROVE Good(E[i + 1], M)
      OBVIOUS
    <3>1. Good(E[i], M) /\ i + 1 \in 1..n /\ (i + 1) - 1 = i
      BY <1>1, <2>2
    <3>2. E[i + 1] = AddAssumption(E[i], s[i + 1])
      BY <1>8, <3>1 DEF Step
    <3> QED
      BY <3>1, <3>2, OtherEvents
  <2> HIDE DEF P
  <2>3. \A i \in Nat : i \in P
    BY <2>1, <2>2, NatSetInduction
  <2> QED
    BY <2>3 DEF P
<1>10. FoldLeft(Step, a, s) = E[n] /\ Good(E[n], M)
  BY <1>1, <1>2, <1>7, <1>9
<1>11. told = FoldLeft(Step, a, s)
  BY DEF Step, a, FoldLeft, MapThenFoldSet
<1>12. Good(told, M)
  BY <1>10, <1>11
<1> HIDE DEF told
<1>13. Good(q, M)
  <2>1. \A c : Good(AddConstraint(told, c), M)
    BY <1>12, OtherEvents
  <2> QED
    BY <1>12, <2>1 DEF q
<1>14. Good(SolveQuery(q), M)
  BY <1>13, OtherEvents
<1>15. Holds(proof', db', weakened', M)
  <2>1. DbOK(db, M) /\ WeakOK(weakened, M)
    BY InvFacts DEF M
  <2>2. Good(proof', M) /\ DbOK(db', M) /\ WeakOK(weakened', M)
    BY <1>14, <1>b, <2>1
  <2> QED
    BY <2>2 DEF Holds
<1> QED
  BY <1>0, <1>b, <1>15 DEF M, ProofInv

\* The next call forgets the assumptions.
LEMMA ResetKeeps == ASSUME ProofAssumption, ProofInv, Reset PROVE ProofInv'
<1> DEFINE M == Models(inputs)
<1>1. Good(proof, M) /\ DbOK(db, M) /\ WeakOK(weakened, M) /\ todo \in Seq(Round) /\ mode \in Modes
  BY InvFacts DEF ProofInv
<1>2. proof' = ResetAssumptions(proof) /\ todo' = Tail(todo) /\ UNCHANGED <<mode, db, weakened, inputs>>
      /\ phase' = "input" /\ todo # <<>>
  BY DEF Reset, ProofInv
<1>3. todo' \in Seq(Round)
  BY <1>1, <1>2
<1> HIDE DEF M
<1>4. Good(proof', M) /\ DbOK(db', M) /\ WeakOK(weakened', M)
  BY <1>1, <1>2, OtherEvents
<1>5. Holds(proof', db', weakened', M)
  BY <1>4 DEF Holds
<1> QED
  BY <1>1, <1>2, <1>3, <1>5 DEF M, ProofInv

\* A step of the solver that ends in a commit of what holds keeps the invariant.
LEMMA SolvingKeeps ==
  ASSUME ProofInv, Solving, NEW p, NEW d, NEW w, NEW id, NEW ok, Commit(p, d, w, id, ok),
         p.failed \/ (Good(p, Models(inputs)) /\ DbOK(d, Models(inputs)) /\ WeakOK(w, Models(inputs)))
  PROVE  ProofInv'
<1> DEFINE M == Models(inputs)
<1>1. Holds(proof, db, weakened, M)
  BY DEF ProofInv
<1> HIDE DEF M
<1>2. Holds(proof', db', weakened', M)
  BY <1>1, CommitFacts DEF M
<1>3. UNCHANGED <<mode, todo, inputs>> /\ phase' = "solving" /\ phase = phase'
  BY DEF Solving
<1>4. todo' # <<>>
  BY <1>3 DEF ProofInv
<1> QED
  BY <1>2, <1>3, <1>4, KeepsInv DEF M

\* A learned clause: one of the checkers has seen that it follows.
LEMMA LearnKeeps ==
  ASSUME ProofAssumption, ProofInv, NEW c \in Candidates, NEW redundant \in BOOLEAN, Learn(c, redundant)
  PROVE  ProofInv'
<1> DEFINE M == Models(inputs)
           cl == Closure(c)
           chain == IF mode = "internal" THEN cl.chain ELSE <<>>
           p == AddDerivedClause(proof, nextId + 1, redundant, c, chain)
           d == With(db, nextId + 1, Entry(c, redundant))
<1>1. /\ Var \in Nat /\ Totals(M) /\ mode \in {"external", "internal", "drup"}
      /\ Good(proof, M) /\ DbOK(db, M) /\ WeakOK(weakened, M)
  BY InvFacts
<1>2. Solving /\ Commit(p, d, weakened, nextId + 1, cl.conflict)
  BY DEF Learn
<1>3. c \in Seq(Lits)
  BY DEF ProofAssumption
<1>4. mode = "internal" => chain \in Seq(Rng(chain))
  BY <1>1, ClosureChain
<1> HIDE DEF M, cl, chain
<1>5. p.failed \/ (Good(p, M) /\ True(c, M))
  <2> DEFINE id == nextId + 1
  <2>1. p = AddDerivedClause(proof, id, redundant, c, chain)
    OBVIOUS
  <2> HIDE DEF id, p
  <2> QED
    BY <1>1, <1>3, <1>4, <2>1, AddDerivedClauseFacts
<1>6. True(c, M) => DbOK(d, M)
  <2> DEFINE e == Entry(c, redundant)
  <2>1. e \in [lits : Seq(Lits), redundant : BOOLEAN, garbage : BOOLEAN] /\ e.lits = c
    BY <1>3 DEF Entry
  <2>2. d = With(db, nextId + 1, e)
    OBVIOUS
  <2> HIDE DEF d, e
  <2> QED
    BY <1>1, <2>1, <2>2, DbFacts
<1> HIDE DEF p, d
<1> QED
  BY <1>1, <1>2, <1>5, <1>6, SolvingKeeps DEF M

\* A part of a clause in its place.
LEMMA ReplaceKeeps ==
  ASSUME ProofAssumption, ProofInv, Solving, NEW id \in DOMAIN db, NEW c \in Seq(Lits), NEW chain,
         mode = "internal" => chain \in Seq(Rng(chain)), NEW ok, Replace(id, c, chain, ok)
  PROVE  ProofInv'
<1> DEFINE M == Models(inputs)
           e == db[id]
           given == IF mode = "internal" THEN chain ELSE <<>>
           p1 == AddDerivedClause(proof, nextId + 1, e.redundant, c, given)
           p2 == IF p1.failed THEN p1 ELSE DeleteClause(p1, id, e.redundant, e.lits)
           d == With(Without(db, id), nextId + 1, [e EXCEPT !.lits = c])
<1>1. /\ Var \in Nat /\ Totals(M) /\ mode \in {"external", "internal", "drup"}
      /\ Good(proof, M) /\ DbOK(db, M) /\ WeakOK(weakened, M)
      /\ e \in [lits : Seq(Lits), redundant : BOOLEAN, garbage : BOOLEAN] /\ True(e.lits, M)
  BY InvFacts
<1>2. LET Delete(x) == DeleteClause(x, id, e.redundant, e.lits)
          p == Then(p1, Delete)
      IN Commit(p, d, weakened, nextId + 1, ok)
  BY DEF Replace
<1>3. Commit(Only({IF v.failed THEN v ELSE DeleteClause(v, id, e.redundant, e.lits) : v \in {p1}}), d,
             weakened, nextId + 1, ok)
  BY <1>2 DEF Then
<1> HIDE DEF M, p1, d
<1>4. Only({IF v.failed THEN v ELSE DeleteClause(v, id, e.redundant, e.lits) : v \in {p1}}) = p2
  <2> HIDE DEF e
  <2>1. {IF v.failed THEN v ELSE DeleteClause(v, id, e.redundant, e.lits) : v \in {p1}} = {p2}
    OBVIOUS
  <2> HIDE DEF p2
  <2> QED
    BY <2>1, OnlyOne
<1>5. Commit(p2, d, weakened, nextId + 1, ok)
  <2> HIDE DEF p2, e
  <2> QED
    BY <1>3, <1>4
<1>6. p1.failed \/ (Good(p1, M) /\ True(c, M))
  <2> DEFINE new == nextId + 1  r == e.redundant
  <2>1. p1 = AddDerivedClause(proof, new, r, c, given)
    BY DEF p1
  <2>2. mode = "internal" => given \in Seq(Rng(given))
    OBVIOUS
  <2> HIDE DEF new, r, given
  <2> QED
    BY <1>1, <2>1, <2>2, AddDerivedClauseFacts
<1>7. p2.failed \/ (Good(p2, M) /\ True(c, M))
  <2> HIDE DEF e
  <2>1. Good(p1, M) => Good(DeleteClause(p1, id, e.redundant, e.lits), M)
    BY DeleteClauseFacts
  <2> QED
    BY <1>6, <2>1
<1>8. True(c, M) => DbOK(d, M)
  <2> DEFINE f == [e EXCEPT !.lits = c]
             D == Without(db, id)
  <2>1. f \in [lits : Seq(Lits), redundant : BOOLEAN, garbage : BOOLEAN] /\ f.lits = c
    <3> HIDE DEF e
    <3> QED
      BY <1>1
  <2>2. DbOK(D, M)
    BY <1>1, DbFacts
  <2>3. d = With(D, nextId + 1, f)
    BY DEF d
  <2> HIDE DEF e, f, D
  <2> QED
    BY <2>1, <2>2, <2>3, DbFacts
<1> HIDE DEF p2
<1> QED
  BY <1>1, <1>5, <1>7, <1>8, SolvingKeeps DEF M

\* Without false literals.
LEMMA FlushKeeps ==
  ASSUME ProofAssumption, ProofInv, NEW id \in DOMAIN db, Flush(id) PROVE ProofInv'
<1> DEFINE c == Select(db[id].lits, NotFalse)
           chain == FlushChain(db[id].lits, id)
<1>1. db[id].lits \in Seq(Lits)
  BY InvFacts
<1>2. c \in Seq(Lits) /\ chain \in Seq(Rng(chain))
  BY <1>1, SelectFacts
<1>3. Solving /\ Replace(id, c, chain, TRUE)
  BY DEF Flush
<1> HIDE DEF c, chain
<1> QED
  BY <1>2, <1>3, ReplaceKeeps

\* Without a literal that propagation shows to be superfluous.
LEMMA StrengthenKeeps ==
  ASSUME ProofAssumption, ProofInv, NEW id \in DOMAIN db, NEW l \in Lits, StrengthenClause(id, l)
  PROVE  ProofInv'
<1> DEFINE s == db[id].lits
           I == {i \in 1..Len(s) : s[i] # l /\ \A j \in 1..i - 1 : s[j] # s[i]}
           c == SubSeqAt(s, I)
           chain == Closure(c).chain
<1>1. s \in Seq(Lits) /\ Var \in Nat
  BY InvFacts
<1>2. I \in SUBSET DOMAIN s
  BY <1>1
<1>3. c \in Seq(Lits)
  <2> HIDE DEF s, I
  <2> QED
    BY <1>1, <1>2, SelectFacts
<1>4. chain \in Seq(Rng(chain))
  BY <1>1, ClosureChain
<1>5. Solving /\ Replace(id, c, chain, TRUE)
  BY DEF StrengthenClause, Select
<1> HIDE DEF c, chain
<1> QED
  BY <1>3, <1>4, <1>5, ReplaceKeeps

\* Clauses become garbage.
LEMMA MarkClauseGarbageKeeps ==
  ASSUME ProofAssumption, ProofInv, NEW id \in DOMAIN db, MarkClauseGarbage(id) PROVE ProofInv'
<1> DEFINE M == Models(inputs)
           x == MarkGarbageIn(proof, db, id)
<1>1. Good(proof, M) /\ DbOK(db, M) /\ WeakOK(weakened, M)
  BY InvFacts
<1>2. Solving /\ Commit(x.p, x.d, weakened, nextId, TRUE)
  BY DEF MarkClauseGarbage
<1> HIDE DEF M
<1>3. Good(x.p, M) /\ DbOK(x.d, M)
  BY <1>1, MarkGarbageInFacts
<1> HIDE DEF x
<1> QED
  BY <1>1, <1>2, <1>3, SolvingKeeps DEF M

\* Garbage clauses are deleted.
LEMMA CollectGarbageKeeps == ASSUME ProofAssumption, ProofInv, CollectGarbage PROVE ProofInv'
<1> DEFINE M == Models(inputs)
           x == DeleteGarbageClauses(proof, db)
<1>1. Good(proof, M) /\ Fine(proof, M) /\ DbOK(db, M) /\ WeakOK(weakened, M)
  BY InvFacts
<1>2. Solving /\ Commit(x.p, x.d, weakened, nextId, TRUE)
  BY DEF CollectGarbage
<1>3. IsFiniteSet(DOMAIN db)
  BY <1>1 DEF DbOK
<1>4. Fine(x.p, M) /\ \E D \in SUBSET DOMAIN db : x.d = Part(db, D)
  BY <1>1, <1>3, DeleteGarbageFacts
<1> HIDE DEF M, x
<1>5. DbOK(x.d, M)
  BY <1>1, <1>4, DbRestricted
<1> QED
  BY <1>1, <1>2, <1>4, <1>5, SolvingKeeps DEF M, Fine

\* A clause goes to the extension stack.
LEMMA WeakenKeeps ==
  ASSUME ProofAssumption, ProofInv, NEW id \in DOMAIN db, Weaken(id) PROVE ProofInv'
<1> DEFINE M == Models(inputs)
           c == db[id].lits
           p1 == WeakenMinus(proof, id, c)
           p2 == IF p1.failed THEN p1 ELSE MarkGarbageIn(p1, db, id).p
           d == MarkGarbageIn(proof, db, id).d
           w == With(weakened, id, c)
<1>1. /\ Good(proof, M) /\ DbOK(db, M) /\ WeakOK(weakened, M) /\ c \in Seq(Lits) /\ True(c, M)
  BY InvFacts
<1>2. Solving /\ Commit(Only({IF v.failed THEN v ELSE MarkGarbageIn(v, db, id).p : v \in {p1}}), d, w, nextId, TRUE)
  BY DEF Weaken, Then
<1> HIDE DEF M, c
<1>3. Good(p1, M)
  BY <1>1, OtherEvents
<1> HIDE DEF p1
<1>4. Good(p2, M) /\ DbOK(d, M)
  BY <1>1, <1>3, MarkGarbageInFacts
<1>5. WeakOK(w, M)
  BY <1>1, WeakFacts
<1>6. Only({IF v.failed THEN v ELSE MarkGarbageIn(v, db, id).p : v \in {p1}}) = p2
  <2>1. {IF v.failed THEN v ELSE MarkGarbageIn(v, db, id).p : v \in {p1}} = {p2}
    OBVIOUS
  <2> HIDE DEF p2
  <2> QED
    BY <2>1, OnlyOne
<1> HIDE DEF p2, d, w
<1>7. Commit(p2, d, w, nextId, TRUE)
  BY <1>2, <1>6
<1> QED
  BY <1>2, <1>4, <1>5, <1>7, SolvingKeeps DEF M

\* A weakened clause comes back, possibly under another id.
LEMMA RestoreKeeps ==
  ASSUME ProofAssumption, ProofInv, NEW id \in DOMAIN weakened, Restore(id) PROVE ProofInv'
<1> DEFINE M == Models(inputs)
           g == DeleteGarbageClauses(proof, db)
           c == weakened[id]
           back == IdOnStack(id)
           x == AddNewOriginalClause(g.p, g.d, back, c, TRUE, nextId)
           p == [x.p EXCEPT !.failed = @ \/ g.p.failed]
           w == Without(weakened, id)
<1>1. /\ Var \in Nat /\ Totals(M) /\ mode \in {"external", "internal", "drup"}
      /\ Fine(proof, M) /\ DbOK(db, M) /\ WeakOK(weakened, M) /\ c \in Seq(Lits) /\ True(c, M)
  BY InvFacts
<1>2. Solving /\ Commit(p, x.d, w, x.next, TRUE)
  BY DEF Restore
<1>3. IsFiniteSet(DOMAIN db)
  BY <1>1 DEF DbOK
<1>4. Fine(g.p, M) /\ \E D \in SUBSET DOMAIN db : g.d = Part(db, D)
  BY <1>1, <1>3, DeleteGarbageFacts
<1> HIDE DEF M, g, c, back
<1>5. DbOK(g.d, M)
  BY <1>1, <1>4, DbRestricted
<1>6. IsProof(x.p) /\ (g.p.failed \/ x.p.failed \/ (Good(x.p, M) /\ DbOK(x.d, M)))
  <2> DEFINE yes == TRUE  gp == g.p  gd == g.d
  <2>1. x = AddNewOriginalClause(gp, gd, back, c, yes, nextId)
    OBVIOUS
  <2>2. Fine(gp, M) /\ DbOK(gd, M) /\ gp.failed = g.p.failed
    BY <1>4, <1>5
  <2> HIDE DEF yes, gp, gd, x
  <2> QED
    BY <1>1, <2>1, <2>2, AddNewOriginalClauseFacts
<1> HIDE DEF x
<1>7. WeakOK(w, M)
  BY <1>1, WeakFacts
<1>8. p.failed = (x.p.failed \/ g.p.failed) /\ IsProof(p) /\ p.l = x.p.l /\ p.k = x.p.k
  BY <1>6 DEF IsProof, PFields
<1>9. p.failed \/ (Good(p, M) /\ DbOK(x.d, M))
  <2> HIDE DEF p
  <2> QED
    BY <1>6, <1>8 DEF Good
<1> HIDE DEF p, w
<1> QED
  BY <1>2, <1>7, <1>9, SolvingKeeps DEF M

\* A redundant clause becomes irredundant.
LEMMA PromoteKeeps ==
  ASSUME ProofAssumption, ProofInv, NEW id \in DOMAIN db, Promote(id) PROVE ProofInv'
<1> DEFINE M == Models(inputs)
           p == StrengthenEvent(proof, id)
           d == [db EXCEPT ![id].redundant = FALSE]
<1>1. Good(proof, M) /\ DbOK(db, M) /\ WeakOK(weakened, M)
  BY InvFacts
<1>2. Solving /\ Commit(p, d, weakened, nextId, TRUE)
  BY DEF Promote
<1> HIDE DEF M
<1>3. Good(p, M) /\ DbOK(d, M)
  BY <1>1, OtherEvents, MarkFacts
<1> HIDE DEF p, d
<1> QED
  BY <1>1, <1>2, <1>3, SolvingKeeps DEF M

\* The end of a query changes no clause.
LEMMA FinishKeeps ==
  ASSUME ProofAssumption, ProofInv, NEW result, Finish(result) PROVE ProofInv'
<1> DEFINE M == Models(inputs)
           r == Head(todo)
           constraint == IF result = "CONSTRAINT" THEN r.constrain ELSE <<>>
           f == Finalized(proof)
           Failed(n) == FailedClauses([i \in 1..n |-> -r.assume[i]], constraint)
<1>1. /\ Var \in Nat /\ Totals(M) /\ Good(proof, M) /\ Fine(proof, M)
      /\ DbOK(db, M) /\ WeakOK(weakened, M) /\ Holds(proof, db, weakened, M)
  BY InvFacts
<1>2. todo \in Seq(Round) /\ todo # <<>> /\ UNCHANGED <<mode, todo, inputs>>
  BY DEF Finish, ProofInv
<1>3. r.assume \in Seq(Lits) /\ r.constrain \in Seq(Lits)
  <2>1. r \in Round
    BY <1>2
  <2> QED
    BY <2>1 DEF Round
<1>4. Fine(f, M)
  BY <1>1, FinalizedFacts DEF DbOK
<1>5. \/ Commit(f, db, weakened, nextId, TRUE)
      \/ Commit(FinishConflict(f), db, weakened, nextId, TRUE)
      \/ \E n \in 0..Len(r.assume) :
           Commit(FinishFailed(f, Failed(n), result), db, weakened, nextId + Len(Failed(n)), TRUE)
  <2> HIDE DEF f
  <2> QED
    BY DEF Finish, f
<1> HIDE DEF M, f, r
<1>6. \E p, id : Fine(p, M) /\ Commit(p, db, weakened, id, TRUE)
  <2>1. CASE Commit(f, db, weakened, nextId, TRUE)
    BY <1>4, <2>1
  <2>2. CASE Commit(FinishConflict(f), db, weakened, nextId, TRUE)
    BY <1>4, <2>2, FinishConflictFacts
  <2>3. ASSUME NEW n \in 0..Len(r.assume),
               Commit(FinishFailed(f, Failed(n), result), db, weakened, nextId + Len(Failed(n)), TRUE)
        PROVE  \E p, id : Fine(p, M) /\ Commit(p, db, weakened, id, TRUE)
    <3> DEFINE neg == [i \in 1..n |-> -r.assume[i]]
    <3>1. neg \in Seq(Lits)
      <4>1. \A l \in Lits : -l \in Lits
        BY SMTT(40) DEF Lits, LitsOf
      <4>2. \A i \in 1..n : r.assume[i] \in Lits
        BY <1>3
      <4>3. neg \in [1..n -> Lits] /\ n \in Nat
        BY <1>3, <4>1, <4>2
      <4> HIDE DEF neg
      <4> QED
        BY <4>3
    <3>2. constraint \in Seq(Lits)
      BY <1>3
    <3> DEFINE cs == Failed(n)
    <3>3. cs = FailedClauses(neg, constraint)
      OBVIOUS
    <3> HIDE DEF neg, constraint, cs
    <3>4. cs \in Seq(Seq(Lits))
      BY <3>1, <3>2, <3>3, FailedClausesFacts
    <3>5. Fine(FinishFailed(f, cs, result), M)
      BY <1>1, <1>4, <3>4, FinishFailedFacts
    <3> QED
      BY <2>3, <3>5 DEF cs
  <2> QED
    BY <1>5, <2>1, <2>2, <2>3
<1>7. Holds(proof', db', weakened', M)
  <2>1. PICK p, id : Fine(p, M) /\ Commit(p, db, weakened, id, TRUE)
    BY <1>6
  <2> QED
    BY <1>1, <2>1, CommitFacts DEF Fine
<1> QED
  BY <1>2, <1>7, KeepsInv DEF M

-----------------------------------------------------------------------------
\* The invariant holds at first.
LEMMA InvInit == ASSUME ProofAssumption, ProofStart PROVE ProofInv
<1> DEFINE M == Models(inputs)
<1>1. Var \in Nat
  BY DEF ProofAssumption
<1>2. mode \in Modes /\ todo \in Seq(Round) /\ phase = "input" /\ db = <<>> /\ weakened = <<>>
  BY DEF ProofAssumption, ProofStart, Round
<1>3. Good(proof, M)
  <2> DEFINE p == ProofInit(mode)
  <2>1. proof = p \/ \E n : proof = BeginProof(p, n)
    BY DEF ProofStart
  <2> HIDE DEF M
  <2>2. Good(p, M)
    BY <1>1, ProofInitFacts
  <2> HIDE DEF p
  <2> QED
    BY <2>1, <2>2, OtherEvents
<1> HIDE DEF M
<1>4. DOMAIN <<>> = {} /\ IsFiniteSet({})
  BY FS_EmptySet
<1>5. \A T : <<>> \in [DOMAIN <<>> -> T]
  BY <1>4
<1>6. DbOK(db, M) /\ WeakOK(weakened, M)
  BY <1>2, <1>4, <1>5 DEF DbOK, WeakOK
<1> QED
  BY <1>2, <1>3, <1>6 DEF ProofInv, Holds, M

\* Every step keeps it.
LEMMA InvNext == ASSUME ProofAssumption, ProofInv, [ProofNext]_vars PROVE ProofInv'
<1>1. CASE AddOriginal
  BY <1>1, AddOriginalKeeps
<1>2. CASE Query
  BY <1>2, QueryKeeps
<1>3. CASE CollectGarbage
  BY <1>3, CollectGarbageKeeps
<1>4. CASE Reset
  BY <1>4, ResetKeeps
<1>5. CASE \E c \in Candidates, redundant \in BOOLEAN : Learn(c, redundant)
  BY <1>5, LearnKeeps
<1>6. ASSUME NEW id \in DOMAIN db,
             \/ Flush(id) \/ MarkClauseGarbage(id) \/ Weaken(id) \/ Promote(id)
             \/ \E l \in Lits : StrengthenClause(id, l)
      PROVE  ProofInv'
  BY <1>6, FlushKeeps, MarkClauseGarbageKeeps, WeakenKeeps, PromoteKeeps, StrengthenKeeps
<1>7. CASE \E id \in DOMAIN weakened : Restore(id)
  BY <1>7, RestoreKeeps
<1>8. CASE \E result \in {"OTHER", "CONFLICT", "ASSUMPTIONS", "CONSTRAINT"} : Finish(result)
  BY <1>8, FinishKeeps
<1>9. CASE UNCHANGED vars
  BY <1>9 DEF vars, ProofInv
<1> QED
  BY <1>1, <1>2, <1>3, <1>4, <1>5, <1>6, <1>7, <1>8, <1>9 DEF ProofNext

\* Every clause that the solver has, or has put on the extension stack, is true
\* in every model of the clauses the user added: whatever is learned, shrunk,
\* weakened, restored or deleted, in any order and with no chain trusted, the
\* checkers that are on in each mode keep an unjustified clause out.
THEOREM DerivedClausesFollow == ProofSpec => []DerivedFollow
<1> USE ProofAssumption
<1>1. ProofStart => ProofInv
  BY InvInit
<1>2. ProofInv /\ [ProofNext]_vars => ProofInv'
  BY InvNext
<1>3. ProofInv => DerivedFollow
  BY DEF ProofInv, Holds, DbOK, WeakOK, True, DerivedFollow
<1> QED
  BY <1>1, <1>2, <1>3, PTL DEF ProofSpec
=============================================================================
