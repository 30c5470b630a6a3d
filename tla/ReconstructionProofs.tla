------------------------ MODULE ReconstructionProofs ------------------------
(***************************************************************************)
(* Preprocessing, restoring and extending keep the promise of an           *)
(* incremental solver, for every number of variables, every set of user    *)
(* clauses and assumptions and every value of the option restoreall, also  *)
(* when covered and globally blocked clauses are removed next to it; and   *)
(* what the gate searches find defines the pivot.                          *)
(***************************************************************************)
EXTENDS Condition, Gates, SequenceLemmas, SequenceTheorems, FiniteSetTheorems,
        WellFoundedInduction, TLAPS

-----------------------------------------------------------------------------
(* Literals and assignments. *)

\* Literals are integers other than zero, closed under negation.
LEMMA LitFacts ==
  ASSUME NEW l \in Lits
  PROVE  /\ l \in Int /\ l # 0 /\ -l \in Lits /\ -(-l) = l /\ -l # l
         /\ VarOf(l) \in Vars
  BY ReconstructionAssumption DEF Lits, LitsOf, VarOf, Vars

\* An assignment makes exactly one of a literal and its negation true.
LEMMA SatNegated ==
  ASSUME NEW T, NEW l \in Lits
  PROVE  SatLit(T, -l) <=> ~SatLit(T, l)
  BY LitFacts DEF SatLit

\* The negations of literals are literals.
LEMMA NegatedType ==
  ASSUME NEW c \in SUBSET Lits
  PROVE  Negated(c) \in SUBSET Lits
  BY LitFacts DEF Negated

\* Making W true leaves true what W does not contradict.
LEMMA FlippedKeeps ==
  ASSUME NEW T \in SUBSET Vars, NEW W \in SUBSET Lits, NEW l \in Lits,
         SatLit(T, l), -l \notin W
  PROVE  SatLit(Flipped(T, W), l)
<1>1. CASE l > 0
  <2>1. l \in Vars
    BY <1>1, ReconstructionAssumption DEF Lits, LitsOf, Vars
  <2> QED
    BY <1>1, <2>1 DEF SatLit, Flipped
<1>2. CASE ~(l > 0)
  BY <1>2, LitFacts DEF SatLit, Flipped
<1> QED
  BY <1>1, <1>2

\* The result of a repair is an assignment.
LEMMA FlippedType ==
  ASSUME NEW T, NEW W
  PROVE  Flipped(T, W) \in SUBSET Vars
  BY DEF Flipped

\* A single witness becomes true.
LEMMA FlippedWitness ==
  ASSUME NEW T \in SUBSET Vars, NEW l \in Lits
  PROVE  SatLit(Flipped(T, {l}), l)
<1>1. CASE l > 0
  <2>1. l \in Vars
    BY <1>1, ReconstructionAssumption DEF Lits, LitsOf, Vars
  <2> QED
    BY <1>1, <2>1 DEF SatLit, Flipped
<1>2. CASE ~(l > 0)
  <2>1. -l \notin Flipped(T, {l})
    <3>1. -l # l /\ -(-l) \in {l}
      BY LitFacts
    <3> QED
      BY <3>1 DEF Flipped
  <2> QED
    BY <1>2, <2>1 DEF SatLit
<1> QED
  BY <1>1, <1>2

\* A single witness changes no other literal.
LEMMA FlippedOther ==
  ASSUME NEW T \in SUBSET Vars, NEW w \in Lits, NEW l \in Lits,
         l # w, l # -w
  PROVE  SatLit(Flipped(T, {w}), l) <=> SatLit(T, l)
<1>1. -l # w /\ -(-l) # w /\ -l \in Lits /\ {w} \in SUBSET Lits
  BY LitFacts
<1>2. SatLit(T, l) => SatLit(Flipped(T, {w}), l)
  BY <1>1, FlippedKeeps
<1>3. SatLit(T, -l) => SatLit(Flipped(T, {w}), -l)
  BY <1>1, FlippedKeeps
<1> QED
  BY <1>2, <1>3, SatNegated

\* A clause without the negation of a witness literal stays satisfied.
LEMMA ClauseKept ==
  ASSUME NEW T \in SUBSET Vars, NEW W \in SUBSET Lits, NEW c \in SUBSET Lits,
         SatClause(T, c), \A l \in c : -l \notin W
  PROVE  SatClause(Flipped(T, W), c)
  BY FlippedKeeps DEF SatClause

\* A clause without the variable of the witness keeps its value.
LEMMA ClauseUnaffected ==
  ASSUME NEW T \in SUBSET Vars, NEW w \in Lits, NEW c \in SUBSET Lits,
         w \notin c, -w \notin c
  PROVE  SatClause(Flipped(T, {w}), c) <=> SatClause(T, c)
<1>1. \A l \in c : SatLit(Flipped(T, {w}), l) <=> SatLit(T, l)
  BY FlippedOther
<1> QED
  BY <1>1 DEF SatClause

-----------------------------------------------------------------------------
(* Propagation. *)

\* What propagation derives holds in every model.
LEMMA UnitsHold ==
  ASSUME NEW F \in SUBSET SUBSET Lits, NEW T \in SUBSET Vars,
         SatFormula(T, F)
  PROVE  /\ Units(F) \in SUBSET Lits
         /\ \A l \in Units(F) : SatLit(T, l)
<1> DEFINE U == {l \in Lits : SatLit(T, l)}
<1>1. ASSUME NEW c \in F, NEW l \in c, Negated(c \ {l}) \subseteq U
      PROVE  l \in U
  <2>1. PICK k \in c : SatLit(T, k)
    BY DEF SatFormula, SatClause
  <2>2. CASE k = l
    BY <2>1, <2>2
  <2>3. CASE k # l
    <3>1. -k \in U
      BY <1>1, <2>3 DEF Negated
    <3> QED
      BY <3>1, <2>1, SatNegated
  <2> QED
    BY <2>2, <2>3
<1>2. Closed(F, U)
  BY <1>1 DEF Closed
<1> QED
  BY <1>2 DEF Units

\* Propagation keeps the models.
LEMMA PropagateModels ==
  ASSUME NEW F \in SUBSET SUBSET Lits, NEW T \in SUBSET Vars
  PROVE  SatFormula(T, propagate(F)) <=> SatFormula(T, F)
<1> DEFINE U == Units(F)
           Conflict == \E c \in F : Negated(c) \subseteq U
<1>0. U \in SUBSET Lits
  BY DEF Units
<1>1. ASSUME SatFormula(T, F)
      PROVE  SatFormula(T, propagate(F))
  <2>1. \A l \in U : SatLit(T, l)
    BY <1>1, UnitsHold
  <2>2. \A c \in F : ~(Negated(c) \subseteq U)
    <3> SUFFICES ASSUME NEW c \in F, Negated(c) \subseteq U PROVE FALSE
      OBVIOUS
    <3>1. PICK k \in c : SatLit(T, k)
      BY <1>1 DEF SatFormula, SatClause
    <3>2. SatLit(T, -k)
      BY <2>1 DEF Negated
    <3> QED
      BY <3>1, <3>2, SatNegated
  <2>3. \A l \in U : SatClause(T, {l})
    BY <2>1 DEF SatClause
  <2>4. ASSUME NEW c \in F PROVE SatClause(T, c \ Negated(U))
    <3>1. PICK k \in c : SatLit(T, k)
      BY <1>1 DEF SatFormula, SatClause
    <3>2. k \notin Negated(U)
      <4> SUFFICES ASSUME NEW u \in U, k = -u PROVE FALSE
        BY DEF Negated
      <4> QED
        BY <2>1, <3>1, <1>0, SatNegated
    <3> QED
      BY <3>1, <3>2 DEF SatClause
  <2> QED
    BY <2>2, <2>3, <2>4 DEF SatFormula, propagate
<1>2. ASSUME SatFormula(T, propagate(F))
      PROVE  SatFormula(T, F)
  <2>1. CASE Conflict
    <3>1. propagate(F) = {{}}
      BY <2>1 DEF propagate, Unsat
    <3> QED
      BY <3>1, <1>2 DEF SatFormula, SatClause
  <2>2. CASE ~Conflict
    <3>1. /\ \A l \in U : SatClause(T, {l})
          /\ \A c \in F : c \cap U = {} => SatClause(T, c \ Negated(U))
      BY <2>2, <1>2 DEF SatFormula, propagate
    <3> QED
      BY <3>1 DEF SatFormula, SatClause
  <2> QED
    BY <2>1, <2>2
<1> QED
  BY <1>1, <1>2

\* Propagation stays within the literals.
LEMMA PropagateType ==
  ASSUME NEW F \in SUBSET SUBSET Lits
  PROVE  propagate(F) \in SUBSET SUBSET Lits
<1>1. ASSUME NEW c \in propagate(F) PROVE c \in SUBSET Lits
  <2>1. \/ c = {}
        \/ \E l \in Units(F) : c = {l}
        \/ \E d \in F : c = d \ Negated(Units(F))
    BY <1>1 DEF propagate, Unsat
  <2>2. Units(F) \in SUBSET Lits
    BY DEF Units
  <2> QED
    BY <2>1, <2>2
<1> QED
  BY <1>1

\* A tautological clause is no restriction.
LEMMA TautologyHolds ==
  ASSUME NEW T \in SUBSET Vars, NEW c \in SUBSET Lits, Tautological(c)
  PROVE  SatClause(T, c)
  BY SatNegated DEF Tautological, SatClause

\* Adding an original clause restricts the models to those of the clause.
LEMMA AddOriginalModels ==
  ASSUME NEW F \in SUBSET SUBSET Lits, NEW c \in SUBSET Lits,
         NEW T \in SUBSET Vars
  PROVE  /\ AddOriginal(F, c) \in SUBSET SUBSET Lits
         /\ SatFormula(T, AddOriginal(F, c)) <=>
              SatFormula(T, F) /\ SatClause(T, c)
<1>1. CASE Tautological(c)
  BY <1>1, TautologyHolds DEF AddOriginal
<1>2. CASE ~Tautological(c)
  <2>1. F \cup {c} \in SUBSET SUBSET Lits
    OBVIOUS
  <2>2. AddOriginal(F, c) = propagate(F \cup {c})
    BY <1>2 DEF AddOriginal
  <2>3. SatFormula(T, F \cup {c}) <=> SatFormula(T, F) /\ SatClause(T, c)
    BY DEF SatFormula
  <2> QED
    BY <2>1, <2>2, <2>3, PropagateModels, PropagateType
<1> QED
  BY <1>1, <1>2

-----------------------------------------------------------------------------
(* Chains: the argument for the extension stack. *)

\* g[i] is a set of assignments that extend () may have before entry i is
\* looked at: entry i leads from g[i] into g[i - 1], models of the formula F
\* are in the last set, and the first one has only models of the clauses O.
\* An entry in P is pending: only its satisfied case is relied on.
ChainOf(g, O, F, X, P) ==
  /\ g \in [0..Len(X) -> SUBSET SUBSET Vars]
  /\ \A T \in g[0] : SatFormula(T, O)
  /\ \A T \in SUBSET Vars : SatFormula(T, F) => T \in g[Len(X)]
  /\ \A i \in 1..Len(X) : \A T \in g[i] :
       SatClause(T, X[i].clause) => T \in g[i - 1]
  /\ \A i \in 1..Len(X) : i \notin P =>
       \A T \in g[i] : ~SatClause(T, X[i].clause) =>
         Flipped(T, X[i].witness) \in g[i - 1]

\* Fewer models and more pending entries do no harm.
LEMMA ChainWeaker ==
  ASSUME NEW g, NEW O, NEW F, NEW G, NEW X \in Seq(Entries), NEW P, NEW Q,
         ChainOf(g, O, F, X, P),
         \A T \in SUBSET Vars : SatFormula(T, G) => SatFormula(T, F),
         \A i \in 1..Len(X) : i \notin Q => i \notin P
  PROVE  ChainOf(g, O, G, X, Q)
  BY DEF ChainOf

\* A clause of the user whose literals taint: the entries that could break
\* it become pending.
LEMMA ChainAdd ==
  ASSUME NEW g, NEW O, NEW F, NEW G, NEW X \in Seq(Entries), NEW P, NEW Q,
         NEW c \in SUBSET Lits,
         ChainOf(g, O, F, X, P),
         \A T \in SUBSET Vars :
           SatFormula(T, G) => SatFormula(T, F) /\ SatClause(T, c),
         \A i \in 1..Len(X) : i \notin Q =>
           i \notin P /\ \A l \in c : -l \notin X[i].witness
  PROVE  \E h : ChainOf(h, O \cup {c}, G, X, Q)
<1> DEFINE h == [i \in 0..Len(X) |-> {T \in g[i] : SatClause(T, c)}]
<1>0. Len(X) \in Nat /\ \A i \in 1..Len(X) : X[i] \in Entries
  OBVIOUS
<1>1. h \in [0..Len(X) -> SUBSET SUBSET Vars]
  BY DEF ChainOf
<1>2. \A T \in h[0] : SatFormula(T, O \cup {c})
  BY <1>0 DEF ChainOf, SatFormula
<1>3. \A T \in SUBSET Vars : SatFormula(T, G) => T \in h[Len(X)]
  BY <1>0 DEF ChainOf
<1>4. ASSUME NEW i \in 1..Len(X), NEW T \in h[i], SatClause(T, X[i].clause)
      PROVE  T \in h[i - 1]
  BY <1>0, <1>4 DEF ChainOf
<1>5. ASSUME NEW i \in 1..Len(X), i \notin Q, NEW T \in h[i],
             ~SatClause(T, X[i].clause)
      PROVE  Flipped(T, X[i].witness) \in h[i - 1]
  <2>1. T \in g[i] /\ SatClause(T, c) /\ T \in SUBSET Vars /\ i \in 0..Len(X)
    BY <1>0, <1>5 DEF ChainOf
  <2>2. Flipped(T, X[i].witness) \in g[i - 1]
    BY <2>1, <1>5 DEF ChainOf
  <2>3. X[i].witness \in SUBSET Lits
    BY <1>0 DEF Entries
  <2>4. SatClause(Flipped(T, X[i].witness), c)
    BY <2>1, <2>3, <1>5, ClauseKept
  <2> QED
    BY <1>0, <2>2, <2>4
<1>6. ChainOf(h, O \cup {c}, G, X, Q)
  BY <1>1, <1>2, <1>3, <1>4, <1>5 DEF ChainOf
<1> QED
  BY <1>6

\* What taking out an entry does to the others.
LEMMA WithoutFacts ==
  ASSUME NEW X \in Seq(Entries), NEW k \in 1..Len(X)
  PROVE  /\ Without(X, k) \in Seq(Entries)
         /\ Len(Without(X, k)) = Len(X) - 1
         /\ \A i \in 1..(Len(X) - 1) :
              Without(X, k)[i] = IF i < k THEN X[i] ELSE X[i + 1]
<1>1. \A i \in 1..(Len(X) - 1) :
         (IF i < k THEN X[i] ELSE X[i + 1]) \in Entries
  OBVIOUS
<1> QED
  BY <1>1 DEF Without

\* Restoring entry k: the entries above it that could break its clause become
\* pending; the ones below it do not matter, they are repaired afterwards.
LEMMA ChainRestore ==
  ASSUME NEW g, NEW O, NEW F, NEW G, NEW X \in Seq(Entries), NEW P, NEW Q,
         NEW k \in 1..Len(X),
         ChainOf(g, O, F, X, P),
         \A T \in SUBSET Vars :
           SatFormula(T, G) => SatFormula(T, F) /\ SatClause(T, X[k].clause),
         \A i \in 1..(Len(X) - 1) : i \notin Q =>
           IF i < k THEN i \notin P
           ELSE i + 1 \notin P
                  /\ \A l \in X[k].clause : -l \notin X[i + 1].witness
  PROVE  \E h : ChainOf(h, O, G, Without(X, k), Q)
<1> DEFINE Y == Without(X, k)
           c == X[k].clause
           n == Len(X)
           h == [i \in 0..(n - 1) |->
                   IF i < k THEN g[i] ELSE {T \in g[i + 1] : SatClause(T, c)}]
<1>0. /\ n \in Nat /\ n >= 1 /\ \A i \in 1..n : X[i] \in Entries
      /\ Len(Y) = n - 1 /\ k \in 1..n /\ c \in SUBSET Lits
      /\ \A i \in 1..(n - 1) : Y[i] = IF i < k THEN X[i] ELSE X[i + 1]
  <2>1. n \in Nat /\ n >= 1 /\ \A i \in 1..n : X[i] \in Entries
    OBVIOUS
  <2>2. c \in SUBSET Lits
    BY <2>1 DEF Entries
  <2> QED
    BY <2>1, <2>2, WithoutFacts
<1> HIDE DEF Y
<1>g. /\ g \in [0..n -> SUBSET SUBSET Vars]
      /\ \A T \in g[0] : SatFormula(T, O)
      /\ \A T \in SUBSET Vars : SatFormula(T, F) => T \in g[n]
      /\ \A i \in 1..n : \A T \in g[i] : SatClause(T, X[i].clause) => T \in g[i - 1]
      /\ \A i \in 1..n : i \notin P => \A T \in g[i] :
           ~SatClause(T, X[i].clause) => Flipped(T, X[i].witness) \in g[i - 1]
  BY DEF ChainOf
<1>1. h \in [0..(n - 1) -> SUBSET SUBSET Vars]
  BY <1>0, <1>g
<1>2. \A T \in h[0] : SatFormula(T, O)
  BY <1>0, <1>g
<1>3. \A T \in SUBSET Vars : SatFormula(T, G) => T \in h[n - 1]
  BY <1>0, <1>g
<1>a. \A i \in 0..(n - 1) : i >= k =>
        \A T \in h[i] : T \in g[i + 1] /\ SatClause(T, c) /\ T \in SUBSET Vars
  BY <1>0, <1>g
<1>b. \A i \in 0..(n - 1) : i < k => h[i] = g[i]
  BY <1>0
\* A model of the restored clause passes the place of its entry unchanged.
<1>c. ASSUME NEW i \in 1..(n - 1), i >= k, NEW T \in g[i], SatClause(T, c)
      PROVE  T \in h[i - 1]
  <2>1. CASE i = k
    <3>1. T \in g[k - 1] /\ k - 1 \in 0..(n - 1) /\ k - 1 < k
      BY <1>c, <2>1, <1>0, <1>g
    <3> QED
      BY <3>1, <1>b, <2>1
  <2>2. CASE i > k
    <3>1. i - 1 \in 0..(n - 1) /\ ~(i - 1 < k) /\ (i - 1) + 1 = i
      BY <2>2, <1>0
    <3> QED
      BY <3>1, <1>c
  <2> QED
    BY <2>1, <2>2, <1>c, <1>0
<1>4. ASSUME NEW i \in 1..(n - 1), NEW T \in h[i], SatClause(T, Y[i].clause)
      PROVE  T \in h[i - 1]
  <2>1. CASE i < k
    <3>1. T \in g[i] /\ Y[i] = X[i] /\ i - 1 < k /\ i - 1 \in 0..(n - 1)
          /\ i \in 1..n
      BY <1>4, <2>1, <1>0, <1>b
    <3>2. T \in g[i - 1]
      BY <3>1, <1>4, <1>g
    <3> QED
      BY <3>1, <3>2, <1>b
  <2>2. CASE i >= k
    <3>1. Y[i] = X[i + 1] /\ i + 1 \in 1..n /\ (i + 1) - 1 = i
          /\ i \in 0..(n - 1)
      BY <2>2, <1>0
    <3>2. T \in g[i + 1] /\ SatClause(T, c)
      BY <2>2, <3>1, <1>a
    <3>3. T \in g[i]
      BY <3>1, <3>2, <1>4, <1>g
    <3> QED
      BY <3>2, <3>3, <2>2, <1>c
  <2> QED
    BY <2>1, <2>2, <1>0
<1>5. ASSUME NEW i \in 1..(n - 1), i \notin Q, NEW T \in h[i],
             ~SatClause(T, Y[i].clause)
      PROVE  Flipped(T, Y[i].witness) \in h[i - 1]
  <2>1. CASE i < k
    <3>1. T \in g[i] /\ Y[i] = X[i] /\ i - 1 < k /\ i - 1 \in 0..(n - 1)
          /\ i \in 1..n /\ i \notin P
      BY <1>5, <2>1, <1>0, <1>b
    <3>2. Flipped(T, X[i].witness) \in g[i - 1]
      BY <3>1, <1>5, <1>g
    <3> QED
      BY <3>1, <3>2, <1>b
  <2>2. CASE i >= k
    <3>1. Y[i] = X[i + 1] /\ i + 1 \in 1..n /\ (i + 1) - 1 = i
          /\ i \in 0..(n - 1) /\ i + 1 \notin P /\ ~(i < k)
      BY <2>2, <1>0, <1>5
    <3>2. T \in g[i + 1] /\ SatClause(T, c) /\ T \in SUBSET Vars
      BY <2>2, <3>1, <1>a
    <3>3. Flipped(T, X[i + 1].witness) \in g[i]
      BY <3>1, <3>2, <1>5, <1>g
    <3>4. X[i + 1].witness \in SUBSET Lits
      BY <1>0, <3>1 DEF Entries
    <3>5. SatClause(Flipped(T, X[i + 1].witness), c)
      BY <3>1, <3>2, <3>4, <1>0, <1>5, ClauseKept
    <3> QED
      BY <3>1, <3>3, <3>5, <2>2, <1>c
  <2> QED
    BY <2>1, <2>2, <1>0
<1>6. ChainOf(h, O, G, Y, Q)
  BY <1>0, <1>1, <1>2, <1>3, <1>4, <1>5 DEF ChainOf
<1> QED
  BY <1>6 DEF Y

\* Pushing entries es while the formula changes from F to G: together they
\* are as strong as F, and repairing an entry keeps G and the entries above.
LEMMA ChainPush ==
  ASSUME NEW g, NEW O, NEW F, NEW G, NEW X \in Seq(Entries),
         NEW es \in Seq(Entries),
         ChainOf(g, O, F, X, {}),
         \A T \in SUBSET Vars :
           SatFormula(T, G) /\ (\A j \in 1..Len(es) : SatClause(T, es[j].clause))
             => SatFormula(T, F),
         \A T \in SUBSET Vars, j \in 1..Len(es) :
           /\ SatFormula(T, G)
           /\ \A k \in (j + 1)..Len(es) : SatClause(T, es[k].clause)
           /\ ~SatClause(T, es[j].clause)
           => /\ SatFormula(Flipped(T, es[j].witness), G)
              /\ \A k \in j..Len(es) :
                   SatClause(Flipped(T, es[j].witness), es[k].clause)
  PROVE  \E h : ChainOf(h, O, G, X \o es, {})
<1> DEFINE n == Len(X)
           m == Len(es)
           Y == X \o es
           Above(i) == {T \in SUBSET Vars :
                          /\ SatFormula(T, G)
                          /\ \A k \in (i - n + 1)..m : SatClause(T, es[k].clause)}
           h == [i \in 0..(n + m) |-> IF i <= n THEN g[i] ELSE Above(i)]
<1>0. /\ n \in Nat /\ m \in Nat /\ Len(Y) = n + m
      /\ \A i \in 1..(n + m) : Y[i] = IF i <= n THEN X[i] ELSE es[i - n]
  BY ConcatProperties
<1> HIDE DEF Y
<1>g. /\ g \in [0..n -> SUBSET SUBSET Vars]
      /\ \A T \in g[0] : SatFormula(T, O)
      /\ \A T \in SUBSET Vars : SatFormula(T, F) => T \in g[n]
      /\ \A i \in 1..n : \A T \in g[i] : SatClause(T, X[i].clause) => T \in g[i - 1]
      /\ \A i \in 1..n : \A T \in g[i] :
           ~SatClause(T, X[i].clause) => Flipped(T, X[i].witness) \in g[i - 1]
  BY DEF ChainOf
<1>1. h \in [0..(n + m) -> SUBSET SUBSET Vars]
  BY <1>0, <1>g
<1>2. \A T \in h[0] : SatFormula(T, O)
  BY <1>0, <1>g
<1>a. \A i \in 0..(n + m) : i > n => h[i] = Above(i)
  BY <1>0
<1>b. \A i \in 0..(n + m) : i <= n => h[i] = g[i]
  BY <1>0
<1>c. Above(n) \subseteq g[n]
  <2>1. \A T \in Above(n) : T \in SUBSET Vars /\ SatFormula(T, G)
          /\ \A k \in 1..m : SatClause(T, es[k].clause)
    BY <1>0
  <2> QED
    BY <2>1, <1>g
<1>d. \A i \in n..(n + m) : Above(i) \subseteq h[i]
  BY <1>0, <1>a, <1>b, <1>c
<1> HIDE DEF h
<1>3. \A T \in SUBSET Vars : SatFormula(T, G) => T \in h[n + m]
  <2>1. \A T \in SUBSET Vars : SatFormula(T, G) => T \in Above(n + m)
    BY <1>0
  <2>2. n + m \in n..(n + m)
    BY <1>0
  <2> HIDE DEF Above
  <2> QED
    BY <2>1, <2>2, <1>d
<1>4. ASSUME NEW i \in 1..(n + m), NEW T \in h[i], SatClause(T, Y[i].clause)
      PROVE  T \in h[i - 1]
  <2>1. CASE i <= n
    <3>1. /\ i \in 0..(n + m) /\ i - 1 \in 0..(n + m) /\ i - 1 <= n
          /\ i \in 1..n /\ Y[i] = X[i]
      BY <2>1, <1>0
    <3>2. T \in g[i] /\ h[i - 1] = g[i - 1]
      BY <3>1, <2>1, <1>b, <1>4
    <3> QED
      BY <3>1, <3>2, <1>4, <1>g
  <2>2. CASE i > n
    <3>1. T \in Above(i) /\ Y[i] = es[i - n] /\ i - 1 \in n..(n + m)
      BY <2>2, <1>0, <1>a
    <3>2. T \in Above(i - 1)
      <4>1. \A k \in (i - n)..m : k = i - n \/ k \in (i - n + 1)..m
        BY <1>0
      <4>2. (i - 1) - n + 1 = i - n
        BY <1>0
      <4>3. /\ T \in SUBSET Vars /\ SatFormula(T, G)
            /\ \A k \in (i - n + 1)..m : SatClause(T, es[k].clause)
        BY <3>1
      <4>4. \A k \in (i - n)..m : SatClause(T, es[k].clause)
        BY <3>1, <4>1, <4>3, <1>4
      <4> QED
        BY <4>2, <4>3, <4>4
    <3> QED
      BY <3>1, <3>2, <1>d
  <2> QED
    BY <2>1, <2>2, <1>0
<1>5. ASSUME NEW i \in 1..(n + m), NEW T \in h[i], ~SatClause(T, Y[i].clause)
      PROVE  Flipped(T, Y[i].witness) \in h[i - 1]
  <2>1. CASE i <= n
    <3>1. /\ i \in 0..(n + m) /\ i - 1 \in 0..(n + m) /\ i - 1 <= n
          /\ i \in 1..n /\ Y[i] = X[i]
      BY <2>1, <1>0
    <3>2. T \in g[i] /\ h[i - 1] = g[i - 1]
      BY <3>1, <2>1, <1>b, <1>5
    <3> QED
      BY <3>1, <3>2, <1>5, <1>g
  <2>2. CASE i > n
    <3>1. T \in Above(i) /\ Y[i] = es[i - n] /\ i - 1 \in n..(n + m)
          /\ i - n \in 1..m /\ (i - 1) - n + 1 = i - n
      <4>1. /\ Y[i] = es[i - n] /\ i - 1 \in n..(n + m) /\ i \in 0..(n + m)
            /\ i - n \in 1..m /\ (i - 1) - n + 1 = i - n
        BY <2>2, <1>0
      <4> HIDE DEF Above
      <4> QED
        BY <4>1, <2>2, <1>a, <1>5
    <3>2. /\ SatFormula(Flipped(T, es[i - n].witness), G)
          /\ \A k \in (i - n)..m :
               SatClause(Flipped(T, es[i - n].witness), es[k].clause)
      <4>1. /\ T \in SUBSET Vars /\ SatFormula(T, G)
            /\ \A k \in (i - n + 1)..m : SatClause(T, es[k].clause)
            /\ ~SatClause(T, es[i - n].clause)
        BY <3>1, <1>5
      <4> QED
        BY <3>1, <4>1
    <3>3. Flipped(T, es[i - n].witness) \in Above(i - 1)
      BY <3>1, <3>2, FlippedType
    <3> QED
      BY <3>1, <3>3, <1>d
  <2> QED
    BY <2>1, <2>2, <1>0
<1>6. ChainOf(h, O, G, Y, {})
  BY <1>0, <1>1, <1>2, <1>3, <1>4, <1>5 DEF ChainOf
<1> QED
  BY <1>6 DEF Y

-----------------------------------------------------------------------------
(* What the techniques push. *)

\* Blocked clauses: repairing one keeps the clauses it can be resolved with.
LEMMA BlockedRepair ==
  ASSUME NEW c \in irredundant, NEW lit \in c,
         irredundant \in SUBSET SUBSET Lits,
         is_blocked_clause(c, lit),
         NEW T \in SUBSET Vars,
         SatFormula(T, irredundant \ {c}), ~SatClause(T, c)
  PROVE  /\ SatFormula(Flipped(T, {lit}), irredundant \ {c})
         /\ SatClause(Flipped(T, {lit}), c)
<1>0. lit \in Lits /\ c \in SUBSET Lits
  OBVIOUS
<1>1. SatClause(Flipped(T, {lit}), c)
  BY <1>0, FlippedWitness DEF SatClause
<1>2. ASSUME NEW d \in irredundant \ {c}
      PROVE  SatClause(Flipped(T, {lit}), d)
  <2>0. d \in SUBSET Lits /\ SatClause(T, d)
    BY DEF SatFormula
  <2>1. CASE -lit \notin d
    <3>1. \A l \in d : -l \notin {lit}
      BY <2>0, <2>1, LitFacts
    <3> QED
      BY <2>0, <3>1, <1>0, ClauseKept
  <2>2. CASE -lit \in d
    <3>1. PICK k \in d \ {-lit} : -k \in c
      BY <2>2 DEF is_blocked_clause
    <3>2. k \in Lits /\ ~SatLit(T, -k)
      BY <2>0, <3>1 DEF SatClause
    <3>3. SatLit(T, k)
      BY <3>2, SatNegated
    <3>4. -k \notin {lit}
      BY <3>1, <3>2, <1>0, LitFacts
    <3> QED
      BY <3>2, <3>3, <3>4, <3>1, <1>0, FlippedKeeps DEF SatClause
  <2> QED
    BY <2>1, <2>2
<1> QED
  BY <1>1, <1>2 DEF SatFormula

\* A resolvent holds wherever its antecedents do.
LEMMA ResolventHolds ==
  ASSUME NEW c \in SUBSET Lits, NEW d \in SUBSET Lits, NEW p \in Lits,
         NEW T \in SUBSET Vars, SatClause(T, c), SatClause(T, d)
  PROVE  SatClause(T, Resolvent(c, p, d))
<1>1. PICK k \in c : SatLit(T, k)
  BY DEF SatClause
<1>2. PICK l \in d : SatLit(T, l)
  BY DEF SatClause
<1>3. k # p \/ l # -p
  BY <1>1, <1>2, SatNegated
<1> QED
  BY <1>1, <1>2, <1>3 DEF SatClause, Resolvent

\* The clauses that stay when a variable is eliminated.
Rest(p) == irredundant \ (Occs(p) \cup Occs(-p))

\* The literals of the pivot occur in neither the rest nor a resolvent.
LEMMA ResolventsType ==
  ASSUME irredundant \in SUBSET SUBSET Lits, NEW p \in Lits, NEW G,
         \A c \in irredundant : ~Tautological(c)
  PROVE  /\ Rest(p) \cup Resolvents(G, p) \in SUBSET SUBSET Lits
         /\ \A c \in Rest(p) \cup Resolvents(G, p) : p \notin c /\ -p \notin c
<1>1. \A c \in Rest(p) : c \in SUBSET Lits /\ p \notin c /\ -p \notin c
  BY DEF Rest, Occs
<1>2. ASSUME NEW r \in Resolvents(G, p)
      PROVE  r \in SUBSET Lits /\ p \notin r /\ -p \notin r
  <2>1. PICK q \in Occs(p) \X Occs(-p) : r = Resolvent(q[1], p, q[2])
    BY <1>2 DEF Resolvents
  <2>2. /\ q[1] \in irredundant /\ p \in q[1]
        /\ q[2] \in irredundant /\ -p \in q[2]
    BY <2>1 DEF Occs
  <2>3. -p \notin q[1] /\ p \notin q[2]
    BY <2>2, LitFacts DEF Tautological
  <2> QED
    BY <2>1, <2>2, <2>3 DEF Resolvent
<1> QED
  BY <1>1, <1>2

\* There are finitely many literals, so finitely many clauses.
LEMMA LitsFinite == IsFiniteSet(Lits)
<1>1. (-MaxVar) \in Int /\ MaxVar \in Int
  BY ReconstructionAssumption
<1>2. Lits \in SUBSET ((-MaxVar)..MaxVar)
  BY ReconstructionAssumption DEF Lits, LitsOf
<1> QED
  BY <1>1, <1>2, FS_Interval, FS_Subset

\* A set of clauses has a cardinality.
LEMMA ClausesFinite ==
  ASSUME NEW S \in SUBSET SUBSET Lits
  PROVE  Cardinality(S) \in Nat
<1>1. IsFiniteSet(SUBSET Lits)
  BY LitsFinite, FS_SUBSET
<1>2. IsFiniteSet(S)
  BY <1>1, FS_Subset
<1> QED
  BY <1>2, FS_CardinalityType

\* The entries for the clauses of a set.
LEMMA EntriesForFacts ==
  ASSUME NEW S \in SUBSET SUBSET Lits, NEW u \in Orders(S), NEW l \in Lits
  PROVE  /\ EntriesFor(u, l) \in Seq(Entries)
         /\ \A j \in 1..Len(EntriesFor(u, l)) :
              /\ EntriesFor(u, l)[j].witness = {l}
              /\ EntriesFor(u, l)[j].clause \in S
         /\ \A c \in S : \E j \in 1..Len(EntriesFor(u, l)) :
              EntriesFor(u, l)[j].clause = c
<1> DEFINE n == Cardinality(S)
           e == EntriesFor(u, l)
<1>1. n \in Nat /\ u \in [1..n -> S] /\ Rng(u) = S
  BY ClausesFinite DEF Orders
<1>2. Len(u) = n /\ DOMAIN u = 1..n
  BY <1>1
<1> HIDE DEF n
<1>3. e = [k \in 1..n |-> Entry({l}, u[k])]
  BY <1>2 DEF EntriesFor
<1>4. \A k \in 1..n : Entry({l}, u[k]) \in Entries
  BY <1>1 DEF Entry, Entries
<1>5. e \in Seq(Entries) /\ Len(e) = n
  <2>1. e \in [1..n -> Entries]
    BY <1>3, <1>4
  <2> HIDE DEF e
  <2> QED
    BY <1>1, <2>1
<1>6. \A j \in 1..n : e[j].witness = {l} /\ e[j].clause = u[j]
  BY <1>3 DEF Entry
<1>7. \A c \in S : \E j \in 1..n : u[j] = c
  BY <1>1, <1>2 DEF Rng
<1> HIDE DEF e
<1>8. /\ e \in Seq(Entries)
      /\ \A j \in 1..Len(e) : e[j].witness = {l} /\ e[j].clause \in S
      /\ \A c \in S : \E j \in 1..Len(e) : e[j].clause = c
  BY <1>1, <1>5, <1>6, <1>7
<1> QED
  BY <1>8 DEF e

\* What variable elimination pushes: first entries for the pivot, then for
\* its negation, and every clause of both sides that has to be pushed.
LEMMA WeakenedFacts ==
  ASSUME irredundant \in SUBSET SUBSET Lits, NEW p \in Lits, NEW G,
         NEW es \in Weakened(G, p)
  PROVE  /\ es \in Seq(Entries)
         /\ \E m \in Nat : \A j \in 1..Len(es) :
              IF j <= m
                THEN es[j].witness = {p} /\ es[j].clause \in Pushed(G, p)
                ELSE es[j].witness = {-p} /\ es[j].clause \in Pushed(G, -p)
         /\ \A c \in Pushed(G, p) \cup Pushed(G, -p) :
              \E j \in 1..Len(es) : es[j].clause = c
<1> DEFINE PS == Pushed(G, p)
           NS == Pushed(G, -p)
<1>0. PS \in SUBSET SUBSET Lits /\ NS \in SUBSET SUBSET Lits /\ -p \in Lits
  BY LitFacts DEF Pushed, Occs
<1>1. PICK s \in Orders(PS), t \in Orders(NS) :
        es = EntriesFor(s, p) \o EntriesFor(t, -p)
  BY DEF Weakened
<1> DEFINE a == EntriesFor(s, p)
           b == EntriesFor(t, -p)
<1>2. /\ a \in Seq(Entries)
      /\ \A j \in 1..Len(a) : a[j].witness = {p} /\ a[j].clause \in PS
      /\ \A c \in PS : \E j \in 1..Len(a) : a[j].clause = c
  BY <1>0, EntriesForFacts
<1>3. /\ b \in Seq(Entries)
      /\ \A j \in 1..Len(b) : b[j].witness = {-p} /\ b[j].clause \in NS
      /\ \A c \in NS : \E j \in 1..Len(b) : b[j].clause = c
  BY <1>0, EntriesForFacts
<1>4. /\ es \in Seq(Entries) /\ Len(es) = Len(a) + Len(b)
      /\ \A j \in 1..(Len(a) + Len(b)) :
           es[j] = IF j <= Len(a) THEN a[j] ELSE b[j - Len(a)]
  BY <1>1, <1>2, <1>3, ConcatProperties
<1> HIDE DEF a, b, PS, NS
<1>5. Len(a) \in Nat /\ Len(b) \in Nat
  BY <1>2, <1>3
<1>6. \A j \in 1..Len(es) :
        IF j <= Len(a) THEN es[j].witness = {p} /\ es[j].clause \in PS
        ELSE es[j].witness = {-p} /\ es[j].clause \in NS
  <2> SUFFICES ASSUME NEW j \in 1..Len(es)
               PROVE  IF j <= Len(a)
                        THEN es[j].witness = {p} /\ es[j].clause \in PS
                        ELSE es[j].witness = {-p} /\ es[j].clause \in NS
    OBVIOUS
  <2>1. CASE j <= Len(a)
    <3>1. j \in 1..Len(a) /\ es[j] = a[j]
      BY <2>1, <1>4, <1>5
    <3> QED
      BY <2>1, <3>1, <1>2
  <2>2. CASE ~(j <= Len(a))
    <3>1. j - Len(a) \in 1..Len(b) /\ es[j] = b[j - Len(a)]
      BY <2>2, <1>4, <1>5
    <3> QED
      BY <2>2, <3>1, <1>3
  <2> QED
    BY <2>1, <2>2
<1>7. ASSUME NEW c \in PS PROVE \E j \in 1..Len(es) : es[j].clause = c
  BY <1>2, <1>4, <1>5
<1>8. ASSUME NEW c \in NS PROVE \E j \in 1..Len(es) : es[j].clause = c
  <2>1. PICK j \in 1..Len(b) : b[j].clause = c
    BY <1>3
  <2>2. Len(a) + j \in 1..Len(es) /\ es[Len(a) + j] = b[j]
    BY <1>4, <1>5
  <2> QED
    BY <2>1, <2>2
<1> QED
  BY <1>4, <1>5, <1>6, <1>7, <1>8 DEF PS, NS

\* The clauses of the formula and the resolvents hold together where the
\* clauses before the elimination do.
LEMMA ResolventsHold ==
  ASSUME irredundant \in SUBSET SUBSET Lits, NEW p \in Lits, NEW G,
         NEW T \in SUBSET Vars, SatFormula(T, irredundant)
  PROVE  SatFormula(T, Rest(p) \cup Resolvents(G, p))
<1>1. ASSUME NEW r \in Resolvents(G, p) PROVE SatClause(T, r)
  <2>1. PICK q \in Occs(p) \X Occs(-p) : r = Resolvent(q[1], p, q[2])
    BY <1>1 DEF Resolvents
  <2>2. q[1] \in irredundant /\ q[2] \in irredundant
    BY DEF Occs
  <2>3. SatClause(T, q[1]) /\ SatClause(T, q[2])
    BY <2>2 DEF SatFormula
  <2> QED
    BY <2>1, <2>2, <2>3, ResolventHolds
<1>2. \A c \in Rest(p) : SatClause(T, c)
  BY DEF Rest, SatFormula
<1> QED
  BY <1>1, <1>2 DEF SatFormula

\* After an elimination every resolvent holds that a gate does not spare: it
\* was added, or it is tautological.
LEMMA PairHolds ==
  ASSUME irredundant \in SUBSET SUBSET Lits, NEW p \in Lits, NEW G,
         Gate(G, p), NEW c \in Occs(p), NEW d \in Occs(-p),
         G = {} \/ c \in G \/ d \in G,
         NEW T \in SUBSET Vars, SatFormula(T, Resolvents(G, p))
  PROVE  SatClause(T, Resolvent(c, p, d))
<1>0. Resolvent(c, p, d) \in SUBSET Lits
  BY DEF Resolvent, Occs
<1>1. CASE Tautological(Resolvent(c, p, d))
  BY <1>0, <1>1, TautologyHolds
<1>2. CASE ~Tautological(Resolvent(c, p, d))
  <2>1. G # {} => (c \in G) # (d \in G)
    BY <1>2 DEF Gate
  <2> DEFINE Pairs == {q \in Occs(p) \X Occs(-p) :
                /\ G # {} => (q[1] \in G) # (q[2] \in G)
                /\ ~Tautological(Resolvent(q[1], p, q[2]))}
  <2>2. <<c, d>> \in Pairs
    BY <1>2, <2>1
  <2>3. Resolvent(c, p, d) \in Resolvents(G, p)
    <3>1. Resolvents(G, p) = {Resolvent(q[1], p, q[2]) : q \in Pairs}
      BY DEF Resolvents
    <3> HIDE DEF Pairs
    <3> QED
      BY <2>2, <3>1
  <2> QED
    BY <2>3 DEF SatFormula
<1> QED
  BY <1>1, <1>2

\* The eliminated clauses follow from the new formula and the pushed ones.
\* Of a definition only the gates are pushed: a clause that is no gate and
\* falsified would satisfy the gates without the pivot, which is impossible.
LEMMA EliminatedFollow ==
  ASSUME irredundant \in SUBSET SUBSET Lits,
         \A c \in irredundant : ~Tautological(c),
         NEW p \in Lits, NEW G, Gate(G, p), NEW T \in SUBSET Vars,
         SatFormula(T, Rest(p) \cup Resolvents(G, p)),
         \A c \in Pushed(G, p) \cup Pushed(G, -p) : SatClause(T, c)
  PROVE  SatFormula(T, irredundant)
<1>0. SatFormula(T, Resolvents(G, p)) /\ \A c \in Rest(p) : SatClause(T, c)
  BY DEF SatFormula
<1>1. ASSUME NEW c \in Occs(p) \cup Occs(-p), ~SatClause(T, c) PROVE FALSE
  <2>1. G # {} /\ c \notin G
    BY <1>1 DEF Pushed
  <2>2. /\ G \subseteq Occs(p) \cup Occs(-p)
        /\ \E d \in G : ~SatClause(T, d \ {p, -p})
    BY <2>1 DEF Gate
  <2>3. PICK d \in G : ~SatClause(T, d \ {p, -p})
    BY <2>2
  <2>4. SatClause(T, d) /\ d \in irredundant /\ d \in SUBSET Lits
    BY <2>2 DEF Pushed, Occs
  <2>5. -p \in Lits /\ -(-p) = p
    BY LitFacts
  <2>6. ~(p \in d /\ -p \in d)
    BY <2>4 DEF Tautological
  <2>7. PICK k \in d : SatLit(T, k)
    BY <2>4 DEF SatClause
  <2>8. k \in {p, -p}
    BY <2>3, <2>7 DEF SatClause
  <2>9. -k \notin d /\ -k \in {p, -p}
    BY <2>5, <2>6, <2>7, <2>8
  <2>10. k \notin c
    BY <1>1, <2>7 DEF SatClause
  <2>11. CASE k = p
    <3>1. c \in Occs(-p) /\ d \in Occs(p)
      BY <2>10, <2>11, <2>4, <2>7 DEF Occs
    <3>2. SatClause(T, Resolvent(d, p, c))
      BY <3>1, <1>0, PairHolds
    <3> QED
      BY <3>2, <1>1, <2>3, <2>6, <2>7, <2>11 DEF SatClause, Resolvent
  <2>12. CASE k = -p
    <3>1. c \in Occs(p) /\ d \in Occs(-p)
      BY <2>10, <2>12, <2>4, <2>7 DEF Occs
    <3>2. SatClause(T, Resolvent(c, p, d))
      BY <3>1, <1>0, PairHolds
    <3> QED
      BY <3>2, <1>1, <2>3, <2>6, <2>7, <2>12 DEF SatClause, Resolvent
  <2> QED
    BY <2>8, <2>11, <2>12
<1> QED
  BY <1>0, <1>1 DEF SatFormula, Rest

\* Repairing an entry of an elimination keeps the new formula and the
\* entries above it.
LEMMA EliminatedRepair ==
  ASSUME irredundant \in SUBSET SUBSET Lits,
         \A c \in irredundant : ~Tautological(c),
         NEW p \in Lits, NEW G, Gate(G, p), NEW es \in Weakened(G, p),
         NEW T \in SUBSET Vars,
         SatFormula(T, Rest(p) \cup Resolvents(G, p)),
         NEW j \in 1..Len(es), ~SatClause(T, es[j].clause)
  PROVE  /\ SatFormula(Flipped(T, es[j].witness),
                       Rest(p) \cup Resolvents(G, p))
         /\ \A k \in j..Len(es) :
              SatClause(Flipped(T, es[j].witness), es[k].clause)
<1> DEFINE Res == Rest(p) \cup Resolvents(G, p)
           c == es[j].clause
           T1 == Flipped(T, es[j].witness)
<1>0. /\ -p \in Lits /\ -(-p) = p /\ -p # p
      /\ Res \in SUBSET SUBSET Lits
      /\ \A r \in Res : p \notin r /\ -p \notin r
      /\ SatFormula(T, Resolvents(G, p))
  BY LitFacts, ResolventsType DEF SatFormula
<1>1. PICK m \in Nat : \A k \in 1..Len(es) :
        IF k <= m THEN es[k].witness = {p} /\ es[k].clause \in Pushed(G, p)
        ELSE es[k].witness = {-p} /\ es[k].clause \in Pushed(G, -p)
  BY WeakenedFacts
<1>2. es \in Seq(Entries) /\ Len(es) \in Nat
  BY WeakenedFacts
<1>3. \A q \in {p, -p} : es[j].witness = {q} => SatFormula(T1, Res)
  BY <1>0, ClauseUnaffected DEF SatFormula
<1>4. \A q \in {p, -p} : es[j].witness = {q} =>
         \A d \in Occs(q) : SatClause(T1, d)
  BY <1>0, FlippedWitness DEF Occs, SatClause
<1>5. CASE j > m
  <2>1. es[j].witness = {-p}
    BY <1>1, <1>5
  <2>2. \A k \in j..Len(es) : es[k].clause \in Occs(-p)
    BY <1>1, <1>2, <1>5 DEF Pushed
  <2> QED
    BY <2>1, <2>2, <1>3, <1>4
<1>6. CASE j <= m
  <2>1. es[j].witness = {p} /\ c \in Pushed(G, p) /\ c \in Occs(p)
    BY <1>1, <1>6 DEF Pushed
  <2>2. ASSUME NEW d \in Pushed(G, -p) PROVE SatClause(T1, d)
    <3>1. d \in Occs(-p) /\ (G = {} \/ c \in G)
      BY <2>1 DEF Pushed
    <3>2. SatClause(T, Resolvent(c, p, d))
      BY <3>1, <2>1, <1>0, PairHolds
    <3>3. PICK k \in d \ {-p} : SatLit(T, k)
      BY <3>2 DEF SatClause, Resolvent
    <3>4. k \in Lits /\ -k # p
      BY <3>1, <3>3, LitFacts DEF Occs
    <3>5. SatLit(T1, k)
      BY <3>3, <3>4, <2>1, FlippedKeeps
    <3> QED
      BY <3>3, <3>5 DEF SatClause
  <2>3. \A k \in j..Len(es) :
           es[k].clause \in Occs(p) \/ es[k].clause \in Pushed(G, -p)
    BY <1>1, <1>2 DEF Pushed
  <2> QED
    BY <2>1, <2>2, <2>3, <1>3, <1>4
<1> QED
  BY <1>5, <1>6

\* A substitution stays within the literals and takes the variable out.
LEMMA ReplacedFacts ==
  ASSUME NEW idx \in Vars, NEW other \in Lits, VarOf(other) < idx,
         NEW l \in Lits
  PROVE  /\ idx \in Lits /\ -idx \in Lits /\ -other \in Lits
         /\ other # idx /\ other # -idx /\ -other # idx /\ -other # -idx
         /\ Replaced(l, idx, other) \in Lits
         /\ Replaced(l, idx, other) # idx /\ Replaced(l, idx, other) # -idx
<1>1. idx \in Lits /\ -idx \in Lits /\ -other \in Lits
  BY LitFacts, ReconstructionAssumption DEF Vars, Lits, LitsOf
<1>2. other # idx /\ other # -idx /\ -other # idx /\ -other # -idx
  BY LitFacts, ReconstructionAssumption DEF VarOf, Vars
<1> QED
  BY <1>1, <1>2 DEF Replaced

\* Where a variable equals its representative, replacing it changes nothing.
LEMMA ReplacedEquivalent ==
  ASSUME NEW idx \in Vars, NEW other \in Lits, VarOf(other) < idx,
         NEW T \in SUBSET Vars, SatLit(T, idx) <=> SatLit(T, other),
         NEW c \in SUBSET Lits
  PROVE  SatClause(T, {Replaced(l, idx, other) : l \in c})
           <=> SatClause(T, c)
<1>1. \A l \in c : SatLit(T, Replaced(l, idx, other)) <=> SatLit(T, l)
  <2> SUFFICES ASSUME NEW l \in c
               PROVE  SatLit(T, Replaced(l, idx, other)) <=> SatLit(T, l)
    OBVIOUS
  <2>0. idx \in Lits /\ l \in Lits
    BY ReplacedFacts
  <2>1. SatLit(T, -idx) <=> SatLit(T, -other)
    BY <2>0, SatNegated
  <2> QED
    BY <2>1 DEF Replaced
<1> QED
  BY <1>1 DEF SatClause

\* The type of a substituted formula, which has lost the variable.
LEMMA SubstitutedType ==
  ASSUME NEW idx \in Vars, NEW other \in Lits, VarOf(other) < idx,
         NEW F \in SUBSET SUBSET Lits
  PROVE  /\ Substituted(F, idx, other) \in SUBSET SUBSET Lits
         /\ \A d \in Substituted(F, idx, other) :
              idx \notin d /\ -idx \notin d /\ ~Tautological(d)
<1> SUFFICES ASSUME NEW d \in Substituted(F, idx, other)
             PROVE  /\ d \in SUBSET Lits
                    /\ idx \notin d /\ -idx \notin d /\ ~Tautological(d)
  OBVIOUS
<1>1. PICK c \in F : d = {Replaced(l, idx, other) : l \in c}
  BY DEF Substituted
<1>2. ~Tautological(d)
  BY DEF Substituted
<1> QED
  BY <1>1, <1>2, ReplacedFacts

\* Where a variable equals its representative, the substituted formula holds
\* exactly where the formula does.
LEMMA SubstitutedModels ==
  ASSUME NEW idx \in Vars, NEW other \in Lits, VarOf(other) < idx,
         NEW F \in SUBSET SUBSET Lits, NEW T \in SUBSET Vars,
         SatClause(T, {-idx, other}), SatClause(T, {idx, -other})
  PROVE  SatFormula(T, Substituted(F, idx, other)) <=> SatFormula(T, F)
<1>0. idx \in Lits
  BY ReplacedFacts
<1>1. SatLit(T, idx) <=> SatLit(T, other)
  BY <1>0, SatNegated DEF SatClause
<1>2. \A c \in F : SatClause(T, {Replaced(l, idx, other) : l \in c})
                     <=> SatClause(T, c)
  BY <1>1, ReplacedEquivalent
<1>3. ASSUME NEW c \in F, Tautological({Replaced(l, idx, other) : l \in c})
      PROVE  SatClause(T, c)
  <2>1. {Replaced(l, idx, other) : l \in c} \in SUBSET Lits
    BY ReplacedFacts
  <2> QED
    BY <1>2, <1>3, <2>1, TautologyHolds
<1>4. \A c \in F : ~Tautological({Replaced(l, idx, other) : l \in c}) =>
        {Replaced(l, idx, other) : l \in c} \in Substituted(F, idx, other)
  BY DEF Substituted
<1>5. \A d \in Substituted(F, idx, other) :
        \E c \in F : d = {Replaced(l, idx, other) : l \in c}
  BY DEF Substituted
<1> QED
  BY ZenonT(30), <1>2, <1>3, <1>4, <1>5 DEF SatFormula

\* Repairing the entries of a substitution sets the variable to its
\* representative, and touches nothing else.
LEMMA SubstitutedRepair ==
  ASSUME NEW idx \in Vars, NEW other \in Lits, VarOf(other) < idx,
         NEW F \in SUBSET SUBSET Lits, NEW T \in SUBSET Vars,
         SatFormula(T, Substituted(F, idx, other))
  PROVE  /\ \A w \in {idx, -idx} :
              SatFormula(Flipped(T, {w}), Substituted(F, idx, other))
         /\ ~SatClause(T, {-idx, other}) =>
              /\ SatClause(Flipped(T, {-idx}), {-idx, other})
              /\ SatClause(Flipped(T, {-idx}), {idx, -other})
         /\ SatClause(Flipped(T, {idx}), {idx, -other})
<1>0. /\ idx \in Lits /\ -idx \in Lits /\ -other \in Lits /\ -(-idx) = idx
      /\ other # idx /\ other # -idx /\ -other # idx /\ -other # -idx
  BY ReplacedFacts, LitFacts
<1>1. \A w \in {idx, -idx} :
        SatFormula(Flipped(T, {w}), Substituted(F, idx, other))
  <2> SUFFICES ASSUME NEW w \in {idx, -idx},
                      NEW d \in Substituted(F, idx, other)
               PROVE  SatClause(Flipped(T, {w}), d)
    BY DEF SatFormula
  <2>1. d \in SUBSET Lits /\ idx \notin d /\ -idx \notin d
    BY SubstitutedType
  <2>2. w \in Lits /\ w \notin d /\ -w \notin d
    BY <1>0, <2>1
  <2> QED
    BY <2>1, <2>2, ClauseUnaffected DEF SatFormula
<1>2. /\ SatLit(Flipped(T, {-idx}), -idx) /\ SatLit(Flipped(T, {idx}), idx)
      /\ SatLit(Flipped(T, {-idx}), -other) <=> SatLit(T, -other)
  BY <1>0, FlippedWitness, FlippedOther
<1> QED
  BY <1>1, <1>2, SatNegated DEF SatClause

\* Propagation makes no tautologies.
LEMMA PropagateProper ==
  ASSUME NEW F \in SUBSET SUBSET Lits, \A c \in F : ~Tautological(c),
         NEW d \in propagate(F)
  PROVE  ~Tautological(d)
<1>1. \/ d = {}
      \/ \E l \in Units(F) : d = {l}
      \/ \E c \in F : d = c \ Negated(Units(F))
  BY DEF propagate, Unsat
<1>2. Units(F) \in SUBSET Lits
  BY DEF Units
<1>3. \A l \in Lits : -l # l
  BY LitFacts
<1> QED
  BY <1>1, <1>2, <1>3 DEF Tautological

\* Propagation brings in no literal that was not there.
LEMMA PropagateLits ==
  ASSUME NEW F \in SUBSET SUBSET Lits, NEW c \in propagate(F), NEW l \in c
  PROVE  \E d \in F : l \in d
<1> DEFINE U == UNION F
<1>1. U \in SUBSET Lits /\ Closed(F, U)
  BY DEF Closed
<1>2. Units(F) \subseteq U
  BY <1>1 DEF Units
<1>3. \/ c = {}
      \/ \E k \in Units(F) : c = {k}
      \/ \E d \in F : c = d \ Negated(Units(F))
  BY DEF propagate, Unsat
<1> QED
  BY <1>2, <1>3

\* A non-empty set of naturals has a smallest element.
LEMMA Smallest ==
  ASSUME NEW S \in SUBSET Nat, S # {}
  PROVE  \E x \in S : \A y \in S : x <= y
<1> DEFINE Res == {ss \in Nat \X Nat : ss[1] < ss[2]}
<1>0. IsWellFoundedOn(Res, Nat)
  BY NatLessThanWellFounded DEF OpToRel
<1> HIDE DEF Res
<1>1. \E x \in S : \A y \in S : ~(<<y, x>> \in Res)
  BY <1>0, WFMin
<1>2. PICK x \in S : \A y \in S : ~(<<y, x>> \in Res)
  BY <1>1
<1>3. ASSUME NEW y \in S, y < x PROVE <<y, x>> \in Res
  BY <1>3 DEF Res
<1>4. \A y \in S : ~(y < x)
  BY <1>2, <1>3
<1>5. \A y \in S : x <= y
  BY <1>4
<1> QED
  BY <1>5

\* Without pending entries, a model of the formula that satisfies the
\* assumptions can be repaired to a model of the user's clauses that does:
\* look at the lowest entry such an assignment can reach.
LEMMA ChainReaches ==
  ASSUME NEW g, NEW O, NEW F, NEW X \in Seq(Entries), NEW A \in SUBSET Lits,
         ChainOf(g, O, F, X, {}),
         \A i \in 1..Len(X) : \A a \in A : -a \notin X[i].witness,
         NEW T \in SUBSET Vars, SatFormula(T, F), SatAll(T, A)
  PROVE  \E M \in SUBSET Vars : SatFormula(M, O) /\ SatAll(M, A)
<1> DEFINE S == {i \in 0..Len(X) : \E M \in g[i] : SatAll(M, A)}
<1>0. /\ Len(X) \in Nat
      /\ g \in [0..Len(X) -> SUBSET SUBSET Vars]
      /\ \A i \in 1..Len(X) : X[i] \in Entries
  BY DEF ChainOf
<1>1. Len(X) \in S
  BY <1>0 DEF ChainOf
<1>2. S \in SUBSET Nat
  BY <1>0
<1>3. PICK k \in S : \A y \in S : k <= y
  <2> HIDE DEF S
  <2> QED
    BY <1>1, <1>2, Smallest
<1>4. k \in 0..Len(X)
  OBVIOUS
<1>5. PICK M \in g[k] : SatAll(M, A)
  OBVIOUS
<1>6. M \in SUBSET Vars
  BY <1>0, <1>4, <1>5
<1>7. CASE k = 0
  BY <1>5, <1>6, <1>7 DEF ChainOf
<1>8. CASE k # 0
  <2>1. k \in 1..Len(X) /\ k - 1 \in 0..Len(X) /\ ~(k <= k - 1)
    BY <1>0, <1>4, <1>8
  <2>2. X[k].witness \in SUBSET Lits
    BY <1>0, <2>1 DEF Entries
  <2>3. SatAll(Flipped(M, X[k].witness), A)
    BY <1>5, <1>6, <2>1, <2>2, FlippedKeeps DEF SatAll
  <2>4. M \in g[k - 1] \/ Flipped(M, X[k].witness) \in g[k - 1]
    BY <1>5, <2>1 DEF ChainOf
  <2>5. k - 1 \in S
    BY <1>5, <2>1, <2>3, <2>4
  <2> QED
    BY <1>3, <2>1, <2>5
<1> QED
  BY <1>7, <1>8

-----------------------------------------------------------------------------
(* The inductive invariant. *)

\* The loops stay within the stack, and a search starts untainted.
LoopsOK ==
  /\ phase = "restoring" => at >= 1
  /\ phase = "extending" => at <= Len(extension)
  /\ phase \in {"solving", "sat", "extending", "extended"} => tainted = {}

\* No clause of the formula is a tautology.
NoTautology == \A c \in irredundant : ~Tautological(c)

\* Every literal of a witness on the stack is marked.
Marked(X, W) == \A i \in 1..Len(X) : X[i].witness \subseteq W

\* The clauses O hold exactly where the formula F and the stack X do.
Equivalent(O, F, X) ==
  \A T \in SUBSET Vars :
    SatFormula(T, O) <=>
      SatFormula(T, F) /\ \A i \in 1..Len(X) : SatClause(T, X[i].clause)

\* No repair of an entry that is not pending falsifies an assumption.
Safe(X, A, P) ==
  \A i \in 1..Len(X) : i \notin P => \A a \in A : -a \notin X[i].witness

\* The entries that are still to be restored.
PendingEntries == {i \in 1..Len(extension) : Pending(i)}

\* The repairs lead from the models of the formula to the user's clauses, and
\* the assignment that is being extended is on its way.
Chained ==
  \E g : /\ ChainOf(g, original, irredundant, extension, PendingEntries)
         /\ phase = "extending" => vals \in g[at]
         /\ phase = "extended" => vals \in g[0]

\* What the search found, and which of it survives extending.
FoundOK ==
  /\ phase = "sat" => SatFormula(vals, irredundant)
  /\ phase \in {"sat", "extending", "extended"} => SatAll(vals, assumptions)

\* The inductive invariant of the extension stack.
StackInv ==
  /\ ReconstructionTypeOK
  /\ LoopsOK
  /\ NoTautology
  /\ Marked(extension, witness)
  /\ Equivalent(original, irredundant, extension)
  /\ Safe(extension, assumptions, PendingEntries)
  /\ Chained
  /\ FoundOK

-----------------------------------------------------------------------------
(* The calls of the user. *)

\* Without tainted literals no entry is pending.
LEMMA NonePending ==
  tainted = {} => PendingEntries = {}
  BY DEF PendingEntries, Pending, WitnessTainted

\* Outside of restoring, the entries that new literals could break become
\* pending, and no other entry ceases to be.
LEMMA UsePending ==
  ASSUME extension \in Seq(Entries), Marked(extension, witness),
         NEW L \in SUBSET Lits,
         tainted' = tainted \cup {l \in L : -l \in witness},
         extension' = extension, phase # "restoring", phase' # "restoring"
  PROVE  \A i \in 1..Len(extension) : i \notin PendingEntries' =>
           /\ i \notin PendingEntries
           /\ \A l \in L : -l \notin extension[i].witness
<1> SUFFICES ASSUME NEW i \in 1..Len(extension), i \notin PendingEntries'
             PROVE  /\ i \notin PendingEntries
                    /\ \A l \in L : -l \notin extension[i].witness
  OBVIOUS
<1>1. \A w \in extension[i].witness : -w \notin tainted'
  BY DEF PendingEntries, Pending, WitnessTainted
<1>2. /\ \A w \in extension[i].witness : -w \notin tainted
      /\ \A l \in L : -l \notin extension[i].witness
  <2>1. ASSUME NEW l \in L, -l \in extension[i].witness PROVE FALSE
    <3>1. -l \in witness /\ -(-l) = l
      BY <2>1, LitFacts DEF Marked
    <3>2. l \in tainted'
      BY <3>1
    <3> QED
      BY <1>1, <2>1, <3>1, <3>2
  <2>2. \A w \in extension[i].witness : -w \notin tainted
    BY <1>1
  <2> QED
    BY <2>1, <2>2
<1> QED
  BY <1>2 DEF PendingEntries, Pending, WitnessTainted

\* The first state has nothing on the stack.
LEMMA StackInvInit == Init => StackInv
<1> SUFFICES ASSUME Init PROVE StackInv
  OBVIOUS
<1>0. /\ Len(extension) = 0 /\ extension \in Seq(Entries)
      /\ 1..Len(extension) = {} /\ Len(extension) \in Nat
  BY DEF Init
<1>1. ReconstructionTypeOK
  BY <1>0 DEF Init, ReconstructionTypeOK, Phases, Idle
<1>2. LoopsOK /\ NoTautology /\ FoundOK
  BY DEF Init, LoopsOK, NoTautology, FoundOK
<1>3. Marked(extension, witness)
  BY <1>0 DEF Marked
<1>4. Equivalent(original, irredundant, extension)
  BY <1>0 DEF Equivalent, Init
<1>5. Safe(extension, assumptions, PendingEntries)
  BY <1>0 DEF Safe
<1>6. Chained
  <2> DEFINE g == [i \in 0..Len(extension) |-> SUBSET Vars]
  <2>1. g \in [0..Len(extension) -> SUBSET SUBSET Vars] /\ g[0] = SUBSET Vars
    BY <1>0
  <2>2. \A T \in g[0] : SatFormula(T, original)
    BY DEF Init, SatFormula
  <2>3. ChainOf(g, original, irredundant, extension, PendingEntries)
    BY <1>0, <2>1, <2>2 DEF ChainOf
  <2> QED
    BY <2>3 DEF Chained, Init
<1> QED
  BY <1>1, <1>2, <1>3, <1>4, <1>5, <1>6 DEF StackInv

\* A new clause.
LEMMA AddStep ==
  ASSUME StackInv, NEW c \in UserClauses, Add(c)
  PROVE  StackInv'
<1>0. /\ ReconstructionTypeOK /\ Marked(extension, witness) /\ NoTautology
      /\ c \in SUBSET Lits /\ extension \in Seq(Entries)
      /\ irredundant \in SUBSET SUBSET Lits /\ Len(extension) \in Nat
  BY ReconstructionAssumption DEF StackInv, ReconstructionTypeOK, Lits
<1>1. /\ original' = original \cup {c}
      /\ irredundant' = AddOriginal(irredundant, c)
      /\ extension' = extension /\ witness' = witness
      /\ tainted' = tainted \cup {l \in c : -l \in witness}
      /\ inactive' \subseteq inactive
      /\ assumptions' \subseteq assumptions
      /\ phase' = "input" /\ vals' = {} /\ at' = 0 /\ phase # "restoring"
  BY DEF Add, internalize, Tainted, Reactivated, FreshAssumptions, Idle
<1>2. /\ irredundant' \in SUBSET SUBSET Lits
      /\ \A T \in SUBSET Vars :
           SatFormula(T, irredundant') <=>
             SatFormula(T, irredundant) /\ SatClause(T, c)
  BY <1>0, <1>1, AddOriginalModels
<1>3. ReconstructionTypeOK'
  BY <1>0, <1>1, <1>2 DEF ReconstructionTypeOK, Phases, Idle
<1>4. LoopsOK' /\ FoundOK'
  BY <1>1 DEF LoopsOK, FoundOK
<1>5. NoTautology'
  BY <1>0, <1>1, PropagateProper DEF NoTautology, AddOriginal
<1>6. Marked(extension, witness)'
  BY <1>0, <1>1 DEF Marked
<1>7. Equivalent(original, irredundant, extension)'
  BY <1>1, <1>2 DEF StackInv, Equivalent, SatFormula
<1>8. \A i \in 1..Len(extension) : i \notin PendingEntries' =>
         i \notin PendingEntries /\ \A l \in c : -l \notin extension[i].witness
  BY <1>0, <1>1, UsePending
<1>9. Safe(extension, assumptions, PendingEntries)'
  BY <1>1, <1>8 DEF Safe, StackInv
<1>10. Chained'
  <2>1. PICK g : ChainOf(g, original, irredundant, extension, PendingEntries)
    BY DEF StackInv, Chained
  <2>2. \E h : ChainOf(h, original \cup {c}, irredundant', extension,
                       PendingEntries')
    BY <2>1, <1>0, <1>2, <1>8, ChainAdd
  <2> QED
    BY <2>2, <1>1 DEF Chained
<1> QED
  BY <1>3, <1>4, <1>5, <1>6, <1>7, <1>9, <1>10 DEF StackInv

\* A new assumption.
LEMMA AssumeStep ==
  ASSUME StackInv, NEW l \in UserLits, Assume(l)
  PROVE  StackInv'
<1>0. /\ ReconstructionTypeOK /\ Marked(extension, witness)
      /\ l \in Lits /\ {l} \in SUBSET Lits /\ extension \in Seq(Entries)
      /\ Len(extension) \in Nat
  BY ReconstructionAssumption DEF StackInv, ReconstructionTypeOK, Lits
<1>1. /\ original' = original /\ irredundant' = irredundant
      /\ extension' = extension /\ witness' = witness
      /\ tainted' = tainted \cup {k \in {l} : -k \in witness}
      /\ inactive' \subseteq inactive
      /\ assumptions' \subseteq assumptions \cup {l}
      /\ phase' = "input" /\ vals' = {} /\ at' = 0 /\ phase # "restoring"
  BY DEF Assume, internalize, Tainted, Reactivated, FreshAssumptions, Idle
<1>2. ReconstructionTypeOK'
  BY <1>0, <1>1 DEF ReconstructionTypeOK, Phases, Idle
<1>3. LoopsOK' /\ FoundOK'
  BY <1>1 DEF LoopsOK, FoundOK
<1>4. NoTautology' /\ Equivalent(original, irredundant, extension)'
      /\ Marked(extension, witness)'
  BY <1>0, <1>1 DEF StackInv, NoTautology
<1>5. \A i \in 1..Len(extension) : i \notin PendingEntries' =>
        /\ i \notin PendingEntries
        /\ \A k \in {l} : -k \notin extension[i].witness
  <2> HIDE DEF PendingEntries
  <2> QED
    BY <1>0, <1>1, UsePending
<1>6. Safe(extension, assumptions, PendingEntries)'
  BY <1>1, <1>5 DEF Safe, StackInv
<1>7. Chained'
  <2>1. PICK g : ChainOf(g, original, irredundant, extension, PendingEntries)
    BY DEF StackInv, Chained
  <2>2. ChainOf(g, original, irredundant, extension, PendingEntries')
    BY <2>1, <1>0, <1>5, ChainWeaker
  <2> QED
    BY <2>2, <1>1 DEF Chained
<1> QED
  BY <1>2, <1>3, <1>4, <1>6, <1>7 DEF StackInv

\* The start of a solve.
LEMMA SolveStep ==
  ASSUME StackInv, Solve
  PROVE  StackInv'
<1>0. /\ ReconstructionTypeOK
      /\ extension \in Seq(Entries) /\ Len(extension) \in Nat
  BY DEF StackInv, ReconstructionTypeOK
<1>1. /\ original' = original /\ irredundant' = irredundant
      /\ extension' = extension /\ witness' = witness
      /\ tainted' = tainted /\ inactive' = inactive
      /\ assumptions' \subseteq assumptions /\ vals' = {}
      /\ \/ phase' = "unsat" /\ at' = 0
         \/ phase' = "solving" /\ at' = 0 /\ tainted = {}
         \/ phase' = "restoring" /\ at' = 1
      /\ phase # "restoring"
  BY DEF Solve, FreshAssumptions, Idle
<1>2. ReconstructionTypeOK'
  BY <1>0, <1>1 DEF ReconstructionTypeOK, Phases, Idle
<1>3. LoopsOK' /\ FoundOK'
  BY <1>1 DEF LoopsOK, FoundOK
<1>4. NoTautology' /\ Equivalent(original, irredundant, extension)'
      /\ Marked(extension, witness)'
  BY <1>0, <1>1 DEF StackInv, NoTautology
<1>5. \A i \in 1..Len(extension) :
        i \notin PendingEntries' => i \notin PendingEntries
  BY <1>0, <1>1 DEF PendingEntries, Pending, WitnessTainted
<1>6. Safe(extension, assumptions, PendingEntries)'
  BY <1>1, <1>5 DEF Safe, StackInv
<1>7. Chained'
  <2>1. PICK g : ChainOf(g, original, irredundant, extension, PendingEntries)
    BY DEF StackInv, Chained
  <2>2. ChainOf(g, original, irredundant, extension, PendingEntries')
    BY <2>1, <1>0, <1>5, ChainWeaker
  <2> QED
    BY <2>2, <1>1 DEF Chained
<1> QED
  BY <1>2, <1>3, <1>4, <1>6, <1>7 DEF StackInv

-----------------------------------------------------------------------------
(* Restoring. *)

\* An entry is restored: its clause is in the formula again, and the entries
\* above it that could break the clause become pending.
LEMMA RestoreEntryStep ==
  ASSUME StackInv, RestoreEntry
  PROVE  StackInv'
<1> DEFINE c == extension[at].clause
<1>0. /\ ReconstructionTypeOK /\ Marked(extension, witness) /\ NoTautology
      /\ extension \in Seq(Entries) /\ Len(extension) \in Nat
      /\ at \in 1..Len(extension) /\ phase = "restoring"
      /\ irredundant \in SUBSET SUBSET Lits
  BY DEF StackInv, ReconstructionTypeOK, LoopsOK, RestoreEntry
<1>1. c \in SUBSET Lits
  <2>1. extension[at] \in Entries
    BY <1>0
  <2> QED
    BY <2>1 DEF Entries
<1>2. /\ original' = original
      /\ irredundant' = AddOriginal(irredundant, c)
      /\ extension' = Without(extension, at) /\ witness' = witness
      /\ tainted' = tainted \cup {l \in c : -l \in witness}
      /\ inactive' \subseteq inactive
      /\ assumptions' = assumptions
      /\ phase' = phase /\ vals' = vals /\ at' = at
  BY DEF RestoreEntry, internalize, Tainted, Reactivated, AfterRestored
<1>3. /\ extension' \in Seq(Entries)
      /\ Len(extension') = Len(extension) - 1
      /\ \A i \in 1..(Len(extension) - 1) :
           extension'[i] = IF i < at THEN extension[i] ELSE extension[i + 1]
  BY <1>0, <1>2, WithoutFacts
<1>4. /\ irredundant' \in SUBSET SUBSET Lits
      /\ \A T \in SUBSET Vars :
           SatFormula(T, irredundant') <=>
             SatFormula(T, irredundant) /\ SatClause(T, c)
  <2>1. /\ irredundant \in SUBSET SUBSET Lits /\ c \in SUBSET Lits
        /\ irredundant' = AddOriginal(irredundant, c)
    BY <1>0, <1>1, <1>2
  <2> HIDE DEF c
  <2> QED
    BY <2>1, AddOriginalModels
<1> HIDE DEF c
<1>5. ReconstructionTypeOK'
  BY <1>0, <1>1, <1>2, <1>3, <1>4 DEF ReconstructionTypeOK
<1>6. LoopsOK' /\ FoundOK'
  BY <1>0, <1>2 DEF LoopsOK, FoundOK
<1>7. NoTautology'
  BY <1>0, <1>1, <1>2, PropagateProper DEF NoTautology, AddOriginal
<1>8. Marked(extension, witness)'
  BY <1>0, <1>2, <1>3, SMTT(40) DEF Marked
<1>9. Equivalent(original, irredundant, extension)'
  <2> SUFFICES ASSUME NEW T \in SUBSET Vars
        PROVE  SatFormula(T, original) <=>
                 /\ SatFormula(T, irredundant')
                 /\ \A i \in 1..Len(extension') :
                      SatClause(T, extension'[i].clause)
    BY <1>2 DEF Equivalent
  <2>1. SatFormula(T, original) <=>
          /\ SatFormula(T, irredundant)
          /\ \A i \in 1..Len(extension) : SatClause(T, extension[i].clause)
    BY DEF StackInv, Equivalent
  <2>2. ASSUME \A i \in 1..Len(extension') :
                 SatClause(T, extension'[i].clause),
               SatClause(T, c), NEW i \in 1..Len(extension)
        PROVE  SatClause(T, extension[i].clause)
    <3>1. CASE i < at
      BY <3>1, <2>2, <1>0, <1>3
    <3>2. CASE i = at
      BY <3>2, <2>2 DEF c
    <3>3. CASE i > at
      <4>1. i - 1 \in 1..Len(extension') /\ extension'[i - 1] = extension[i]
        BY <3>3, <1>0, <1>3
      <4> QED
        BY <4>1, <2>2
    <3> QED
      BY <3>1, <3>2, <3>3, <1>0
  <2>3. ASSUME \A i \in 1..Len(extension) : SatClause(T, extension[i].clause)
        PROVE  /\ SatClause(T, c)
               /\ \A i \in 1..Len(extension') :
                    SatClause(T, extension'[i].clause)
    BY <2>3, <1>0, <1>3 DEF c
  <2> QED
    BY <1>4, <2>1, <2>2, <2>3
<1>10. \A i \in 1..(Len(extension) - 1) : i \notin PendingEntries' =>
         IF i < at THEN i \notin PendingEntries
         ELSE /\ i + 1 \notin PendingEntries
              /\ \A l \in c : -l \notin extension[i + 1].witness
  <2> SUFFICES ASSUME NEW i \in 1..(Len(extension) - 1),
                      i \notin PendingEntries'
               PROVE  IF i < at THEN i \notin PendingEntries
                      ELSE /\ i + 1 \notin PendingEntries
                           /\ \A l \in c : -l \notin extension[i + 1].witness
    OBVIOUS
  <2>1. CASE i < at
    BY <2>1, <1>0 DEF PendingEntries, Pending
  <2>2. CASE ~(i < at)
    <3>1. i + 1 \in 1..Len(extension) /\ extension'[i] = extension[i + 1]
          /\ i >= at'
      BY <2>2, <1>0, <1>2, <1>3
    <3>2. \A w \in extension[i + 1].witness : -w \notin tainted'
      BY <3>1, <1>2, <1>3 DEF PendingEntries, Pending, WitnessTainted
    <3>3. /\ \A w \in extension[i + 1].witness : -w \notin tainted
          /\ \A l \in c : -l \notin extension[i + 1].witness
      <4>1. ASSUME NEW l \in c, -l \in extension[i + 1].witness PROVE FALSE
        <5>1. -l \in witness /\ -(-l) = l
          BY <4>1, <3>1, <1>0, <1>1, LitFacts DEF Marked
        <5>2. l \in tainted'
          BY <5>1, <1>2
        <5> QED
          BY <3>2, <4>1, <5>1, <5>2
      <4>2. \A w \in extension[i + 1].witness : -w \notin tainted
        BY <3>2, <1>2
      <4> QED
        BY <4>1, <4>2
    <3> QED
      BY <3>3, <2>2 DEF PendingEntries, Pending, WitnessTainted
  <2> QED
    BY <2>1, <2>2
<1>11. Safe(extension, assumptions, PendingEntries)'
  <2> SUFFICES ASSUME NEW i \in 1..Len(extension'), i \notin PendingEntries',
                      NEW a \in assumptions
               PROVE  -a \notin extension'[i].witness
    BY <1>2 DEF Safe
  <2>1. CASE i < at
    BY <2>1, <1>0, <1>3, <1>10 DEF StackInv, Safe
  <2>2. CASE ~(i < at)
    <3>1. i + 1 \in 1..Len(extension) /\ extension'[i] = extension[i + 1]
          /\ i + 1 \notin PendingEntries
      BY <2>2, <1>0, <1>3, <1>10
    <3> QED
      BY <3>1 DEF StackInv, Safe
  <2> QED
    BY <2>1, <2>2
<1>12. Chained'
  <2>1. PICK g : ChainOf(g, original, irredundant, extension, PendingEntries)
    BY DEF StackInv, Chained
  <2>2. \E h : ChainOf(h, original, irredundant', Without(extension, at),
                       PendingEntries')
    BY <2>1, <1>0, <1>4, <1>10, ChainRestore DEF c
  <2> QED
    BY <2>2, <1>0, <1>2 DEF Chained
<1> QED
  BY <1>5, <1>6, <1>7, <1>8, <1>9, <1>11, <1>12 DEF StackInv

\* An entry whose witness is not tainted stays on the stack.
LEMMA KeepEntryStep ==
  ASSUME StackInv, KeepEntry
  PROVE  StackInv'
<1>0. /\ ReconstructionTypeOK
      /\ extension \in Seq(Entries) /\ Len(extension) \in Nat
      /\ at \in 1..Len(extension) /\ phase = "restoring"
  BY DEF StackInv, ReconstructionTypeOK, LoopsOK, KeepEntry
<1>1. /\ original' = original /\ irredundant' = irredundant
      /\ extension' = extension /\ witness' = witness
      /\ tainted' = tainted /\ inactive' = inactive
      /\ assumptions' = assumptions /\ phase' = phase /\ vals' = vals
      /\ at' = at + 1 /\ ~WitnessTainted(extension[at])
  BY DEF KeepEntry, MustRestore
<1>2. ReconstructionTypeOK'
  BY <1>0, <1>1 DEF ReconstructionTypeOK
<1>3. LoopsOK' /\ FoundOK'
  BY <1>0, <1>1 DEF LoopsOK, FoundOK
<1>4. NoTautology' /\ Equivalent(original, irredundant, extension)'
      /\ Marked(extension, witness)'
  BY <1>0, <1>1 DEF StackInv, NoTautology
<1>5. \A i \in 1..Len(extension) :
        i \notin PendingEntries' => i \notin PendingEntries
  BY <1>0, <1>1 DEF PendingEntries, Pending, WitnessTainted
<1>6. Safe(extension, assumptions, PendingEntries)'
  BY <1>1, <1>5 DEF Safe, StackInv
<1>7. Chained'
  <2>1. PICK g : ChainOf(g, original, irredundant, extension, PendingEntries)
    BY DEF StackInv, Chained
  <2>2. ChainOf(g, original, irredundant, extension, PendingEntries')
    BY <2>1, <1>0, <1>5, ChainWeaker
  <2> QED
    BY <2>2, <1>0, <1>1 DEF Chained
<1> QED
  BY <1>2, <1>3, <1>4, <1>6, <1>7 DEF StackInv

\* What recomputing the marks, and pushing entries, marks.
LEMMA WitnessesMarked ==
  ASSUME NEW X \in Seq(Entries)
  PROVE  Witnesses(X) \in SUBSET Lits /\ Marked(X, Witnesses(X))
<1>1. \A i \in 1..Len(X) : X[i] \in Entries
  OBVIOUS
<1>2. \A i \in 1..Len(X) : X[i].witness \in SUBSET Lits
  BY <1>1 DEF Entries
<1>3. DOMAIN X = 1..Len(X)
  OBVIOUS
<1> QED
  BY <1>2, <1>3 DEF Witnesses, Marked

\* The end of restoring: no entry is pending any more.
LEMMA RestoreEndsStep ==
  ASSUME StackInv, RestoreEnds
  PROVE  StackInv'
<1>0. /\ ReconstructionTypeOK
      /\ extension \in Seq(Entries) /\ Len(extension) \in Nat
      /\ at > Len(extension) /\ at \in Nat /\ phase = "restoring"
  BY DEF StackInv, ReconstructionTypeOK, RestoreEnds
<1>1. /\ original' = original /\ irredundant' = irredundant
      /\ extension' = extension /\ witness' = Witnesses(extension)
      /\ tainted' = {} /\ inactive' = inactive
      /\ assumptions' = assumptions /\ vals' = vals /\ at' = 0
      /\ phase' \in {"unsat", "solving"}
  BY DEF RestoreEnds
<1>2. /\ Witnesses(extension) \in SUBSET Lits
      /\ Marked(extension, Witnesses(extension))
  BY <1>0, WitnessesMarked
<1>3. ReconstructionTypeOK'
  BY <1>0, <1>1, <1>2 DEF ReconstructionTypeOK, Phases, Idle
<1>4. LoopsOK' /\ FoundOK'
  BY <1>1 DEF LoopsOK, FoundOK
<1>5. NoTautology' /\ Equivalent(original, irredundant, extension)'
      /\ Marked(extension, witness)'
  BY <1>1, <1>2 DEF StackInv, NoTautology
<1>6. \A i \in 1..Len(extension) : i \notin PendingEntries
  BY <1>0 DEF PendingEntries, Pending
<1>7. Safe(extension, assumptions, PendingEntries)'
  BY <1>1, <1>6 DEF Safe, StackInv
<1>8. Chained'
  <2>1. PICK g : ChainOf(g, original, irredundant, extension, PendingEntries)
    BY DEF StackInv, Chained
  <2>2. ChainOf(g, original, irredundant, extension, PendingEntries')
    BY <2>1, <1>0, <1>6, ChainWeaker
  <2> QED
    BY <2>2, <1>1 DEF Chained
<1> QED
  BY <1>3, <1>4, <1>5, <1>7, <1>8 DEF StackInv

-----------------------------------------------------------------------------
(* Inprocessing. *)

\* A simplification that pushes es keeps the invariant when the new formula
\* and es are as strong as the old formula, repairing an entry of es keeps
\* the new formula and the entries above, the new formula and es follow from
\* the old formula and the stack, and no witness in es is frozen.
LEMMA SimplifyStep ==
  ASSUME StackInv, Solving, Simplifies,
         NEW es \in Seq(Entries),
         extension' = extension \o es,
         Marked(es, witness'), witness \subseteq witness',
         witness' \in SUBSET Lits, inactive' \in SUBSET Vars,
         irredundant' \in SUBSET SUBSET Lits,
         \A c \in irredundant' : ~Tautological(c),
         \A T \in SUBSET Vars :
           /\ SatFormula(T, irredundant')
           /\ \A j \in 1..Len(es) : SatClause(T, es[j].clause)
           => SatFormula(T, irredundant),
         \A T \in SUBSET Vars, j \in 1..Len(es) :
           /\ SatFormula(T, irredundant')
           /\ \A k \in (j + 1)..Len(es) : SatClause(T, es[k].clause)
           /\ ~SatClause(T, es[j].clause)
           => /\ SatFormula(Flipped(T, es[j].witness), irredundant')
              /\ \A k \in j..Len(es) :
                   SatClause(Flipped(T, es[j].witness), es[k].clause),
         \A T \in SUBSET Vars :
           /\ SatFormula(T, irredundant)
           /\ \A i \in 1..Len(extension) : SatClause(T, extension[i].clause)
           => /\ SatFormula(T, irredundant')
              /\ \A j \in 1..Len(es) : SatClause(T, es[j].clause),
         Safe(es, assumptions, {})
  PROVE  StackInv'
<1>0. /\ ReconstructionTypeOK /\ phase = "solving" /\ tainted = {}
      /\ extension \in Seq(Entries)
      /\ Len(extension) \in Nat /\ Len(es) \in Nat
  BY DEF StackInv, ReconstructionTypeOK, Solving, LoopsOK
<1>1. /\ original' = original /\ tainted' = tainted
      /\ assumptions' = assumptions /\ phase' = phase /\ at' = at
      /\ vals' = vals
  BY DEF Simplifies
<1>2. /\ extension' \in Seq(Entries)
      /\ Len(extension') = Len(extension) + Len(es)
      /\ \A k \in 1..(Len(extension) + Len(es)) :
           extension'[k] = IF k <= Len(extension) THEN extension[k]
                           ELSE es[k - Len(extension)]
  BY <1>0, ConcatProperties
<1>3. ASSUME NEW k \in 1..Len(extension')
      PROVE  \/ k \in 1..Len(extension) /\ extension'[k] = extension[k]
             \/ /\ k - Len(extension) \in 1..Len(es)
                /\ extension'[k] = es[k - Len(extension)]
  BY <1>0, <1>2
<1>4. /\ \A k \in 1..Len(extension) :
           k \in 1..Len(extension') /\ extension'[k] = extension[k]
      /\ \A j \in 1..Len(es) : /\ Len(extension) + j \in 1..Len(extension')
                               /\ extension'[Len(extension) + j] = es[j]
  BY <1>0, <1>2
<1>5. ReconstructionTypeOK'
  BY <1>0, <1>1, <1>2 DEF ReconstructionTypeOK
<1>6. LoopsOK' /\ FoundOK' /\ NoTautology'
  BY <1>0, <1>1 DEF LoopsOK, FoundOK, NoTautology
<1>7. Marked(extension, witness)'
  BY <1>3 DEF Marked, StackInv
<1>8. PendingEntries = {} /\ PendingEntries' = {}
  BY <1>0, <1>1 DEF PendingEntries, Pending, WitnessTainted
<1>9. Equivalent(original, irredundant, extension)'
  <2> SUFFICES ASSUME NEW T \in SUBSET Vars
        PROVE  SatFormula(T, original) <=>
                 /\ SatFormula(T, irredundant')
                 /\ \A k \in 1..Len(extension') :
                      SatClause(T, extension'[k].clause)
    BY <1>1 DEF Equivalent
  <2>1. SatFormula(T, original) <=>
          /\ SatFormula(T, irredundant)
          /\ \A k \in 1..Len(extension) : SatClause(T, extension[k].clause)
    BY DEF StackInv, Equivalent
  <2>2. (\A k \in 1..Len(extension') : SatClause(T, extension'[k].clause))
          <=> /\ \A k \in 1..Len(extension) : SatClause(T, extension[k].clause)
              /\ \A j \in 1..Len(es) : SatClause(T, es[j].clause)
    BY <1>3, <1>4
  <2> QED
    BY <2>1, <2>2
<1>10. Safe(extension, assumptions, PendingEntries)'
  <2> SUFFICES ASSUME NEW k \in 1..Len(extension'), NEW a \in assumptions
               PROVE  -a \notin extension'[k].witness
    BY <1>1 DEF Safe
  <2> QED
    BY <1>3, <1>8 DEF Safe, StackInv
<1>11. Chained'
  <2>1. PICK g : ChainOf(g, original, irredundant, extension, {})
    BY <1>8 DEF StackInv, Chained
  <2>2. \E h : ChainOf(h, original, irredundant', extension \o es, {})
    BY <2>1, <1>0, ChainPush
  <2> QED
    BY <2>2, <1>0, <1>1, <1>8 DEF Chained
<1> QED
  BY <1>5, <1>6, <1>7, <1>9, <1>10, <1>11 DEF StackInv

\* A simplification that pushes nothing and keeps the models of the formula
\* that satisfy the stack.
LEMMA StrengthenStep ==
  ASSUME StackInv, Solving, Simplifies,
         extension' = extension, witness' = witness, inactive' \in SUBSET Vars,
         irredundant' \in SUBSET SUBSET Lits,
         \A c \in irredundant' : ~Tautological(c),
         \A T \in SUBSET Vars :
           SatFormula(T, irredundant') => SatFormula(T, irredundant),
         \A T \in SUBSET Vars :
           /\ SatFormula(T, irredundant)
           /\ \A i \in 1..Len(extension) : SatClause(T, extension[i].clause)
           => SatFormula(T, irredundant')
  PROVE  StackInv'
<1>0. /\ extension \in Seq(Entries) /\ witness' \in SUBSET Lits
      /\ witness \subseteq witness'
  BY DEF StackInv, ReconstructionTypeOK
<1> DEFINE es == <<>>
<1>1. es \in Seq(Entries) /\ Len(es) = 0 /\ 1..Len(es) = {}
  OBVIOUS
<1>2. extension' = extension \o es
  BY <1>0, ConcatEmptySeq
<1> HIDE DEF es
<1>3. Marked(es, witness') /\ Safe(es, assumptions, {})
  BY <1>1 DEF Marked, Safe
<1> QED
  BY <1>0, <1>1, <1>2, <1>3, SimplifyStep

\* The witnesses of removable variables are not frozen.
LEMMA RemovableSafe ==
  ASSUME assumptions \in SUBSET Lits, NEW l \in Lits, Removable(VarOf(l))
  PROVE  \A a \in assumptions : -a # l /\ -a # -l
<1> SUFFICES ASSUME NEW a \in assumptions, -a = l \/ -a = -l PROVE FALSE
  OBVIOUS
<1>1. VarOf(a) = VarOf(l)
  BY LitFacts DEF VarOf
<1> QED
  BY <1>1 DEF Removable, Frozen, VarsOf

\* A blocked clause moves to the stack.
LEMMA BlockStep ==
  ASSUME StackInv, NEW c \in irredundant, NEW lit \in c, Block(c, lit)
  PROVE  StackInv'
<1> DEFINE es == <<Entry({lit}, c)>>
<1>0. /\ irredundant \in SUBSET SUBSET Lits /\ c \in SUBSET Lits /\ lit \in Lits
      /\ assumptions \in SUBSET Lits /\ inactive \in SUBSET Vars
      /\ witness \in SUBSET Lits
  BY DEF StackInv, ReconstructionTypeOK
<1>1. /\ es \in Seq(Entries) /\ Len(es) = 1 /\ 1..Len(es) = {1}
      /\ es[1].witness = {lit} /\ es[1].clause = c /\ DOMAIN es = {1}
  BY <1>0 DEF Entry, Entries
<1>2. /\ Solving /\ Simplifies /\ extension' = extension \o es
      /\ witness' = witness \cup Witnesses(es) /\ inactive' = inactive
      /\ irredundant' = irredundant \ {c}
      /\ is_blocked_clause(c, lit) /\ Removable(VarOf(lit))
  BY DEF Block, Push
<1> HIDE DEF es
<1>3. Witnesses(es) = {lit}
  BY <1>1 DEF Witnesses
<1>4. Marked(es, witness') /\ witness \subseteq witness'
      /\ witness' \in SUBSET Lits
  BY <1>0, <1>1, <1>2, <1>3 DEF Marked
<1>5. Safe(es, assumptions, {})
  BY <1>0, <1>1, <1>2, RemovableSafe DEF Safe
<1>6. /\ irredundant' \in SUBSET SUBSET Lits
      /\ \A d \in irredundant' : ~Tautological(d)
  BY <1>0, <1>2 DEF StackInv, NoTautology
<1>7. ASSUME NEW T \in SUBSET Vars
      PROVE  SatFormula(T, irredundant) <=>
               SatFormula(T, irredundant') /\ SatClause(T, c)
  BY <1>2 DEF SatFormula
<1>8. ASSUME NEW T \in SUBSET Vars, SatFormula(T, irredundant'),
             ~SatClause(T, c)
      PROVE  /\ SatFormula(Flipped(T, {lit}), irredundant')
             /\ SatClause(Flipped(T, {lit}), c)
  BY <1>0, <1>2, <1>8, BlockedRepair
<1>9. /\ \A T \in SUBSET Vars :
           /\ SatFormula(T, irredundant')
           /\ \A j \in 1..Len(es) : SatClause(T, es[j].clause)
           => SatFormula(T, irredundant)
      /\ \A T \in SUBSET Vars :
           /\ SatFormula(T, irredundant)
           /\ \A i \in 1..Len(extension) : SatClause(T, extension[i].clause)
           => /\ SatFormula(T, irredundant')
              /\ \A j \in 1..Len(es) : SatClause(T, es[j].clause)
  BY <1>1, <1>7
<1>10. \A T \in SUBSET Vars, j \in 1..Len(es) :
         /\ SatFormula(T, irredundant')
         /\ \A k \in (j + 1)..Len(es) : SatClause(T, es[k].clause)
         /\ ~SatClause(T, es[j].clause)
         => /\ SatFormula(Flipped(T, es[j].witness), irredundant')
            /\ \A k \in j..Len(es) :
                 SatClause(Flipped(T, es[j].witness), es[k].clause)
  BY <1>1, <1>8
<1> QED
  BY <1>0, <1>1, <1>2, <1>4, <1>5, <1>6, <1>9, <1>10, SimplifyStep

\* Variable elimination, and pure literals.
LEMMA EliminateStep ==
  ASSUME StackInv, NEW p \in Lits, NEW G, Eliminate(p, G)
  PROVE  StackInv'
<1> DEFINE Res == Rest(p) \cup Resolvents(G, p)
<1>0. /\ irredundant \in SUBSET SUBSET Lits /\ -p \in Lits
      /\ assumptions \in SUBSET Lits /\ inactive \in SUBSET Vars
      /\ witness \in SUBSET Lits
      /\ \A c \in irredundant : ~Tautological(c)
  BY LitFacts DEF StackInv, ReconstructionTypeOK, NoTautology
<1>1. /\ Solving /\ Simplifies /\ Gate(G, p) /\ Removable(VarOf(p))
      /\ irredundant' = propagate(Res)
      /\ inactive' = inactive \cup {VarOf(p)}
  BY DEF Eliminate, Rest
<1>2. Res \in SUBSET SUBSET Lits
  BY <1>0, ResolventsType
<1>3. \A c \in Res : ~Tautological(c)
  BY <1>0 DEF Rest, Resolvents
<1> HIDE DEF Res
<1>4. /\ irredundant' \in SUBSET SUBSET Lits
      /\ \A c \in irredundant' : ~Tautological(c)
      /\ inactive' \in SUBSET Vars
  BY <1>0, <1>1, <1>2, <1>3, PropagateType, PropagateProper, LitFacts
<1>5. \A T \in SUBSET Vars :
        SatFormula(T, irredundant') <=> SatFormula(T, Res)
  BY <1>1, <1>2, PropagateModels
<1>6. \A T \in SUBSET Vars :
        SatFormula(T, irredundant) => SatFormula(T, irredundant')
  BY <1>0, <1>5, ResolventsHold DEF Res
<1>7. CASE {} \in irredundant' /\ UNCHANGED <<extension, witness>>
  <2>1. extension' = extension /\ witness' = witness
    BY <1>7
  <2>2. \A T \in SUBSET Vars : ~SatFormula(T, irredundant')
    BY <1>7 DEF SatFormula, SatClause
  <2> QED
    BY <1>1, <1>4, <1>6, <2>1, <2>2, StrengthenStep
<1>8. CASE \E es \in Weakened(G, p) : Push(es)
  <2>1. PICK es \in Weakened(G, p) : Push(es)
    BY <1>8
  <2>2. PICK m \in Nat : \A j \in 1..Len(es) :
          IF j <= m
            THEN es[j].witness = {p} /\ es[j].clause \in Pushed(G, p)
            ELSE es[j].witness = {-p} /\ es[j].clause \in Pushed(G, -p)
    BY <1>0, WeakenedFacts
  <2>3. /\ es \in Seq(Entries)
        /\ \A c \in Pushed(G, p) \cup Pushed(G, -p) :
             \E j \in 1..Len(es) : es[j].clause = c
    BY <1>0, WeakenedFacts
  <2>4. /\ extension' = extension \o es
        /\ witness' = witness \cup Witnesses(es)
    BY <2>1 DEF Push
  <2>5. Marked(es, witness') /\ witness \subseteq witness'
        /\ witness' \in SUBSET Lits
    BY <1>0, <2>3, <2>4, WitnessesMarked DEF Marked
  <2>6. \A j \in 1..Len(es) :
          /\ es[j].witness = {p} \/ es[j].witness = {-p}
          /\ es[j].clause \in irredundant
    BY <2>2 DEF Pushed, Occs
  <2>7. Safe(es, assumptions, {})
    BY <1>0, <1>1, <2>6, RemovableSafe DEF Safe
  <2>8. ASSUME NEW T \in SUBSET Vars, SatFormula(T, irredundant'),
               \A j \in 1..Len(es) : SatClause(T, es[j].clause)
        PROVE  SatFormula(T, irredundant)
    <3>1. \A c \in Pushed(G, p) \cup Pushed(G, -p) : SatClause(T, c)
      BY <2>3, <2>8
    <3>2. SatFormula(T, Res)
      BY <1>5, <2>8
    <3> QED
      BY <3>1, <3>2, <1>0, <1>1, EliminatedFollow DEF Res
  <2>9. ASSUME NEW T \in SUBSET Vars, NEW j \in 1..Len(es),
               SatFormula(T, irredundant'), ~SatClause(T, es[j].clause)
        PROVE  /\ SatFormula(Flipped(T, es[j].witness), irredundant')
               /\ \A k \in j..Len(es) :
                    SatClause(Flipped(T, es[j].witness), es[k].clause)
    <3>1. SatFormula(T, Res)
      BY <1>5, <2>9
    <3>2. /\ SatFormula(Flipped(T, es[j].witness), Res)
          /\ \A k \in j..Len(es) :
               SatClause(Flipped(T, es[j].witness), es[k].clause)
      BY <3>1, <2>9, <1>0, <1>1, EliminatedRepair DEF Res
    <3> QED
      BY <3>2, <1>5, FlippedType
  <2>10. \A T \in SUBSET Vars :
           /\ SatFormula(T, irredundant)
           /\ \A k \in 1..Len(extension) : SatClause(T, extension[k].clause)
           => /\ SatFormula(T, irredundant')
              /\ \A j \in 1..Len(es) : SatClause(T, es[j].clause)
    BY <1>6, <2>6 DEF SatFormula
  <2> QED
    BY <1>1, <1>4, <2>3, <2>4, <2>5, <2>7, <2>8, <2>9, <2>10, SimplifyStep
<1> QED
  BY <1>7, <1>8 DEF Eliminate

\* An implied clause holds where the formula and the stack do.
LEMMA ImpliedHolds ==
  ASSUME extension \in Seq(Entries), NEW c, Implied(c), NEW T \in SUBSET Vars,
         SatFormula(T, irredundant),
         \A i \in 1..Len(extension) : SatClause(T, extension[i].clause)
  PROVE  SatClause(T, c)
<1>1. SatFormula(T, irredundant \cup StackClauses)
  BY DEF SatFormula, StackClauses
<1> QED
  BY <1>1 DEF Implied

\* A variable is replaced by its representative.
LEMMA SubstituteStep ==
  ASSUME StackInv, NEW idx \in Vars, NEW other \in Lits,
         Substitute(idx, other)
  PROVE  StackInv'
<1> DEFINE es == <<Entry({-idx}, {-idx, other}), Entry({idx}, {idx, -other})>>
           Res == Substituted(irredundant, idx, other)
<1>0. /\ irredundant \in SUBSET SUBSET Lits /\ extension \in Seq(Entries)
      /\ assumptions \in SUBSET Lits /\ inactive \in SUBSET Vars
      /\ witness \in SUBSET Lits
  BY DEF StackInv, ReconstructionTypeOK
<1>1. /\ Solving /\ Simplifies /\ Removable(idx) /\ VarOf(other) < idx
      /\ Implied({-idx, other}) /\ Implied({idx, -other})
      /\ extension' = extension \o es
      /\ witness' = witness \cup Witnesses(es)
      /\ irredundant' = propagate(Res)
      /\ inactive' \in SUBSET Vars
  BY <1>0 DEF Substitute, Push
<1>2. idx \in Lits /\ -idx \in Lits /\ -other \in Lits /\ VarOf(idx) = idx
  <2>1. VarOf(idx) = idx
    BY ReconstructionAssumption DEF VarOf, Vars
  <2> QED
    BY <1>1, <2>1, ReplacedFacts
<1>3. /\ es \in Seq(Entries) /\ Len(es) = 2 /\ 1..Len(es) = {1, 2}
      /\ es[1].witness = {-idx} /\ es[1].clause = {-idx, other}
      /\ es[2].witness = {idx} /\ es[2].clause = {idx, -other}
  BY <1>2 DEF Entry, Entries
<1> HIDE DEF es
<1>4. Marked(es, witness') /\ witness \subseteq witness'
      /\ witness' \in SUBSET Lits
  BY <1>0, <1>1, <1>3, WitnessesMarked DEF Marked
<1>5. Safe(es, assumptions, {})
  BY <1>0, <1>1, <1>2, <1>3, RemovableSafe DEF Safe
<1>6. Res \in SUBSET SUBSET Lits /\ \A d \in Res : ~Tautological(d)
  BY <1>0, <1>1, SubstitutedType
<1> HIDE DEF Res
<1>7. /\ irredundant' \in SUBSET SUBSET Lits
      /\ \A d \in irredundant' : ~Tautological(d)
      /\ \A T \in SUBSET Vars :
           SatFormula(T, irredundant') <=> SatFormula(T, Res)
  BY <1>1, <1>6, PropagateType, PropagateProper, PropagateModels
<1>8. ASSUME NEW T \in SUBSET Vars, SatFormula(T, irredundant'),
             \A j \in 1..Len(es) : SatClause(T, es[j].clause)
      PROVE  SatFormula(T, irredundant)
  BY SMTT(30), <1>0, <1>1, <1>3, <1>7, <1>8, SubstitutedModels DEF Res
<1>9. ASSUME NEW T \in SUBSET Vars, SatFormula(T, irredundant),
             \A i \in 1..Len(extension) : SatClause(T, extension[i].clause)
      PROVE  /\ SatFormula(T, irredundant')
             /\ \A j \in 1..Len(es) : SatClause(T, es[j].clause)
  <2>1. SatClause(T, {-idx, other}) /\ SatClause(T, {idx, -other})
    BY <1>0, <1>1, <1>9, ImpliedHolds
  <2>2. SatFormula(T, Res)
    BY <2>1, <1>0, <1>1, <1>9, SubstitutedModels DEF Res
  <2> QED
    BY <2>1, <2>2, <1>3, <1>7
<1>10. ASSUME NEW T \in SUBSET Vars, NEW j \in 1..Len(es),
              SatFormula(T, irredundant'), ~SatClause(T, es[j].clause)
       PROVE  /\ SatFormula(Flipped(T, es[j].witness), irredundant')
              /\ \A k \in j..Len(es) :
                   SatClause(Flipped(T, es[j].witness), es[k].clause)
  <2>1. /\ \A w \in {idx, -idx} : SatFormula(Flipped(T, {w}), Res)
        /\ ~SatClause(T, {-idx, other}) =>
             /\ SatClause(Flipped(T, {-idx}), {-idx, other})
             /\ SatClause(Flipped(T, {-idx}), {idx, -other})
        /\ SatClause(Flipped(T, {idx}), {idx, -other})
    <3>1. SatFormula(T, Res)
      BY <1>7, <1>10
    <3> QED
      BY <3>1, <1>0, <1>1, SubstitutedRepair DEF Res
  <2>2. \A w \in {idx, -idx} : SatFormula(Flipped(T, {w}), irredundant')
    BY <2>1, <1>7, FlippedType
  <2>3. CASE j = 1
    BY <2>1, <2>2, <2>3, <1>3, <1>10
  <2>4. CASE j = 2
    <3>1. \A k \in j..Len(es) : k = 2
      BY <2>4, <1>3
    <3>2. es[j].witness = {idx} /\ SatFormula(Flipped(T, {idx}), irredundant')
      BY <2>2, <2>4, <1>3
    <3> QED
      BY <2>1, <2>4, <3>1, <3>2, <1>3
  <2> QED
    BY <2>3, <2>4, <1>3
<1> QED
  BY <1>1, <1>3, <1>4, <1>5, <1>7, <1>8, <1>9, <1>10, SimplifyStep

\* A derived clause takes the place of those it subsumes.
LEMMA DeriveStep ==
  ASSUME StackInv,
         NEW c \in (SUBSET UNION irredundant) \cup {{l} : l \in Lits},
         Derive(c)
  PROVE  StackInv'
<1> DEFINE Res == {d \in irredundant : ~(c \subseteq d)} \cup {c}
<1>0. /\ irredundant \in SUBSET SUBSET Lits /\ extension \in Seq(Entries)
      /\ inactive \in SUBSET Vars
      /\ \A d \in irredundant : ~Tautological(d)
  BY DEF StackInv, ReconstructionTypeOK, NoTautology
<1>1. /\ Solving /\ Simplifies /\ Implied(c)
      /\ Cardinality(c) = 1 \/ \E d \in irredundant : c \subseteq d /\ c # d
      /\ extension' = extension /\ witness' = witness /\ inactive' = inactive
      /\ irredundant' = propagate(Res)
  BY DEF Derive
<1>2. c \in SUBSET Lits
  BY <1>0
<1>3. ~Tautological(c)
  <2>1. CASE Cardinality(c) = 1
    <3>1. \E l : c = {l}
      BY <2>1, <1>2, LitsFinite, FS_Subset, FS_Singleton
    <3> QED
      BY <3>1, <1>2, LitFacts DEF Tautological
  <2>2. CASE \E d \in irredundant : c \subseteq d /\ c # d
    BY <2>2, <1>0 DEF Tautological
  <2> QED
    BY <1>1, <2>1, <2>2
<1>4. Res \in SUBSET SUBSET Lits /\ \A d \in Res : ~Tautological(d)
  BY <1>0, <1>2, <1>3
<1>5. \A T \in SUBSET Vars :
        SatFormula(T, Res) <=> SatFormula(T, irredundant) /\ SatClause(T, c)
  BY DEF SatFormula, SatClause
<1> HIDE DEF Res
<1>6. /\ irredundant' \in SUBSET SUBSET Lits
      /\ \A d \in irredundant' : ~Tautological(d)
      /\ \A T \in SUBSET Vars :
           SatFormula(T, irredundant') <=> SatFormula(T, Res)
  BY <1>1, <1>4, PropagateType, PropagateProper, PropagateModels
<1>7. ASSUME NEW T \in SUBSET Vars, SatFormula(T, irredundant),
             \A i \in 1..Len(extension) : SatClause(T, extension[i].clause)
      PROVE  SatFormula(T, irredundant')
  BY <1>0, <1>1, <1>5, <1>6, <1>7, ImpliedHolds
<1> QED
  BY <1>0, <1>1, <1>5, <1>6, <1>7, StrengthenStep

\* A clause that follows from the others goes.
LEMMA SubsumeStep ==
  ASSUME StackInv, NEW c \in irredundant, Subsume(c)
  PROVE  StackInv'
<1>0. /\ irredundant \in SUBSET SUBSET Lits /\ inactive \in SUBSET Vars
      /\ \A d \in irredundant : ~Tautological(d)
  BY DEF StackInv, ReconstructionTypeOK, NoTautology
<1>1. /\ Solving /\ Simplifies
      /\ extension' = extension /\ witness' = witness /\ inactive' = inactive
      /\ irredundant' = irredundant \ {c}
      /\ \A T \in SUBSET Vars :
           SatFormula(T, irredundant \ {c}) => SatClause(T, c)
  BY DEF Subsume
<1>2. \A T \in SUBSET Vars :
        SatFormula(T, irredundant') <=> SatFormula(T, irredundant)
  BY <1>1 DEF SatFormula
<1>3. /\ irredundant' \in SUBSET SUBSET Lits
      /\ \A d \in irredundant' : ~Tautological(d)
      /\ inactive' \in SUBSET Vars
  BY <1>0, <1>1
<1> QED
  BY <1>1, <1>2, <1>3, StrengthenStep

-----------------------------------------------------------------------------
(* The search and extending. *)

\* The search ends with a verdict or without one.
LEMMA SearchEndsStep ==
  ASSUME StackInv, SearchEnds
  PROVE  StackInv'
<1>0. /\ ReconstructionTypeOK /\ phase = "solving" /\ tainted = {}
      /\ extension \in Seq(Entries) /\ Len(extension) \in Nat
  BY DEF StackInv, ReconstructionTypeOK, SearchEnds, LoopsOK
<1>1. /\ original' = original /\ irredundant' = irredundant
      /\ extension' = extension /\ witness' = witness
      /\ tainted' = tainted /\ inactive' = inactive /\ at' = at
      /\ assumptions' \subseteq assumptions /\ vals' \in SUBSET Vars
      /\ \/ /\ phase' = "sat" /\ SatFormula(vals', irredundant)
            /\ SatAll(vals', assumptions')
         \/ phase' \in {"unsat", "input"}
  BY <1>0 DEF SearchEnds, ReconstructionTypeOK
<1>2. ReconstructionTypeOK'
  BY <1>0, <1>1 DEF ReconstructionTypeOK, Phases, Idle
<1>3. LoopsOK' /\ FoundOK'
  BY <1>0, <1>1 DEF LoopsOK, FoundOK
<1>4. NoTautology' /\ Equivalent(original, irredundant, extension)'
      /\ Marked(extension, witness)'
  BY <1>0, <1>1 DEF StackInv, NoTautology
<1>5. PendingEntries = {} /\ PendingEntries' = {}
  BY <1>0, <1>1 DEF PendingEntries, Pending, WitnessTainted
<1>6. Safe(extension, assumptions, PendingEntries)'
  BY <1>1, <1>5 DEF Safe, StackInv
<1>7. Chained'
  <2>1. PICK g : ChainOf(g, original, irredundant, extension, {})
    BY <1>5 DEF StackInv, Chained
  <2> QED
    BY <2>1, <1>1, <1>5 DEF Chained
<1> QED
  BY <1>2, <1>3, <1>4, <1>6, <1>7 DEF StackInv

\* Extending moves one entry down the chain, and keeps the assumptions.
LEMMA ExtendStep ==
  ASSUME StackInv, ExtendCalled \/ ExtendEntry \/ ExtendEnds
  PROVE  StackInv'
<1>0. /\ ReconstructionTypeOK /\ tainted = {} /\ SatAll(vals, assumptions)
      /\ phase \in {"sat", "extending"}
      /\ extension \in Seq(Entries) /\ Len(extension) \in Nat
      /\ vals \in SUBSET Vars /\ at \in Nat
      /\ assumptions \in SUBSET Lits
  BY DEF StackInv, ReconstructionTypeOK, LoopsOK, FoundOK, ExtendCalled,
         ExtendEntry, ExtendEnds
<1>1. /\ original' = original /\ irredundant' = irredundant
      /\ extension' = extension /\ witness' = witness
      /\ tainted' = tainted /\ inactive' = inactive
      /\ assumptions' = assumptions
      /\ phase' \in {"extending", "extended"}
  BY DEF ExtendCalled, ExtendEntry, ExtendEnds
<1>2. NoTautology' /\ Equivalent(original, irredundant, extension)'
      /\ Marked(extension, witness)'
  BY <1>0, <1>1 DEF StackInv, NoTautology
<1>3. PendingEntries = {} /\ PendingEntries' = {}
  BY <1>0, <1>1 DEF PendingEntries, Pending, WitnessTainted
<1>4. Safe(extension, assumptions, PendingEntries)'
  BY <1>1, <1>3 DEF Safe, StackInv
<1>5. PICK g : /\ ChainOf(g, original, irredundant, extension, {})
               /\ phase = "extending" => vals \in g[at]
  BY <1>3 DEF StackInv, Chained
<1>6. CASE ExtendCalled
  <2>1. /\ phase = "sat" /\ phase' = "extending" /\ vals' = vals
        /\ at' = Len(extension) /\ SatFormula(vals, irredundant)
    BY <1>6 DEF ExtendCalled, StackInv, FoundOK
  <2>2. vals' \in g[at']
    BY <2>1, <1>0, <1>5 DEF ChainOf
  <2>3. Chained'
    BY <2>1, <2>2, <1>1, <1>3, <1>5 DEF Chained
  <2>4. ReconstructionTypeOK' /\ LoopsOK' /\ FoundOK'
    BY <2>1, <1>0, <1>1 DEF ReconstructionTypeOK, LoopsOK, FoundOK, Phases
  <2> QED
    BY <1>2, <1>4, <2>3, <2>4 DEF StackInv
<1>7. CASE ExtendEntry
  <2>1. /\ phase = "extending" /\ phase' = "extending" /\ at' = at - 1
        /\ vals' = Repaired(vals, extension[at])
        /\ at \in 1..Len(extension)
    BY <1>0, <1>7 DEF ExtendEntry, NextToExtend, StackInv, LoopsOK
  <2>2. vals' \in g[at']
    BY <2>1, <1>5 DEF ChainOf, Repaired
  <2>3. Chained'
    BY <2>1, <2>2, <1>1, <1>3, <1>5 DEF Chained
  <2>4. vals' \in SUBSET Vars
    BY <2>1, <1>0, FlippedType DEF Repaired
  <2>5. SatAll(vals', assumptions)
    <3>1. extension[at] \in Entries
      BY <2>1, <1>0
    <3>2. extension[at].witness \in SUBSET Lits
      BY <3>1 DEF Entries
    <3>3. \A a \in assumptions : -a \notin extension[at].witness
      BY <2>1, <1>3 DEF StackInv, Safe
    <3>4. SatAll(Flipped(vals, extension[at].witness), assumptions)
      BY <3>2, <3>3, <1>0, FlippedKeeps DEF SatAll
    <3> QED
      BY <3>4, <2>1, <1>0 DEF Repaired
  <2>6. ReconstructionTypeOK' /\ LoopsOK' /\ FoundOK'
    BY <2>1, <2>4, <2>5, <1>0, <1>1
    DEF ReconstructionTypeOK, LoopsOK, FoundOK, Phases
  <2> QED
    BY <1>2, <1>4, <2>3, <2>6 DEF StackInv
<1>8. CASE ExtendEnds
  <2>1. /\ phase = "extending" /\ phase' = "extended" /\ at = 0
        /\ at' = at /\ vals' = vals
    BY <1>8 DEF ExtendEnds
  <2>2. vals' \in g[0]
    BY <2>1, <1>5
  <2>3. Chained'
    BY <2>1, <2>2, <1>1, <1>3, <1>5 DEF Chained
  <2>4. ReconstructionTypeOK' /\ LoopsOK' /\ FoundOK'
    BY <2>1, <1>0, <1>1
    DEF ReconstructionTypeOK, LoopsOK, FoundOK, Phases, Idle
  <2> QED
    BY <1>2, <1>4, <2>3, <2>4 DEF StackInv
<1> QED
  BY <1>6, <1>7, <1>8

-----------------------------------------------------------------------------
(* The theorems. *)

\* Nothing that the invariant speaks of changes when nothing does.
LEMMA StutterStep ==
  ASSUME StackInv, UNCHANGED vars
  PROVE  StackInv'
<1>1. /\ original' = original /\ irredundant' = irredundant
      /\ extension' = extension /\ witness' = witness
      /\ tainted' = tainted /\ inactive' = inactive
      /\ assumptions' = assumptions /\ phase' = phase /\ at' = at
      /\ vals' = vals
  BY DEF vars
<1>2. PendingEntries' = PendingEntries
  BY <1>1 DEF PendingEntries, Pending, WitnessTainted
<1>3. Chained'
  BY <1>1, <1>2 DEF StackInv, Chained
<1>4. ReconstructionTypeOK' /\ LoopsOK' /\ FoundOK' /\ NoTautology'
  BY <1>1 DEF StackInv, ReconstructionTypeOK, LoopsOK, FoundOK, NoTautology
<1>5. /\ Marked(extension, witness)'
      /\ Equivalent(original, irredundant, extension)'
      /\ Safe(extension, assumptions, PendingEntries)'
  BY <1>1, <1>2 DEF StackInv
<1> QED
  BY <1>3, <1>4, <1>5 DEF StackInv

\* Every step keeps the invariant.
LEMMA StackInvStep == StackInv /\ [Next]_vars => StackInv'
<1> SUFFICES ASSUME StackInv, [Next]_vars PROVE StackInv'
  OBVIOUS
<1>1. CASE Inprocess
  <2>1. CASE \E c \in irredundant : Subsume(c) \/ \E l \in c : Block(c, l)
    BY <2>1, SubsumeStep, BlockStep
  <2>2. CASE \E p \in Lits : \E G \in SUBSET (Occs(p) \cup Occs(-p)) :
                Eliminate(p, G)
    BY <2>2, EliminateStep
  <2>3. CASE \E v \in Vars, l \in Lits : Substitute(v, l)
    BY <2>3, SubstituteStep
  <2>4. CASE \E c \in (SUBSET UNION irredundant) \cup {{l} : l \in Lits} :
                Derive(c)
    BY <2>4, DeriveStep
  <2> QED
    BY <1>1, <2>1, <2>2, <2>3, <2>4 DEF Inprocess
<1>2. CASE \E c \in UserClauses : Add(c)
  BY <1>2, AddStep
<1>3. CASE \E l \in UserLits : Assume(l)
  BY <1>3, AssumeStep
<1>4. CASE UNCHANGED vars
  BY <1>4, StutterStep
<1> QED
  BY <1>1, <1>2, <1>3, <1>4, SolveStep, RestoreEntryStep, KeepEntryStep,
     RestoreEndsStep, SearchEndsStep, ExtendStep DEF Next

\* The stack leads from every assignment of the formula to the user's clauses
\* at all times.
LEMMA StackInvHolds == Spec => []StackInv
  BY StackInvInit, StackInvStep, PTL DEF Spec

\* The marks, the stack and the loop positions of restoring and extending
\* stay within their types.
THEOREM ReconstructionTypeCorrect == Spec => []ReconstructionTypeOK
<1>1. StackInv => ReconstructionTypeOK
  BY DEF StackInv
<1> QED
  BY <1>1, StackInvHolds, PTL

\* A finished extension is the first member of the chain.
LEMMA StackInvExtended == StackInv => ExtendedSatisfies
  BY DEF StackInv, Chained, ChainOf, FoundOK, ExtendedSatisfies

\* The clauses of the stack are those of its entries.
LEMMA StackInvNothingLost == StackInv => NothingLost
<1> SUFFICES ASSUME StackInv, NEW T \in SUBSET Vars
             PROVE  SatFormula(T, original) <=>
                      SatFormula(T, irredundant \cup StackClauses)
  BY DEF NothingLost
<1>1. extension \in Seq(Entries)
  BY DEF StackInv, ReconstructionTypeOK
<1>2. DOMAIN extension = 1..Len(extension)
  BY <1>1
<1>3. SatFormula(T, irredundant \cup StackClauses) <=>
        /\ SatFormula(T, irredundant)
        /\ \A i \in 1..Len(extension) : SatClause(T, extension[i].clause)
  BY <1>2 DEF SatFormula, StackClauses
<1> QED
  BY <1>3 DEF StackInv, Equivalent

\* However clauses are added, removed, restored and removed again, what
\* extend () returns satisfies every clause the user added and every
\* assumption of the solve.
THEOREM ExtensionCorrect == Spec => []ExtendedSatisfies
  BY StackInvExtended, StackInvHolds, PTL

\* Preprocessing loses nothing: the formula and the stack together have
\* exactly the models of the user's clauses.
THEOREM RemovalCorrect == Spec => []NothingLost
  BY StackInvNothingLost, StackInvHolds, PTL

\* A formula without models means that the user's clauses have none.
LEMMA NoModels ==
  ASSUME StackInv, NEW A, ~Satisfiable(MaxVar, irredundant, A)
  PROVE  ~Satisfiable(MaxVar, original, A)
  BY DEF StackInv, Equivalent, Satisfiable, Vars

\* What the search finds means that the user's clauses have a model.
LEMMA SomeModel ==
  ASSUME StackInv, phase = "solving",
         NEW T \in SUBSET Vars, SatFormula(T, irredundant),
         SatAll(T, assumptions)
  PROVE  Satisfiable(MaxVar, original, assumptions)
<1>1. /\ PendingEntries = {} /\ extension \in Seq(Entries)
      /\ assumptions \in SUBSET Lits
  BY NonePending DEF StackInv, LoopsOK, ReconstructionTypeOK
<1>2. PICK g : ChainOf(g, original, irredundant, extension, {})
  BY <1>1 DEF StackInv, Chained
<1>3. \A i \in 1..Len(extension) :
        \A a \in assumptions : -a \notin extension[i].witness
  BY <1>1 DEF StackInv, Safe
<1>4. \E M \in SUBSET Vars :
        SatFormula(M, original) /\ SatAll(M, assumptions)
  BY <1>1, <1>2, <1>3, ChainReaches
<1> QED
  BY <1>4 DEF Satisfiable, Vars

\* The instance speaks of the same literals and the same models.
LEMMA SameLogic ==
  /\ Abstract!Lits = LitsOf(MaxVar)
  /\ \A F, A : Abstract!Satisfiable(MaxVar, F, A)
                 <=> Satisfiable(MaxVar, F, A)
<1>1. Abstract!Lits = LitsOf(MaxVar)
  BY DEF Abstract!Lits, Abstract!LitsOf, LitsOf
<1>2. \A T, c : Abstract!SatClause(T, c) <=> SatClause(T, c)
  BY DEF Abstract!SatClause, SatClause, Abstract!SatLit, SatLit
<1>3. \A T, F : Abstract!SatFormula(T, F) <=> SatFormula(T, F)
  BY <1>2 DEF Abstract!SatFormula, SatFormula
<1>4. \A T, A : Abstract!SatAll(T, A) <=> SatAll(T, A)
  BY DEF Abstract!SatAll, SatAll, Abstract!SatLit, SatLit
<1> QED
  BY <1>1, <1>3, <1>4 DEF Abstract!Satisfiable, Satisfiable

\* The steps of the abstract solver a step of the calls can be.
LEMMA CallRefines ==
  ASSUME StackInv,
         (\E c \in UserClauses : Add(c)) \/ (\E l \in UserLits : Assume(l))
           \/ Solve
  PROVE  Abstract!IpasirNext
<1>0. phase \in Idle /\ (Verdict = "INPUT" <=> phase = "input")
  BY DEF Add, Assume, Solve, Verdict, Idle
<1>1. /\ Abstract!FreshAssumed = FreshAssumptions
      /\ Abstract!FreshConstraint = {}
  BY <1>0 DEF Abstract!FreshAssumed, Abstract!FreshConstraint,
              FreshAssumptions
<1>2. ASSUME NEW c \in UserClauses, Add(c) PROVE Abstract!IpasirNext
  <2>1. c \in SUBSET Abstract!Lits
    BY ReconstructionAssumption, SameLogic
  <2>2. Verdict' = "INPUT"
    BY <1>2 DEF Add, Verdict
  <2>3. Abstract!AddClauses({c})
    BY <1>1, <1>2, <2>2 DEF Abstract!AddClauses, Add
  <2> QED
    BY <2>1, <2>3 DEF Abstract!IpasirNext
<1>3. ASSUME NEW l \in UserLits, Assume(l) PROVE Abstract!IpasirNext
  <2>1. l \in Abstract!Lits
    BY ReconstructionAssumption, SameLogic
  <2>2. Verdict' = "INPUT"
    BY <1>3 DEF Assume, Verdict
  <2>3. Abstract!AssumeLits({l})
    BY <1>1, <1>3, <2>2 DEF Abstract!AssumeLits, Assume
  <2> QED
    BY <2>1, <2>3 DEF Abstract!IpasirNext
<1>4. ASSUME Solve PROVE Abstract!IpasirNext
  <2>1. assumptions' = FreshAssumptions /\ original' = original
    BY <1>4 DEF Solve
  <2>2. CASE phase' = "unsat"
    <3>1. {} \in irredundant
      BY <1>4, <2>2 DEF Solve
    <3>2. ~Satisfiable(MaxVar, irredundant, FreshAssumptions)
      BY <3>1 DEF Satisfiable, SatFormula, SatClause
    <3>3. ~Abstract!Holds
      BY <3>2, <1>1, NoModels, SameLogic DEF Abstract!Holds
    <3>4. Verdict' = "UNSAT"
      BY <2>2 DEF Verdict
    <3>5. Abstract!Solve(20)
      BY <1>1, <2>1, <3>3, <3>4 DEF Abstract!Solve
    <3> QED
      BY <3>5 DEF Abstract!IpasirNext
  <2>3. CASE phase' \in {"solving", "restoring"}
    <3>1. Verdict' = "INPUT"
      BY <2>3 DEF Verdict
    <3>2. Abstract!Forget
      BY <1>1, <2>1, <3>1 DEF Abstract!Forget
    <3> QED
      BY <3>2 DEF Abstract!IpasirNext
  <2> QED
    BY <1>4, <2>2, <2>3 DEF Solve
<1> QED
  BY <1>2, <1>3, <1>4

\* The verdicts, and the steps the abstract solver does not see.
LEMMA VerdictRefines ==
  ASSUME StackInv, RestoreEnds \/ SearchEnds
  PROVE  Abstract!IpasirNext \/ UNCHANGED Abstract!ipasirVars
<1>0. /\ phase \in {"restoring", "solving"} /\ original' = original
      /\ Verdict = "INPUT"
  BY DEF RestoreEnds, SearchEnds, Verdict
<1>1. /\ Abstract!FreshAssumed = assumptions
      /\ Abstract!FreshConstraint = {}
  BY <1>0 DEF Abstract!FreshAssumed, Abstract!FreshConstraint
<1>2. ASSUME phase' = "unsat", assumptions' = assumptions,
             ~Satisfiable(MaxVar, irredundant, assumptions)
      PROVE  Abstract!IpasirNext
  <2>1. ~Abstract!Holds
    BY <1>1, <1>2, NoModels, SameLogic DEF Abstract!Holds
  <2>2. Verdict' = "UNSAT"
    BY <1>2 DEF Verdict
  <2>3. Abstract!Solve(20)
    BY <1>0, <1>1, <1>2, <2>1, <2>2 DEF Abstract!Solve
  <2> QED
    BY <2>3 DEF Abstract!IpasirNext
<1>3. CASE RestoreEnds
  <2>1. assumptions' = assumptions
    BY <1>3 DEF RestoreEnds
  <2>2. CASE {} \in irredundant
    <3>1. ~Satisfiable(MaxVar, irredundant, assumptions)
      BY <2>2 DEF Satisfiable, SatFormula, SatClause
    <3> QED
      BY <1>2, <1>3, <2>1, <2>2, <3>1 DEF RestoreEnds
  <2>3. CASE {} \notin irredundant
    <3>1. Verdict' = "INPUT"
      BY <1>3, <2>3 DEF RestoreEnds, Verdict
    <3> QED
      BY <1>0, <2>1, <3>1 DEF Abstract!ipasirVars
  <2> QED
    BY <2>2, <2>3
<1>4. CASE SearchEnds
  <2>1. CASE phase' = "sat"
    <3>1. PICK T \in SUBSET Vars :
            SatFormula(T, irredundant) /\ SatAll(T, assumptions)
      BY <1>4, <2>1 DEF SearchEnds
    <3>2. phase = "solving" /\ assumptions' = assumptions
      BY <1>4, <2>1 DEF SearchEnds
    <3>3. Abstract!Holds
      BY <3>1, <3>2, <1>1, SomeModel, SameLogic DEF Abstract!Holds
    <3>4. Verdict' = "SAT"
      BY <2>1 DEF Verdict
    <3>5. Abstract!Solve(10)
      BY <1>0, <1>1, <3>2, <3>3, <3>4 DEF Abstract!Solve
    <3> QED
      BY <3>5 DEF Abstract!IpasirNext
  <2>2. CASE phase' = "unsat"
    BY <1>2, <1>4, <2>2 DEF SearchEnds
  <2>3. CASE phase' = "input"
    <3>1. Verdict' = "INPUT" /\ assumptions' = {}
      BY <1>4, <2>3 DEF SearchEnds, Verdict
    <3>2. Abstract!Solve(0)
      BY <1>0, <3>1 DEF Abstract!Solve
    <3> QED
      BY <3>2 DEF Abstract!IpasirNext
  <2> QED
    BY <1>4, <2>1, <2>2, <2>3 DEF SearchEnds
<1> QED
  BY <1>3, <1>4

\* The other steps do not show at the interface.
LEMMA InnerStutters ==
  ASSUME RestoreEntry \/ KeepEntry \/ Inprocess \/ ExtendCalled
           \/ ExtendEntry \/ ExtendEnds \/ UNCHANGED vars
  PROVE  UNCHANGED Abstract!ipasirVars
<1>1. original' = original /\ assumptions' = assumptions
  BY DEF RestoreEntry, KeepEntry, Inprocess, ExtendCalled, ExtendEntry,
         ExtendEnds, vars, Subsume, Block, Eliminate, Substitute, Derive,
         Simplifies
<1>2. Verdict' = Verdict
  BY DEF RestoreEntry, KeepEntry, Inprocess, ExtendCalled, ExtendEntry,
         ExtendEnds, vars, Subsume, Block, Eliminate, Substitute, Derive,
         Simplifies, Verdict
<1> QED
  BY <1>1, <1>2 DEF Abstract!ipasirVars

\* Preprocessing, restoring and extending implement the IPASIR promise:
\* whatever the solver removes and restores between the calls, its verdicts
\* are right for the clauses the user added and the assumptions of the solve.
THEOREM ReconstructionRefinesIpasir == Spec => KeepsPromise
<1>1. Init => Abstract!IpasirInit
  BY DEF Init, Abstract!IpasirInit, Verdict
<1>2. StackInv /\ [Next]_vars => [Abstract!IpasirNext]_(Abstract!ipasirVars)
  BY CallRefines, VerdictRefines, InnerStutters DEF Next
<1> QED
  BY <1>1, <1>2, StackInvHolds, PTL
  DEF Spec, KeepsPromise, Abstract!IpasirSpec

-----------------------------------------------------------------------------
(* Inactive variables. *)

\* Clauses that are added or restored reactivate their variables.
LEMMA UsedActive ==
  ASSUME StackInv, ClausesAreActive, NEW c \in SUBSET Lits,
         irredundant' = AddOriginal(irredundant, c),
         inactive' = Reactivated(c)
  PROVE  ClausesAreActive'
<1>0. irredundant \in SUBSET SUBSET Lits
  BY DEF StackInv, ReconstructionTypeOK
<1> SUFFICES ASSUME NEW d \in irredundant', NEW l \in d
             PROVE  VarOf(l) \notin inactive'
  BY DEF ClausesAreActive, VarsOf
<1>1. PICK e \in irredundant \cup {c} : l \in e
  <2>1. CASE Tautological(c)
    BY <2>1 DEF AddOriginal
  <2>2. CASE ~Tautological(c)
    <3>1. irredundant \cup {c} \in SUBSET SUBSET Lits
      BY <1>0
    <3>2. d \in propagate(irredundant \cup {c})
      BY <2>2 DEF AddOriginal
    <3> QED
      BY <3>1, <3>2, PropagateLits
  <2> QED
    BY <2>1, <2>2
<1>2. CASE e \in irredundant
  BY <1>1, <1>2 DEF ClausesAreActive, VarsOf, Reactivated
<1>3. CASE e = c
  BY <1>1, <1>3 DEF VarsOf, Reactivated
<1> QED
  BY <1>1, <1>2, <1>3

\* What is propagated has only variables that are active after the step.
LEMMA DerivedActive ==
  ASSUME NEW Res \in SUBSET SUBSET Lits, irredundant' = propagate(Res),
         \A d \in Res : \A l \in d : VarOf(l) \notin inactive'
  PROVE  ClausesAreActive'
<1> SUFFICES ASSUME NEW d \in irredundant', NEW l \in d
             PROVE  VarOf(l) \notin inactive'
  BY DEF ClausesAreActive, VarsOf
<1>1. PICK e \in Res : l \in e
  BY PropagateLits
<1> QED
  BY <1>1

\* Every step keeps inactive variables out of the formula.
LEMMA ActiveStep ==
  ASSUME StackInv, ClausesAreActive, [Next]_vars
  PROVE  ClausesAreActive'
<1>0. /\ irredundant \in SUBSET SUBSET Lits /\ extension \in Seq(Entries)
      /\ \A c \in irredundant : ~Tautological(c)
      /\ \A c \in irredundant : \A l \in c : VarOf(l) \notin inactive
  BY DEF StackInv, ReconstructionTypeOK, NoTautology, ClausesAreActive, VarsOf
<1>1. ASSUME irredundant' \subseteq irredundant, inactive' \subseteq inactive
      PROVE  ClausesAreActive'
  BY <1>1 DEF ClausesAreActive
<1>2. ASSUME NEW c \in UserClauses, Add(c) PROVE ClausesAreActive'
  <2>1. c \in SUBSET Lits
    BY ReconstructionAssumption DEF Lits
  <2> QED
    BY <1>2, <2>1, UsedActive DEF Add, internalize
<1>3. ASSUME RestoreEntry PROVE ClausesAreActive'
  <2>1. at \in 1..Len(extension)
    BY <1>3 DEF StackInv, ReconstructionTypeOK, LoopsOK, RestoreEntry
  <2>2. extension[at] \in Entries
    BY <2>1, <1>0
  <2>3. extension[at].clause \in SUBSET Lits
    BY <2>2 DEF Entries
  <2> QED
    BY <1>3, <2>3, UsedActive DEF RestoreEntry, internalize
<1>4. ASSUME NEW p \in Lits, NEW G, Eliminate(p, G) PROVE ClausesAreActive'
  <2> DEFINE Res == Rest(p) \cup Resolvents(G, p)
  <2>1. /\ Res \in SUBSET SUBSET Lits
        /\ \A d \in Res : p \notin d /\ -p \notin d
    BY <1>0, ResolventsType
  <2>2. /\ irredundant' = propagate(Res)
        /\ inactive' = inactive \cup {VarOf(p)}
    BY <1>4 DEF Eliminate, Rest
  <2>3. \A d \in Res : \A l \in d : \E c \in irredundant : l \in c
    BY DEF Rest, Resolvents, Resolvent, Occs
  <2> HIDE DEF Res
  <2>4. ASSUME NEW d \in Res, NEW l \in d PROVE VarOf(l) \notin inactive'
    <3>1. l # p /\ l # -p /\ l \in Lits
      BY <2>1
    <3>2. VarOf(l) # VarOf(p)
      BY <3>1, LitFacts DEF VarOf
    <3> QED
      BY <3>2, <2>2, <2>3, <1>0
  <2> QED
    BY <2>1, <2>2, <2>4, DerivedActive
<1>5. ASSUME NEW idx \in Vars, NEW other \in Lits, Substitute(idx, other)
      PROVE  ClausesAreActive'
  <2> DEFINE Res == Substituted(irredundant, idx, other)
  <2>1. /\ irredundant' = propagate(Res) /\ VarOf(other) < idx
        /\ VarOf(other) \notin inactive
        /\ inactive' \subseteq inactive \cup {idx}
    BY <1>5 DEF Substitute, Active
  <2>2. /\ Res \in SUBSET SUBSET Lits
        /\ \A d \in Res : idx \notin d /\ -idx \notin d
    BY <2>1, <1>0, SubstitutedType
  <2>3. \A d \in Res : \A l \in d :
          \/ l = other \/ l = -other
          \/ \E c \in irredundant : l \in c
    BY DEF Substituted, Replaced
  <2> HIDE DEF Res
  <2>4. ASSUME NEW d \in Res, NEW l \in d PROVE VarOf(l) \notin inactive'
    <3>1. l # idx /\ l # -idx /\ l \in Lits
      BY <2>2
    <3>2. VarOf(l) # idx
      BY <3>1, LitFacts DEF VarOf
    <3>3. VarOf(-other) = VarOf(other)
      BY LitFacts DEF VarOf
    <3> QED
      BY <3>2, <3>3, <2>1, <2>3, <1>0
  <2> QED
    BY <2>1, <2>2, <2>4, DerivedActive
<1>6. ASSUME NEW c \in (SUBSET UNION irredundant) \cup {{l} : l \in Lits},
             Derive(c)
      PROVE  ClausesAreActive'
  <2> DEFINE Res == {d \in irredundant : ~(c \subseteq d)} \cup {c}
  <2>1. c \in SUBSET Lits
    BY <1>0
  <2>2. Res \in SUBSET SUBSET Lits
    BY <2>1, <1>0
  <2>3. /\ irredundant' = propagate(Res) /\ inactive' = inactive
        /\ \A l \in c : VarOf(l) \notin inactive
    BY <1>6 DEF Derive, Active
  <2>4. \A d \in Res : \A l \in d : VarOf(l) \notin inactive'
    BY <2>3, <1>0
  <2> HIDE DEF Res
  <2> QED
    BY <2>2, <2>3, <2>4, DerivedActive
<1>7. ASSUME NEW c \in irredundant,
             Subsume(c) \/ \E l \in c : Block(c, l)
      PROVE  ClausesAreActive'
  <2>1. irredundant' \subseteq irredundant /\ inactive' = inactive
    BY <1>7 DEF Subsume, Block
  <2> QED
    BY <1>1, <2>1
<1>8. ASSUME NEW l \in UserLits, Assume(l) PROVE ClausesAreActive'
  <2>1. irredundant' = irredundant /\ inactive' \subseteq inactive
    BY <1>8 DEF Assume, internalize, Reactivated
  <2> QED
    BY <1>1, <2>1
<1>9. ASSUME Solve \/ KeepEntry \/ RestoreEnds \/ SearchEnds \/ ExtendCalled
               \/ ExtendEntry \/ ExtendEnds \/ UNCHANGED vars
      PROVE  ClausesAreActive'
  <2>1. irredundant' = irredundant /\ inactive' = inactive
    BY <1>9 DEF Solve, KeepEntry, RestoreEnds, SearchEnds, ExtendCalled,
                ExtendEntry, ExtendEnds, vars
  <2> QED
    BY <1>1, <2>1
<1> QED
  BY <1>2, <1>3, <1>4, <1>5, <1>6, <1>7, <1>8, <1>9 DEF Next, Inprocess

\* No irredundant clause ever has an eliminated, substituted or pure
\* variable, also after clauses with such variables were added or restored.
THEOREM InactiveCorrect == Spec => []ClausesAreActive
<1>1. Init => ClausesAreActive
  BY DEF Init, ClausesAreActive
<1>2. StackInv /\ ClausesAreActive /\ [Next]_vars => ClausesAreActive'
  BY ActiveStep
<1> QED
  BY <1>1, <1>2, StackInvHolds, PTL DEF Spec

-----------------------------------------------------------------------------
(* Every model can be repaired. *)

\* The recursive function of Repairable exists.
LEMMA RepairableUnfolds ==
  ASSUME Len(extension) \in Nat
  PROVE  \E rec : /\ rec = [i \in 0..Len(extension) |->
                      IF i = 0 THEN {T \in SUBSET Vars : SatFormula(T, original)}
                      ELSE {T \in SUBSET Vars :
                              IF SatClause(T, extension[i].clause) THEN T \in rec[i - 1]
                              ELSE \/ Pending(i)
                                   \/ Flipped(T, extension[i].witness) \in rec[i - 1]}]
                  /\ Repairable = rec[Len(extension)]
<1> DEFINE n == Len(extension)
           D == SUBSET SUBSET Vars
           a == {T \in SUBSET Vars : SatFormula(T, original)}
           Next1(S, i) == {T \in SUBSET Vars :
                            IF SatClause(T, extension[i].clause) THEN T \in S
                            ELSE \/ Pending(i)
                                 \/ Flipped(T, extension[i].witness) \in S}
           h == [p \in D \X (1..n) |-> Next1(p[1], p[2])]
           Def(f) == f = [i \in 0..n |-> IF i = 0 THEN a ELSE Next1(f[i - 1], i)]
<1>1. (\A S \in D, i \in 1..n : h[<<S, i>>] \in D) /\ a \in D /\ n \in Nat
  OBVIOUS
<1>2. \A S \in D, i \in 1..n : h[<<S, i>>] = Next1(S, i)
  OBVIOUS
<1> HIDE DEF h, a, D, Next1
<1>3. PICK f \in [0..n -> D] :
        Iterates(f, n, a, h)
  <2> HIDE DEF n
  <2> QED
    BY <1>1, IterationExists
<1>4. \A i \in 0..n : f[i] = IF i = 0 THEN a ELSE Next1(f[i - 1], i)
  <2> SUFFICES ASSUME NEW i \in 0..n, i # 0 PROVE f[i] = Next1(f[i - 1], i)
    BY <1>3 DEF Iterates
  <2>1. i \in 1..n /\ i - 1 \in 0..n
    BY <1>1
  <2> QED
    BY <2>1, <1>2, <1>3 DEF Iterates
<1>5. Def(f)
  BY <1>3, <1>4
<1> DEFINE rec[i \in 0..n] == IF i = 0 THEN a ELSE Next1(rec[i - 1], i)
<1>6. Def(rec)
  <2>1. rec = CHOOSE g : Def(g)
    OBVIOUS
  <2> HIDE DEF rec, Def
  <2> QED
    BY <1>5, <2>1
<1>7. Repairable = rec[n]
  BY DEF Repairable, a, Next1
<1> HIDE DEF rec
<1> QED
  BY <1>6, <1>7 DEF a, Next1

\* Chained, which only says that there is some chain, gives the chain of the
\* recursive definition.
LEMMA ChainRepairs == StackInv => EveryModelRepairable
<1> SUFFICES ASSUME StackInv PROVE EveryModelRepairable
  OBVIOUS
<1> DEFINE n == Len(extension)
<1>0. n \in Nat /\ extension \in Seq(Entries)
  BY DEF StackInv, ReconstructionTypeOK
<1>1. PICK g : ChainOf(g, original, irredundant, extension, PendingEntries)
  BY DEF StackInv, Chained
<1>2. PICK rec : /\ rec = [i \in 0..n |->
                      IF i = 0 THEN {T \in SUBSET Vars : SatFormula(T, original)}
                      ELSE {T \in SUBSET Vars :
                              IF SatClause(T, extension[i].clause) THEN T \in rec[i - 1]
                              ELSE \/ Pending(i)
                                   \/ Flipped(T, extension[i].witness) \in rec[i - 1]}]
                 /\ Repairable = rec[n]
  BY <1>0, RepairableUnfolds
<1> DEFINE S == {i \in Nat : i <= n => g[i] \subseteq rec[i]}
<1>3. 0 \in S
  <2>1. 0 \in 0..n /\ rec[0] = {T \in SUBSET Vars : SatFormula(T, original)}
    BY <1>0, <1>2
  <2> QED
    BY <2>1, <1>1 DEF ChainOf
<1>4. ASSUME NEW i \in Nat, i \in S PROVE i + 1 \in S
  <2> SUFFICES ASSUME i + 1 <= n, NEW T \in g[i + 1] PROVE T \in rec[i + 1]
    OBVIOUS
  <2>1. /\ i + 1 \in 1..n /\ i + 1 \in 0..n /\ (i + 1) - 1 = i
        /\ g[i] \subseteq rec[i]
    BY <1>0, <1>4
  <2>2. rec[i + 1] = {X \in SUBSET Vars :
                      IF SatClause(X, extension[i + 1].clause) THEN X \in rec[i]
                      ELSE \/ Pending(i + 1)
                           \/ Flipped(X, extension[i + 1].witness) \in rec[i]}
    BY <1>2, <2>1
  <2>3. T \in SUBSET Vars
    BY <1>1, <2>1 DEF ChainOf
  <2>4. SatClause(T, extension[i + 1].clause) => T \in g[i]
    BY <1>1, <2>1 DEF ChainOf
  <2>5. ~SatClause(T, extension[i + 1].clause) =>
          Pending(i + 1) \/ Flipped(T, extension[i + 1].witness) \in g[i]
    <3>1. ~Pending(i + 1) => i + 1 \notin PendingEntries
      BY DEF PendingEntries
    <3> QED
      BY <3>1, <1>1, <2>1 DEF ChainOf
  <2> QED
    BY <2>1, <2>2, <2>3, <2>4, <2>5
<1>5. \A i \in Nat : i \in S
  <2> HIDE DEF S
  <2> QED
    BY <1>3, <1>4, NatSetInduction
<1>6. g[n] \subseteq rec[n]
  BY <1>0, <1>5
<1> QED
  BY <1>1, <1>2, <1>6 DEF EveryModelRepairable, ChainOf

\* Whatever is added, removed and restored, every model of the formula can be
\* repaired to one of the user's clauses, also while clauses are restored.
THEOREM ModelsStayRepairable == Spec => []EveryModelRepairable
  BY ChainRepairs, StackInvHolds, PTL

-----------------------------------------------------------------------------
(* A clause that has grown. *)

\* The clause before entry j was pushed; after all entries it is C.
Grown(X, C, j) == IF j <= Len(X) THEN X[j].clause ELSE C

\* The entries X lead from the clause C back to c: each clause is a part of
\* the next one, and where the next one holds and it does not, its witness,
\* which is not frozen, repairs it and keeps the formula F.
Grows(F, X, C, c) ==
  /\ X \in Seq(Entries) /\ C \in SUBSET Lits
  /\ Grown(X, C, 1) = c
  /\ \A j \in 1..(Len(X) + 1) : \A i \in 1..j : Grown(X, C, i) \subseteq Grown(X, C, j)
  /\ \A j \in 1..Len(X) :
       \E l \in X[j].clause : X[j].witness = {l} /\ ~Frozen(VarOf(l))
  /\ \A j \in 1..Len(X) : \A T \in SUBSET Vars :
       /\ SatFormula(T, F)
       /\ SatClause(T, Grown(X, C, j + 1)) /\ ~SatClause(T, X[j].clause)
       => SatFormula(Flipped(T, X[j].witness), F)

\* One more entry.
LEMMA GrowsMore ==
  ASSUME NEW F, NEW X, NEW C, NEW c, Grows(F, X, C, c),
         NEW D \in SUBSET Lits, C \subseteq D,
         NEW lit \in C, ~Frozen(VarOf(lit)),
         \A T \in SUBSET Vars :
           SatFormula(T, F) /\ SatClause(T, D) /\ ~SatClause(T, C)
             => SatFormula(Flipped(T, {lit}), F)
  PROVE  Grows(F, Append(X, Entry({lit}, C)), D, c)
<1> DEFINE e == Entry({lit}, C)
           Y == Append(X, e)
           n == Len(X)
<1>0. /\ X \in Seq(Entries) /\ n \in Nat /\ C \in SUBSET Lits /\ lit \in Lits
  BY DEF Grows
<1>1. e \in Entries /\ e.witness = {lit} /\ e.clause = C
  BY <1>0 DEF Entry, Entries
<1> HIDE DEF e
<1>2. /\ Y \in Seq(Entries) /\ Len(Y) = n + 1 /\ Y[n + 1] = e
      /\ \A i \in 1..n : Y[i] = X[i]
  BY <1>0, <1>1, AppendProperties
<1> HIDE DEF Y
<1>3. /\ \A j \in 1..n : Y[j].clause = X[j].clause /\ Y[j].witness = X[j].witness
      /\ Y[n + 1].clause = C /\ Y[n + 1].witness = {lit}
  BY <1>1, <1>2
<1>4. /\ \A j \in 1..(n + 1) : Grown(Y, D, j) = Grown(X, C, j)
      /\ Grown(Y, D, n + 2) = D /\ Grown(X, C, n + 1) = C
  <2>1. ASSUME NEW j \in 1..(n + 1) PROVE Grown(Y, D, j) = Grown(X, C, j)
    <3>1. CASE j <= n
      BY <3>1, <1>0, <1>2, <1>3 DEF Grown
    <3>2. CASE ~(j <= n)
      <4>1. j = n + 1
        BY <3>2, <1>0
      <4> QED
        BY <3>2, <4>1, <1>0, <1>2, <1>3 DEF Grown
    <3> QED
      BY <3>1, <3>2
  <2> QED
    BY <2>1, <1>0, <1>2 DEF Grown
<1>5. Grown(Y, D, 1) = c
  BY <1>0, <1>4 DEF Grows
<1>6. ASSUME NEW j \in 1..(Len(Y) + 1), NEW i \in 1..j
      PROVE  Grown(Y, D, i) \subseteq Grown(Y, D, j)
  <2>0. \A m \in 1..(n + 1), k \in 1..(n + 1) :
          k <= m => Grown(X, C, k) \subseteq Grown(X, C, m)
    BY <1>0 DEF Grows
  <2>1. CASE j <= n + 1
    BY <2>0, <2>1, <1>0, <1>2, <1>4
  <2>2. CASE j = n + 2 /\ i <= n + 1
    <3>1. i \in 1..(n + 1) /\ n + 1 \in 1..(n + 1)
      BY <2>2, <1>0
    <3> QED
      BY <2>0, <2>2, <3>1, <1>4
  <2>3. CASE j = n + 2 /\ i = n + 2
    BY <2>3
  <2> QED
    BY <2>1, <2>2, <2>3, <1>0, <1>2
<1>7. ASSUME NEW j \in 1..Len(Y)
      PROVE  /\ \E l \in Y[j].clause : Y[j].witness = {l} /\ ~Frozen(VarOf(l))
             /\ \A T \in SUBSET Vars :
                  /\ SatFormula(T, F)
                  /\ SatClause(T, Grown(Y, D, j + 1)) /\ ~SatClause(T, Y[j].clause)
                  => SatFormula(Flipped(T, Y[j].witness), F)
  <2>1. CASE j \in 1..n
    <3>1. j + 1 \in 1..(n + 1)
      BY <2>1, <1>0
    <3> QED
      BY <2>1, <3>1, <1>3, <1>4 DEF Grows
  <2>2. CASE j = n + 1
    <3>1. Grown(Y, D, j + 1) = D
      BY <2>2, <1>0, <1>4
    <3> QED
      BY <2>2, <3>1, <1>3
  <2> QED
    BY <2>1, <2>2, <1>0, <1>2
<1>8. Grows(F, Y, D, c)
  BY <1>2, <1>5, <1>6, <1>7 DEF Grows
<1> QED
  BY <1>8 DEF Y, e

\* A clause whose grown form always holds goes to the stack with its entries.
LEMMA GrownRemoval ==
  ASSUME StackInv, Solving, Simplifies, NEW c \in irredundant, NEW es, NEW C,
         Grows(irredundant \ {c}, es, C, c),
         \A T \in SUBSET Vars :
           SatFormula(T, irredundant \ {c}) => SatClause(T, C),
         Push(es), irredundant' = irredundant \ {c}, inactive' = inactive
  PROVE  StackInv'
<1>0. /\ irredundant \in SUBSET SUBSET Lits /\ c \in SUBSET Lits
      /\ assumptions \in SUBSET Lits /\ inactive \in SUBSET Vars
      /\ witness \in SUBSET Lits
      /\ es \in Seq(Entries) /\ Len(es) \in Nat
  BY DEF StackInv, ReconstructionTypeOK, Grows
<1>1. extension' = extension \o es /\ witness' = witness \cup Witnesses(es)
  BY DEF Push
<1>2. /\ Marked(es, witness') /\ witness \subseteq witness'
      /\ witness' \in SUBSET Lits
  BY <1>0, <1>1, WitnessesMarked DEF Marked
<1>3. /\ irredundant' \in SUBSET SUBSET Lits
      /\ \A d \in irredundant' : ~Tautological(d)
  BY <1>0 DEF StackInv, NoTautology
<1>4. ASSUME NEW j \in 1..Len(es) PROVE es[j].clause \in SUBSET Lits
  <2>1. es[j] \in Entries
    BY <1>0
  <2> QED
    BY <2>1 DEF Entries
<1>5. Safe(es, assumptions, {})
  <2> SUFFICES ASSUME NEW j \in 1..Len(es), NEW a \in assumptions,
                      -a \in es[j].witness
               PROVE  FALSE
    BY DEF Safe
  <2>1. PICK l \in es[j].clause : es[j].witness = {l} /\ ~Frozen(VarOf(l))
    BY DEF Grows
  <2>2. VarOf(a) = VarOf(l)
    BY <2>1, <1>0, <1>4, LitFacts DEF VarOf
  <2> QED
    BY <2>1, <2>2 DEF Frozen, VarsOf
<1>6. \A T \in SUBSET Vars, j \in 1..Len(es) :
        /\ SatFormula(T, irredundant')
        /\ \A k \in (j + 1)..Len(es) : SatClause(T, es[k].clause)
        /\ ~SatClause(T, es[j].clause)
        => /\ SatFormula(Flipped(T, es[j].witness), irredundant')
           /\ \A k \in j..Len(es) :
                SatClause(Flipped(T, es[j].witness), es[k].clause)
  <2> SUFFICES ASSUME NEW T \in SUBSET Vars, NEW j \in 1..Len(es),
                      SatFormula(T, irredundant'),
                      \A k \in (j + 1)..Len(es) : SatClause(T, es[k].clause),
                      ~SatClause(T, es[j].clause)
               PROVE  /\ SatFormula(Flipped(T, es[j].witness), irredundant')
                      /\ \A k \in j..Len(es) :
                           SatClause(Flipped(T, es[j].witness), es[k].clause)
    OBVIOUS
  <2>1. SatClause(T, Grown(es, C, j + 1))
    <3>1. CASE j + 1 <= Len(es)
      <4>1. j + 1 \in (j + 1)..Len(es)
        BY <3>1, <1>0
      <4> QED
        BY <3>1, <4>1 DEF Grown
    <3>2. CASE ~(j + 1 <= Len(es))
      BY <3>2 DEF Grown
    <3> QED
      BY <3>1, <3>2
  <2>2. SatFormula(Flipped(T, es[j].witness), irredundant')
    BY <2>1 DEF Grows
  <2>3. PICK l \in es[j].clause : es[j].witness = {l}
    BY DEF Grows
  <2>4. SatLit(Flipped(T, es[j].witness), l)
    BY <2>3, <1>4, FlippedWitness
  <2>5. ASSUME NEW k \in j..Len(es) PROVE l \in es[k].clause
    <3>1. /\ k \in 1..(Len(es) + 1) /\ j \in 1..k
          /\ k <= Len(es) /\ j <= Len(es)
      BY <1>0
    <3>2. Grown(es, C, j) \subseteq Grown(es, C, k)
      BY <3>1 DEF Grows
    <3> QED
      BY <3>1, <3>2, <2>3 DEF Grown
  <2> QED
    BY <2>2, <2>4, <2>5 DEF SatClause
<1>7. ASSUME NEW T \in SUBSET Vars, SatFormula(T, irredundant'),
             \A j \in 1..Len(es) : SatClause(T, es[j].clause)
      PROVE  SatFormula(T, irredundant)
  <2>1. SatClause(T, Grown(es, C, 1))
    <3>1. CASE 1 <= Len(es)
      <4>1. 1 \in 1..Len(es) /\ Grown(es, C, 1) = es[1].clause
        BY <3>1, <1>0 DEF Grown
      <4> QED
        BY <4>1, <1>7
    <3>2. CASE ~(1 <= Len(es))
      BY <3>2, <1>7 DEF Grown
    <3> QED
      BY <3>1, <3>2
  <2>2. SatClause(T, c)
    BY <2>1 DEF Grows
  <2> QED
    BY <1>7, <2>2 DEF SatFormula
<1>8. ASSUME NEW T \in SUBSET Vars, SatFormula(T, irredundant)
      PROVE  /\ SatFormula(T, irredundant')
             /\ \A j \in 1..Len(es) : SatClause(T, es[j].clause)
  <2>1. SatClause(T, c) /\ SatFormula(T, irredundant')
    BY <1>8 DEF SatFormula
  <2>2. ASSUME NEW j \in 1..Len(es) PROVE c \subseteq es[j].clause
    <3>1. j \in 1..(Len(es) + 1) /\ 1 \in 1..j /\ j <= Len(es)
      BY <1>0
    <3>2. Grown(es, C, 1) \subseteq Grown(es, C, j) /\ Grown(es, C, 1) = c
      BY <3>1 DEF Grows
    <3> QED
      BY <3>1, <3>2 DEF Grown
  <2> QED
    BY <2>1, <2>2 DEF SatClause
<1> QED
  BY <1>0, <1>1, <1>2, <1>3, <1>5, <1>6, <1>7, <1>8, SimplifyStep

-----------------------------------------------------------------------------
(* Covered clauses. *)

\* Where the other clauses hold and the covered clause does not, the extended
\* clause does not either; the entries lead back to the clause itself.
CoverInv ==
  cover # NotCovering =>
    /\ Solving
    /\ cover.clause \in irredundant
    /\ cover.added \in SUBSET Lits
    /\ Grows(Others, cover.extend, cover.covered, cover.clause)
    /\ \A T \in SUBSET Vars :
         SatFormula(T, Others) /\ ~SatClause(T, cover.covered)
           => ~SatClause(T, cover.added)

\* Asymmetric literal addition keeps the clause false where it is.
LEMMA AsymmetricFacts ==
  ASSUME irredundant \in SUBSET SUBSET Lits, cover.added \in SUBSET Lits
  PROVE  /\ Asymmetric \in SUBSET Lits
         /\ \A T \in SUBSET Vars :
              SatFormula(T, Others) /\ ~SatClause(T, cover.added)
                => ~SatClause(T, Asymmetric)
<1> DEFINE F == Others \cup {{-l} : l \in cover.added}
<1>1. F \in SUBSET SUBSET Lits
  BY LitFacts DEF Others
<1>2. Asymmetric = Negated(Units(F)) /\ Units(F) \in SUBSET Lits
  BY DEF Asymmetric, Units
<1>3. ASSUME NEW T \in SUBSET Vars, SatFormula(T, Others),
             ~SatClause(T, cover.added)
      PROVE  ~SatClause(T, Asymmetric)
  <2>1. ASSUME NEW l \in cover.added PROVE SatClause(T, {-l})
    <3>1. SatLit(T, -l)
      BY <1>3, SatNegated DEF SatClause
    <3> QED
      BY <3>1 DEF SatClause
  <2>2. SatFormula(T, F)
    BY <1>3, <2>1 DEF SatFormula
  <2> HIDE DEF F
  <2>3. \A l \in Units(F) : SatLit(T, l)
    BY <1>1, <2>2, UnitsHold
  <2>4. \A k \in Asymmetric : ~SatLit(T, k)
    BY <1>2, <2>3, SatNegated DEF Negated
  <2> QED
    BY <2>4 DEF SatClause
<1>4. Negated(Units(F)) \in SUBSET Lits
  BY <1>2, NegatedType
<1> QED
  BY <1>2, <1>3, <1>4

\* Where the covered clause does not hold, its literal lit may be made true:
\* another clause with -lit keeps a true literal, since its negation is in
\* the extended clause or the covered literals are among those of the clause.
LEMMA CoveredRepair ==
  ASSUME irredundant \in SUBSET SUBSET Lits,
         \A d \in irredundant : ~Tautological(d),
         NEW added \in SUBSET Lits, NEW lit \in Lits, NEW T \in SUBSET Vars,
         SatFormula(T, Others), ~SatLit(T, lit), ~SatClause(T, added),
         Candidates(lit, added) = {} \/ SatClause(T, Intersection(lit, added))
  PROVE  SatFormula(Flipped(T, {lit}), Others)
<1> SUFFICES ASSUME NEW d \in Others
             PROVE  SatClause(Flipped(T, {lit}), d)
  BY DEF SatFormula
<1>0. d \in irredundant /\ d \in SUBSET Lits /\ SatClause(T, d)
      /\ ~Tautological(d) /\ -lit \in Lits
  BY LitFacts DEF Others, SatFormula
<1>1. ASSUME NEW k \in d, SatLit(T, k), k # -lit
      PROVE  SatClause(Flipped(T, {lit}), d)
  <2>1. k # lit
    BY <1>1
  <2>2. SatLit(Flipped(T, {lit}), k)
    BY <1>0, <1>1, <2>1, FlippedOther
  <2> QED
    BY <2>2 DEF SatClause
<1>2. CASE -lit \notin d
  BY <1>0, <1>1, <1>2 DEF SatClause
<1>3. CASE -lit \in d /\ d \notin Candidates(lit, added)
  <2>1. PICK k \in d \ {-lit} : -k \in added
    BY <1>0, <1>3 DEF Candidates
  <2>2. SatLit(T, k)
    <3>1. ~SatLit(T, -k) /\ k \in Lits
      BY <1>0, <2>1 DEF SatClause
    <3> QED
      BY <3>1, SatNegated
  <2> QED
    BY <1>1, <2>1, <2>2
<1>4. CASE d \in Candidates(lit, added)
  <2>1. PICK k \in Intersection(lit, added) : SatLit(T, k)
    BY <1>4 DEF SatClause
  <2>2. k \in d \ {-lit}
    BY <1>4, <2>1 DEF Intersection
  <2> QED
    BY <1>1, <2>1, <2>2
<1> QED
  BY <1>2, <1>3, <1>4

\* A clause starts to grow.
LEMMA CoverClauseStep ==
  ASSUME StackInv, NEW c \in irredundant, CoverClause(c)
  PROVE  CoverInv'
<1>0. /\ irredundant \in SUBSET SUBSET Lits /\ c \in SUBSET Lits
  BY DEF StackInv, ReconstructionTypeOK
<1>1. /\ cover' = [clause |-> c, added |-> c, covered |-> c, extend |-> <<>>]
      /\ UNCHANGED vars /\ Solving
  BY DEF CoverClause
<1> DEFINE X == <<>>
<1>2. X \in Seq(Entries) /\ Len(X) = 0 /\ 1..Len(X) = {} /\ Grown(X, c, 1) = c
  BY DEF Grown
<1> HIDE DEF X
<1>3. \A F : Grows(F, X, c, c)
  <2>1. \A j \in 1..(Len(X) + 1) : \A i \in 1..j : i = 1 /\ j = 1
    BY <1>2
  <2>2. \A j \in 1..(Len(X) + 1) : \A i \in 1..j :
          Grown(X, c, i) \subseteq Grown(X, c, j)
    BY <2>1
  <2> QED
    BY <1>0, <1>2, <2>2 DEF Grows
<1>4. /\ cover'.clause = c /\ cover'.added = c /\ cover'.covered = c
      /\ cover'.extend = X
  BY <1>1 DEF X
<1>5. /\ irredundant' = irredundant /\ phase' = phase
      /\ assumptions' = assumptions
  BY <1>1 DEF vars
<1>6. Grows(Others, cover.extend, cover.covered, cover.clause)'
  BY <1>3, <1>4, <1>5 DEF Grows, Frozen, Others
<1>7. Solving'
  BY <1>1, <1>5 DEF Solving
<1> QED
  BY <1>0, <1>4, <1>5, <1>6, <1>7 DEF CoverInv

\* The grown clause always holds: the clause itself goes to the stack.
LEMMA CoverSuccessKeeps ==
  ASSUME StackInv, CoverInv, cover # NotCovering, NEW es, NEW C,
         CoverSuccess(es), Grows(Others, es, C, cover.clause),
         \A T \in SUBSET Vars : SatFormula(T, Others) => SatClause(T, C)
  PROVE  StackInv' /\ CoverInv'
<1>1. CoverInv'
  BY DEF CoverSuccess, CoverInv
<1>2. CASE es = <<>>
  BY <1>1, <1>2, StutterStep DEF CoverSuccess
<1>3. CASE es # <<>>
  <2>1. /\ Solving /\ cover.clause \in irredundant
    BY DEF CoverInv
  <2>2. /\ Simplifies /\ Push(es) /\ inactive' = inactive
        /\ irredundant' = irredundant \ {cover.clause}
    BY <1>3 DEF CoverSuccess, Others
  <2>3. Grows(irredundant \ {cover.clause}, es, C, cover.clause)
    BY DEF Others
  <2>4. \A T \in SUBSET Vars :
          SatFormula(T, irredundant \ {cover.clause}) => SatClause(T, C)
    BY DEF Others
  <2> QED
    BY <1>1, <2>1, <2>2, <2>3, <2>4, GrownRemoval
<1> QED
  BY <1>2, <1>3

\* The clause grows by the covered literals of lit.
LEMMA CoverGrows ==
  ASSUME StackInv, CoverInv, NEW lit \in cover.covered, ~Frozen(VarOf(lit)),
         UNCHANGED vars,
         Candidates(lit, Asymmetric) # {},
         cover # NotCovering,
         cover' = [cover EXCEPT
                     !.added = Asymmetric \cup Intersection(lit, Asymmetric),
                     !.covered = @ \cup Intersection(lit, Asymmetric),
                     !.extend = Append(@, Entry({lit}, cover.covered))],
         DOMAIN cover = {"clause", "added", "covered", "extend"}
  PROVE  CoverInv'
<1> DEFINE X == cover.extend
           C == cover.covered
           c == cover.clause
           A == Asymmetric
           more == Intersection(lit, A)
           D == C \cup more
<1>0. /\ irredundant \in SUBSET SUBSET Lits /\ cover.added \in SUBSET Lits
      /\ C \in SUBSET Lits /\ lit \in Lits /\ more \in SUBSET Lits
      /\ D \in SUBSET Lits /\ C \subseteq D
      /\ \A d \in irredundant : ~Tautological(d)
  BY DEF StackInv, ReconstructionTypeOK, CoverInv, Grows, Intersection,
         NoTautology
<1>1. /\ A \in SUBSET Lits
      /\ \A T \in SUBSET Vars :
           SatFormula(T, Others) /\ ~SatClause(T, cover.added)
             => ~SatClause(T, A)
  BY <1>0, AsymmetricFacts
<1>2. \A T \in SUBSET Vars :
        SatFormula(T, Others) /\ ~SatClause(T, C) => ~SatClause(T, A)
  BY <1>1 DEF CoverInv
<1>3. \A T \in SUBSET Vars :
        SatFormula(T, Others) /\ SatClause(T, D) /\ ~SatClause(T, C)
          => SatFormula(Flipped(T, {lit}), Others)
  <2> SUFFICES ASSUME NEW T \in SUBSET Vars, SatFormula(T, Others),
                      SatClause(T, D), ~SatClause(T, C)
               PROVE  SatFormula(Flipped(T, {lit}), Others)
    OBVIOUS
  <2>1. SatClause(T, more) /\ ~SatLit(T, lit)
    BY DEF SatClause
  <2> HIDE DEF A
  <2> QED
    BY <2>1, <1>0, <1>1, <1>2, CoveredRepair
<1>4. Grows(Others, X, C, c) /\ Solving /\ c \in irredundant
  BY DEF CoverInv
<1>5. Grows(Others, Append(X, Entry({lit}, C)), D, c)
  <2> HIDE DEF X, C, c, D
  <2>1. lit \in C
    BY DEF C
  <2> QED
    BY <2>1, <1>0, <1>3, <1>4, GrowsMore
<1>6. /\ cover'.clause = c /\ cover'.covered = D
      /\ cover'.added = A \cup more
      /\ cover'.extend = Append(X, Entry({lit}, C))
  OBVIOUS
<1>7. /\ irredundant' = irredundant /\ phase' = phase
      /\ assumptions' = assumptions
  BY DEF vars
<1>8. Others' = Others
  BY <1>6, <1>7 DEF Others
<1> HIDE DEF A, D, X
<1>9. Grows(Others, cover.extend, cover.covered, cover.clause)'
  BY <1>5, <1>6, <1>7, <1>8, ZenonT(60) DEF Grows, Frozen
<1>10. Solving' /\ c \in irredundant'
  BY <1>4, <1>7 DEF Solving
<1>11. A \cup more \in SUBSET Lits
  BY <1>0, <1>1
<1>12. \A T \in SUBSET Vars :
         SatFormula(T, Others) /\ ~SatClause(T, D)
           => ~SatClause(T, A \cup more)
  BY <1>2 DEF SatClause, D
<1> QED
  BY <1>6, <1>8, <1>9, <1>10, <1>11, <1>12 DEF CoverInv

\* A step of the extension keeps both invariants.
LEMMA CoverStepKeeps ==
  ASSUME StackInv, CoverInv, CoverStep,
         DOMAIN cover = {"clause", "added", "covered", "extend"}
  PROVE  StackInv' /\ CoverInv'
<1> DEFINE A == Asymmetric
           C == cover.covered
           X == cover.extend
<1>0. /\ cover # NotCovering
      /\ irredundant \in SUBSET SUBSET Lits /\ cover.added \in SUBSET Lits
      /\ Grows(Others, X, C, cover.clause) /\ C \in SUBSET Lits
      /\ \A d \in irredundant : ~Tautological(d)
  BY DEF CoverStep, StackInv, ReconstructionTypeOK, CoverInv, Grows,
         NoTautology
<1>1. /\ A \in SUBSET Lits
      /\ \A T \in SUBSET Vars :
           SatFormula(T, Others) /\ ~SatClause(T, C) => ~SatClause(T, A)
  BY <1>0, AsymmetricFacts DEF CoverInv
<1> HIDE DEF A
<1>2. CASE Subsumed(A)
  <2>1. CoverSuccess(X)
    BY <1>2 DEF CoverStep, A
  <2>2. ASSUME NEW T \in SUBSET Vars, SatFormula(T, Others)
        PROVE  SatClause(T, C)
    <3>1. PICK d \in Others : d \subseteq A
      BY <1>2 DEF Subsumed
    <3>2. SatClause(T, A)
      BY <2>2, <3>1 DEF SatFormula, SatClause
    <3> QED
      BY <2>2, <3>2, <1>1
  <2> QED
    BY <1>0, <2>1, <2>2, CoverSuccessKeeps
<1>3. CASE cover' = NotCovering /\ UNCHANGED vars
  BY <1>3, StutterStep DEF CoverInv
<1>4. ASSUME NEW lit \in C, ~Frozen(VarOf(lit)), Candidates(lit, A) = {},
             CoverSuccess(Append(X, Entry({lit}, C)))
      PROVE  StackInv' /\ CoverInv'
  <2>1. \A T \in SUBSET Vars :
          SatFormula(T, Others) /\ SatClause(T, Lits) /\ ~SatClause(T, C)
            => SatFormula(Flipped(T, {lit}), Others)
    <3> SUFFICES ASSUME NEW T \in SUBSET Vars, SatFormula(T, Others),
                        ~SatClause(T, C)
                 PROVE  SatFormula(Flipped(T, {lit}), Others)
      OBVIOUS
    <3>1. ~SatLit(T, lit) /\ lit \in Lits /\ ~SatClause(T, A)
      BY <1>0, <1>1, <1>4 DEF SatClause
    <3> QED
      BY <3>1, <1>0, <1>1, <1>4, CoveredRepair
  <2>2. Grows(Others, Append(X, Entry({lit}, C)), Lits, cover.clause)
    BY <2>1, <1>0, <1>4, GrowsMore
  <2>3. \A T \in SUBSET Vars : SatClause(T, Lits)
    <3> SUFFICES ASSUME NEW T \in SUBSET Vars PROVE SatClause(T, Lits)
      OBVIOUS
    <3>1. lit \in Lits /\ -lit \in Lits
      BY <1>0, <1>4, LitFacts
    <3>2. SatLit(T, lit) \/ SatLit(T, -lit)
      BY <3>1, SatNegated
    <3> QED
      BY <3>1, <3>2 DEF SatClause
  <2> QED
    BY <1>0, <1>4, <2>2, <2>3, CoverSuccessKeeps
<1>5. ASSUME NEW lit \in C, ~Frozen(VarOf(lit)), Candidates(lit, A) # {},
             cover' = [cover EXCEPT !.added = A \cup Intersection(lit, A),
                                    !.covered = @ \cup Intersection(lit, A),
                                    !.extend = Append(X, Entry({lit}, C))],
             UNCHANGED vars
      PROVE  StackInv' /\ CoverInv'
  BY <1>0, <1>5, StutterStep, CoverGrows DEF A
<1>6. CASE ~Subsumed(A) /\ ~(cover' = NotCovering /\ UNCHANGED vars)
  <2>1. \E lit \in {l \in C : /\ ~Frozen(VarOf(l))
                              /\ \/ Candidates(l, A) = {}
                                 \/ Intersection(l, A) # {}} :
          IF Candidates(lit, A) = {}
            THEN CoverSuccess(Append(X, Entry({lit}, C)))
            ELSE /\ cover' = [cover EXCEPT
                                !.added = A \cup Intersection(lit, A),
                                !.covered = @ \cup Intersection(lit, A),
                                !.extend = Append(X, Entry({lit}, C))]
                 /\ UNCHANGED vars
    BY <1>6 DEF CoverStep, A
  <2> QED
    BY <2>1, <1>4, <1>5
<1> QED
  BY <1>2, <1>3, <1>6

\* The recursive function of RepairedBy exists.
LEMMA RepairedByUnfolds ==
  ASSUME NEW s \in Seq(Entries), NEW T \in SUBSET Vars
  PROVE  \E rec : /\ rec = [i \in 0..Len(s) |->
                            IF i = Len(s) THEN T
                            ELSE Repaired(rec[i + 1], s[i + 1])]
                  /\ RepairedBy(T, s) = rec[0]
<1> DEFINE n == Len(s)
           D == SUBSET Vars
           h == [p \in D \X (1..n) |-> Repaired(p[1], s[n + 1 - p[2]])]
           Def(f) == f = [i \in 0..n |->
                            IF i = n THEN T ELSE Repaired(f[i + 1], s[i + 1])]
<1>1. (\A x \in D, i \in 1..n : h[<<x, i>>] \in D) /\ T \in D /\ n \in Nat
  BY FlippedType DEF Repaired
<1>2. \A x \in D, i \in 1..n : h[<<x, i>>] = Repaired(x, s[n + 1 - i])
  OBVIOUS
<1> HIDE DEF h, D
<1>3. PICK f \in [0..n -> D] : Iterates(f, n, T, h)
  <2> HIDE DEF n
  <2> QED
    BY <1>1, IterationExists
<1> DEFINE r == [i \in 0..n |-> f[n - i]]
<1>4. \A i \in 0..n :
        r[i] = IF i = n THEN T ELSE Repaired(r[i + 1], s[i + 1])
  <2> SUFFICES ASSUME NEW i \in 0..n
               PROVE  r[i] = IF i = n THEN T ELSE Repaired(r[i + 1], s[i + 1])
    OBVIOUS
  <2>1. CASE i = n
    BY <2>1, <1>1, <1>3 DEF Iterates
  <2>2. CASE i # n
    <3>1. /\ n - i \in 1..n /\ (n - i) - 1 = n - (i + 1) /\ i + 1 \in 0..n
          /\ n + 1 - (n - i) = i + 1 /\ n - (i + 1) \in 0..n
      BY <2>2, <1>1
    <3>2. r[i] = h[<<f[(n - i) - 1], n - i>>]
      BY <3>1, <1>3 DEF Iterates
    <3>3. r[i + 1] = f[(n - i) - 1] /\ f[(n - i) - 1] \in D
      BY <3>1, <1>3
    <3>4. h[<<f[(n - i) - 1], n - i>>]
            = Repaired(f[(n - i) - 1], s[n + 1 - (n - i)])
      BY <3>1, <3>3, <1>2
    <3> QED
      BY <2>2, <3>1, <3>2, <3>3, <3>4
  <2> QED
    BY <2>1, <2>2
<1>5. Def(r)
  <2>1. r = [i \in 0..n |-> r[i]]
    OBVIOUS
  <2> HIDE DEF r
  <2> QED
    BY <1>4, <2>1
<1> DEFINE rec[i \in 0..n] == IF i = n THEN T ELSE Repaired(rec[i + 1], s[i + 1])
<1>6. Def(rec)
  <2>1. rec = CHOOSE g : Def(g)
    OBVIOUS
  <2> HIDE DEF rec, Def, r
  <2> QED
    BY <1>5, <2>1
<1>7. RepairedBy(T, s) = rec[0]
  BY DEF RepairedBy
<1> HIDE DEF rec
<1> QED
  BY <1>6, <1>7

\* From a model of F where the grown clause holds the entries lead back to a
\* model of F where the clause itself does.
LEMMA GrownRepaired ==
  ASSUME NEW F, NEW X, NEW C, NEW c, Grows(F, X, C, c),
         NEW T \in SUBSET Vars, SatFormula(T, F), SatClause(T, C)
  PROVE  /\ RepairedBy(T, X) \in SUBSET Vars
         /\ SatFormula(RepairedBy(T, X), F) /\ SatClause(RepairedBy(T, X), c)
<1> DEFINE n == Len(X)
<1>0. /\ X \in Seq(Entries) /\ n \in Nat /\ c = Grown(X, C, 1)
  BY DEF Grows
<1>1. PICK rec : /\ rec = [i \in 0..n |->
                           IF i = n THEN T ELSE Repaired(rec[i + 1], X[i + 1])]
                 /\ RepairedBy(T, X) = rec[0]
  BY <1>0, RepairedByUnfolds
<1> DEFINE OK(i) == /\ rec[i] \in SUBSET Vars
                    /\ SatFormula(rec[i], F) /\ SatClause(rec[i], Grown(X, C, i + 1))
           S == {m \in Nat : m <= n => OK(n - m)}
<1>2. 0 \in S
  <2>1. rec[n] = T /\ n - 0 = n /\ ~(n + 1 <= Len(X))
    BY <1>0, <1>1
  <2>2. OK(n)
    BY <2>1 DEF Grown
  <2> QED
    BY <2>1, <2>2
<1>3. ASSUME NEW m \in Nat, m \in S PROVE m + 1 \in S
  <2> SUFFICES ASSUME m + 1 <= n PROVE OK(n - (m + 1))
    OBVIOUS
  <2> DEFINE i == n - (m + 1)
             j == i + 1
  <2>1. /\ i \in 0..n /\ i # n /\ n - m = j /\ j \in 1..n /\ m <= n
        /\ j <= Len(X)
    BY <1>0
  <2>2. rec[i] = Repaired(rec[j], X[j])
    BY <1>1, <2>1
  <2>3. OK(n - m)
    BY <1>3, <2>1
  <2>4. OK(j)
    BY <2>1, <2>3
  <2>5. Grown(X, C, j) = X[j].clause
    BY <2>1 DEF Grown
  <2> HIDE DEF i, j
  <2>6. X[j].clause \in SUBSET Lits
    <3>1. X[j] \in Entries
      BY <2>1, <1>0
    <3> QED
      BY <3>1 DEF Entries
  <2> SUFFICES OK(i)
    BY DEF i
  <2>7. CASE SatClause(rec[j], X[j].clause)
    BY <2>2, <2>4, <2>5, <2>7 DEF Repaired, j
  <2>8. CASE ~SatClause(rec[j], X[j].clause)
    <3>1. rec[i] = Flipped(rec[j], X[j].witness)
      BY <2>2, <2>8 DEF Repaired
    <3>2. SatFormula(rec[i], F)
      BY <2>1, <2>4, <2>8, <3>1 DEF Grows
    <3>3. PICK l \in X[j].clause : X[j].witness = {l}
      BY <2>1 DEF Grows
    <3>4. SatLit(rec[i], l)
      BY <2>4, <2>6, <3>1, <3>3, FlippedWitness
    <3>5. rec[i] \in SUBSET Vars /\ SatClause(rec[i], X[j].clause)
      BY <3>1, <3>3, <3>4, FlippedType, ZenonT(60) DEF SatClause
    <3> QED
      BY <2>5, <3>2, <3>5 DEF i, j
  <2> QED
    BY <2>7, <2>8
<1>4. \A m \in Nat : m \in S
  <2> HIDE DEF S
  <2> QED
    BY <1>2, <1>3, NatSetInduction
<1>5. n \in S /\ n - n = 0
  BY <1>0, <1>4
<1> QED
  BY <1>0, <1>1, <1>5

\* Between two steps the extended clause may take the place of the clause.
LEMMA CoverIsSound ==
  ASSUME StackInv, CoverInv
  PROVE  CoverSound
<1> SUFFICES ASSUME cover # NotCovering, NEW T \in SUBSET Vars,
                    SatFormula(T, Others \cup {cover.added})
             PROVE  SatFormula(RepairedBy(T, cover.extend), irredundant)
  BY DEF CoverSound
<1>1. SatFormula(T, Others) /\ SatClause(T, cover.added)
  BY DEF SatFormula
<1>2. /\ SatClause(T, cover.covered)
      /\ Grows(Others, cover.extend, cover.covered, cover.clause)
  BY <1>1 DEF CoverInv
<1>3. /\ SatFormula(RepairedBy(T, cover.extend), Others)
      /\ SatClause(RepairedBy(T, cover.extend), cover.clause)
  BY <1>1, <1>2, GrownRepaired
<1> QED
  BY <1>3 DEF SatFormula, Others

-----------------------------------------------------------------------------
(* Globally blocked clauses. *)

\* A set of literals that is not empty has a highest one.
LEMMA HighestIn ==
  ASSUME NEW S \in SUBSET Lits, S # {}
  PROVE  Highest(S) \in S
<1> DEFINE D == {MaxVar - VarOf(l) : l \in S}
<1>1. \A l \in S : VarOf(l) \in 1..MaxVar /\ MaxVar - VarOf(l) \in Nat
  BY LitFacts, ReconstructionAssumption DEF Vars
<1>2. PICK n \in D : \A m \in D : n <= m
  <2>1. D \subseteq Nat /\ D # {}
    BY <1>1
  <2> HIDE DEF D
  <2> QED
    BY <2>1, NatLeast
<1>3. PICK l \in S : n = MaxVar - VarOf(l)
  BY <1>2
<1>4. ASSUME NEW k \in S PROVE VarOf(k) <= VarOf(l)
  <2>1. MaxVar - VarOf(k) \in D
    OBVIOUS
  <2>2. MaxVar - VarOf(l) <= MaxVar - VarOf(k)
    BY <2>1, <1>2, <1>3
  <2>3. VarOf(k) \in Int /\ VarOf(l) \in Int /\ MaxVar \in Int
    BY <1>1, ReconstructionAssumption
  <2> HIDE DEF D
  <2> QED
    BY <2>2, <2>3
<1> QED
  BY <1>4 DEF Highest

\* A clause with less than two literals is empty or a unit.
LEMMA ShortClause ==
  ASSUME NEW c \in SUBSET Lits, ~(Cardinality(c) >= 2), c # {}
  PROVE  \E l \in c : c = {l}
<1>1. IsFiniteSet(c)
  BY LitsFinite, FS_Subset
<1>2. PICK l \in c : TRUE
  OBVIOUS
<1>3. /\ IsFiniteSet(c \ {l})
      /\ Cardinality(c \ {l}) = Cardinality(c) - 1
  BY <1>1, <1>2, FS_RemoveElement
<1>4. Cardinality(c) \in Nat /\ Cardinality(c \ {l}) \in Nat
  BY <1>1, <1>3, FS_CardinalityType
<1>5. Cardinality(c \ {l}) = 0
  BY <1>3, <1>4
<1>6. c \ {l} = {}
  BY <1>3, <1>5, FS_EmptySet
<1> QED
  BY <1>2, <1>6

\* The literals of W become true when no two of them contradict each other.
LEMMA FlippedTrue ==
  ASSUME NEW T \in SUBSET Vars, NEW W \in SUBSET Lits,
         \A l \in W : -l \notin W, NEW l \in W
  PROVE  SatLit(Flipped(T, W), l)
<1>0. l \in Lits /\ -l \notin W /\ l \in Int
  BY LitFacts
<1>1. CASE l > 0
  <2>1. l \in Vars
    BY <1>0, <1>1, ReconstructionAssumption DEF Lits, LitsOf, Vars
  <2> QED
    BY <1>1, <2>1 DEF SatLit, Flipped
<1>2. CASE ~(l > 0)
  <2>1. -(-l) \in W
    BY <1>0, LitFacts
  <2>2. -l \notin Flipped(T, W)
    BY <1>0, <2>1 DEF Flipped
  <2> QED
    BY <1>2, <2>2 DEF SatLit
<1> QED
  BY <1>1, <1>2

\* A clause that A makes false partly, but which is not watched by a true
\* literal, makes only conditional literals false.
Guarded(A, conditional, watch, d) ==
  Cardinality(d) >= 2 /\ Negative(A, d) # {} =>
    \/ d \in DOMAIN watch /\ watch[d] \in d \cap A
    \/ Negated(Negative(A, d)) \subseteq conditional

\* The assignment, which is consistent, has only variables that may be removed.
CondInv ==
  cond # NotConditioning =>
    /\ Solving /\ cover = NotCovering
    /\ cond.vals \in SUBSET Lits
    /\ \A l \in cond.vals : -l \notin cond.vals /\ Removable(VarOf(l))
    /\ cond.conditional \subseteq cond.vals
    /\ cond.candidates \subseteq irredundant
    /\ cond.watch \in [DOMAIN cond.watch -> Lits]
    /\ \A d \in DOMAIN cond.watch : cond.watch[d] \in d \cap cond.vals
    /\ \A d \in irredundant :
         Guarded(cond.vals, cond.conditional, cond.watch, d)

\* What refining the partition for one candidate keeps.
Refining(st) ==
  /\ st.vals \subseteq cond.vals
  /\ st.conditional \subseteq cond.vals
  /\ st.todo = st.conditional \cap st.vals
  /\ DOMAIN st.watch = DOMAIN cond.watch
  /\ \A d \in DOMAIN cond.watch : st.watch[d] \in d \cap cond.vals
  /\ \A d \in irredundant : Guarded(st.vals, st.conditional, st.watch, d)

Partitions ==
  {st \in [vals : SUBSET Lits, conditional : SUBSET Lits, todo : SUBSET Lits,
           watch : [DOMAIN cond.watch -> Lits]] : Refining(st)}

\* Taking the value of a literal away.
LEMMA UnassignedStep ==
  ASSUME cond.vals \in SUBSET Lits, NEW st \in Partitions, NEW l \in Lits
  PROVE  Unassigned(st, l) \in Partitions
<1> DEFINE still == st.vals \ {l}
           visited == {d \in DOMAIN st.watch : st.watch[d] = l}
           lost == {d \in visited : Positive(still, d) = {}}
           new == (UNION {Negated(Negative(still, d)) : d \in lost})
                    \ st.conditional
           w == [d \in DOMAIN st.watch |->
                   IF d \in visited \ lost THEN Highest(Positive(still, d))
                   ELSE st.watch[d]]
           u == Unassigned(st, l)
<1>0. /\ st.vals \in SUBSET Lits /\ st.conditional \in SUBSET Lits
      /\ st.todo \in SUBSET Lits
      /\ st.watch \in [DOMAIN cond.watch -> Lits] /\ Refining(st)
      /\ DOMAIN st.watch = DOMAIN cond.watch
  BY DEF Partitions
<1>1. /\ u.vals = still /\ u.conditional = st.conditional \cup new
      /\ u.todo = (st.todo \ {l}) \cup new /\ u.watch = w
      /\ u = [vals |-> still, conditional |-> st.conditional \cup new,
              todo |-> (st.todo \ {l}) \cup new, watch |-> w]
  BY DEF Unassigned
<1>2. \A d \in visited \ lost : /\ Highest(Positive(still, d)) \in d \cap still
                                /\ Highest(Positive(still, d)) \in Lits
  <2> SUFFICES ASSUME NEW d \in visited \ lost
               PROVE  Highest(Positive(still, d)) \in d \cap still
    BY <1>0
  <2>1. Positive(still, d) # {} /\ Positive(still, d) = d \cap still
    BY DEF Positive
  <2>2. Positive(still, d) \in SUBSET Lits
    BY <1>0, <2>1
  <2> QED
    BY <2>1, <2>2, HighestIn
<1>3. new \subseteq still
  <2>1. \A d : Negated(Negative(still, d)) \subseteq still
    BY DEF Negated, Negative
  <2> QED
    BY <2>1
<1>4. /\ w \in [DOMAIN cond.watch -> Lits]
      /\ \A d \in DOMAIN cond.watch :
           w[d] = IF d \in visited \ lost THEN Highest(Positive(still, d))
                  ELSE st.watch[d]
  BY <1>0, <1>2
<1>5. \A d \in lost :
        Negated(Negative(still, d)) \subseteq st.conditional \cup new
  OBVIOUS
<1>6. \A d \in DOMAIN cond.watch :
        d \notin visited => st.watch[d] # l
  BY <1>0
<1>13. lost \subseteq visited /\ still = st.vals \ {l}
  OBVIOUS
<1> HIDE DEF new, w, u, lost, visited, still
<1>7. /\ still \in SUBSET Lits /\ st.conditional \cup new \in SUBSET Lits
      /\ (st.todo \ {l}) \cup new \in SUBSET Lits
  BY <1>0, <1>3, <1>13
<1>8. \A d \in DOMAIN cond.watch : w[d] \in d \cap cond.vals
  BY <1>0, <1>2, <1>4, <1>13 DEF Refining
<1>9. ASSUME NEW d \in irredundant, Cardinality(d) >= 2,
             Negative(still, d) # {}
      PROVE  \/ d \in DOMAIN w /\ w[d] \in d \cap still
             \/ Negated(Negative(still, d)) \subseteq st.conditional \cup new
  <2>1. Negative(still, d) \subseteq Negative(st.vals, d)
    BY <1>13 DEF Negative
  <2>2. Negated(Negative(still, d)) \subseteq Negated(Negative(st.vals, d))
    BY <2>1 DEF Negated
  <2>3. CASE Negated(Negative(st.vals, d)) \subseteq st.conditional
    BY <2>2, <2>3
  <2>4. CASE d \in DOMAIN st.watch /\ st.watch[d] \in d \cap st.vals
    <3>1. CASE d \in visited \ lost
      BY <3>1, <2>4, <1>0, <1>2, <1>4
    <3>2. CASE d \in lost
      BY <3>2, <1>5
    <3>3. CASE d \notin visited
      BY <3>3, <2>4, <1>0, <1>4, <1>6, <1>13
    <3> QED
      BY <3>1, <3>2, <3>3
  <2> QED
    BY <1>0, <1>9, <2>1, <2>3, <2>4 DEF Refining, Guarded
<1>10. Refining(u)
  <2>1. /\ still \subseteq cond.vals
        /\ st.conditional \cup new \subseteq cond.vals
        /\ (st.todo \ {l}) \cup new = (st.conditional \cup new) \cap still
    BY <1>0, <1>3, <1>13 DEF Refining
  <2>2. \A d \in irredundant : Guarded(still, st.conditional \cup new, w, d)
    BY <1>9 DEF Guarded
  <2> QED
    BY <2>1, <2>2, <1>1, <1>4, <1>8 DEF Refining
<1>11. u \in Partitions
  BY <1>1, <1>4, <1>7, <1>10 DEF Partitions
<1> QED
  BY <1>11 DEF u

\* Refining ends with a partition where nothing is left to unassign.
LEMMA RefineEnds ==
  ASSUME cond.vals \in SUBSET Lits, NEW st \in Partitions, NEW c
  PROVE  Refine(c, st) \in Partitions /\ ToUnassign(c, Refine(c, st)) = {}
<1> DEFINE n == Cardinality(st.vals)
           Step(x) == IF ToUnassign(c, x) = {} THEN x
                      ELSE Unassigned(x, Highest(ToUnassign(c, x)))
           h == [p \in Partitions \X (1..n) |-> Step(p[1])]
           Def(f) == f = [i \in 0..n |-> IF i = 0 THEN st ELSE Step(f[i - 1])]
<1>0. ASSUME NEW x \in Partitions
      PROVE  /\ IsFiniteSet(x.vals) /\ Cardinality(x.vals) \in Nat
             /\ ToUnassign(c, x) \subseteq x.vals /\ x.vals \in SUBSET Lits
  <2>1. x.vals \in SUBSET Lits /\ x.todo \subseteq x.vals
    BY DEF Partitions, Refining
  <2>2. IsFiniteSet(x.vals)
    BY <2>1, LitsFinite, FS_Subset
  <2> QED
    BY <2>1, <2>2, FS_CardinalityType DEF ToUnassign
<1>1. \A x \in Partitions : Step(x) \in Partitions
  <2> SUFFICES ASSUME NEW x \in Partitions, ToUnassign(c, x) # {}
               PROVE  Unassigned(x, Highest(ToUnassign(c, x))) \in Partitions
    OBVIOUS
  <2>1. ToUnassign(c, x) \in SUBSET Lits
    BY <1>0
  <2>2. Highest(ToUnassign(c, x)) \in Lits
    BY <2>1, HighestIn
  <2> QED
    BY <2>2, UnassignedStep
<1>2. ASSUME NEW x \in Partitions, ToUnassign(c, x) # {}
      PROVE  Cardinality(Step(x).vals) = Cardinality(x.vals) - 1
  <2> DEFINE l == Highest(ToUnassign(c, x))
  <2>1. l \in ToUnassign(c, x)
    <3>1. ToUnassign(c, x) \in SUBSET Lits
      BY <1>0
    <3> QED
      BY <3>1, <1>2, HighestIn
  <2>2. l \in x.vals
    BY <2>1, <1>0
  <2>3. Step(x).vals = x.vals \ {l}
    BY <1>2 DEF Unassigned
  <2> HIDE DEF l
  <2> QED
    BY <2>2, <2>3, <1>0, FS_RemoveElement
<1>3. n \in Nat
  BY <1>0
<1>4. \A x \in Partitions, i \in 1..n : h[<<x, i>>] = Step(x)
  OBVIOUS
<1> HIDE DEF h, n, Step
<1>5. PICK f \in [0..n -> Partitions] : Iterates(f, n, st, h)
  <2>1. \A x \in Partitions, i \in 1..n : h[<<x, i>>] \in Partitions
    BY <1>1, <1>4
  <2> HIDE DEF Def
  <2> QED
    BY <2>1, <1>3, IterationExists
<1>6. f[0] = st /\ \A i \in 1..n : f[i] = Step(f[i - 1])
  <2> SUFFICES ASSUME NEW i \in 1..n PROVE f[i] = Step(f[i - 1])
    BY <1>5 DEF Iterates
  <2>1. i - 1 \in 0..n
    BY <1>3
  <2> QED
    BY <2>1, <1>4, <1>5 DEF Iterates
<1>7. Def(f)
  <2>1. \A i \in 0..n : i # 0 => i \in 1..n
    BY <1>3
  <2> QED
    BY <1>5, <1>6, <2>1
<1> DEFINE rec[i \in 0..n] == IF i = 0 THEN st ELSE Step(rec[i - 1])
<1>8. Def(rec)
  <2>1. rec = CHOOSE g : Def(g)
    OBVIOUS
  <2> HIDE DEF rec, Def
  <2> QED
    BY <1>7, <2>1
<1>9. Refine(c, st) = rec[n]
  BY DEF Refine, n, Step
<1>10. rec \in [0..n -> Partitions] /\ \A i \in 1..n : rec[i] = Step(rec[i - 1])
  <2>1. \A i \in 0..n : rec[i] = IF i = 0 THEN st ELSE Step(rec[i - 1])
    <3> HIDE DEF rec
    <3> QED
      BY <1>8
  <2>2. \A i \in 0..n : f[i] = IF i = 0 THEN st ELSE Step(f[i - 1])
    BY <1>7
  <2> DEFINE E == {i \in Nat : i <= n => rec[i] = f[i]}
  <2>3. 0 \in E
    BY <1>3, <2>1, <2>2
  <2>4. ASSUME NEW i \in Nat, i \in E PROVE i + 1 \in E
    <3> SUFFICES ASSUME i + 1 <= n PROVE rec[i + 1] = f[i + 1]
      OBVIOUS
    <3>1. i + 1 \in 0..n /\ i + 1 # 0 /\ (i + 1) - 1 = i /\ rec[i] = f[i]
      BY <1>3, <2>4
    <3> HIDE DEF rec
    <3> QED
      BY <2>1, <2>2, <3>1
  <2>5. \A i \in Nat : i \in E
    <3> HIDE DEF E
    <3> QED
      BY <2>3, <2>4, NatSetInduction
  <2>6. \A i \in 0..n : rec[i] = f[i]
    BY <1>3, <2>5
  <2>7. rec = [i \in 0..n |-> rec[i]]
    <3> HIDE DEF rec
    <3> QED
      BY <1>8
  <2> HIDE DEF rec, E
  <2>8. rec \in [0..n -> Partitions]
    BY <1>5, <2>6, <2>7
  <2>9. \A i \in 1..n : i - 1 \in 0..n /\ i \in 0..n
    BY <1>3
  <2> QED
    BY <1>6, <2>6, <2>8, <2>9
<1> HIDE DEF rec
<1> DEFINE S == {m \in Nat : m <= n =>
                   ToUnassign(c, rec[m]) = {} \/ Cardinality(rec[m].vals) <= n - m}
<1>11. 0 \in S
  <2>1. rec[0] = st
    BY <1>3, <1>8
  <2> QED
    BY <2>1, <1>3 DEF n
<1>12. ASSUME NEW m \in Nat, m \in S PROVE m + 1 \in S
  <2> SUFFICES ASSUME m + 1 <= n
               PROVE  \/ ToUnassign(c, rec[m + 1]) = {}
                      \/ Cardinality(rec[m + 1].vals) <= n - (m + 1)
    OBVIOUS
  <2>1. /\ m + 1 \in 1..n /\ m \in 0..n /\ m <= n
    BY <1>3
  <2>2. rec[m + 1] = Step(rec[m]) /\ rec[m] \in Partitions
    <3>1. (m + 1) - 1 = m
      OBVIOUS
    <3> QED
      BY <3>1, <2>1, <1>10
  <2>3. CASE ToUnassign(c, rec[m]) = {}
    BY <2>2, <2>3 DEF Step
  <2>4. CASE ToUnassign(c, rec[m]) # {}
    <3>1. Cardinality(rec[m + 1].vals) = Cardinality(rec[m].vals) - 1
      BY <2>2, <2>4, <1>2
    <3>2. Cardinality(rec[m].vals) <= n - m /\ Cardinality(rec[m].vals) \in Nat
      BY <2>1, <2>2, <2>4, <1>0, <1>12
    <3> QED
      BY <3>1, <3>2, <1>3
  <2> QED
    BY <2>3, <2>4
<1>13. n \in S
  <2> HIDE DEF S
  <2> QED
    BY <1>3, <1>11, <1>12, NatSetInduction
<1>14. n \in 0..n /\ rec[n] \in Partitions
  BY <1>3, <1>10
<1>15. ToUnassign(c, rec[n]) = {}
  <2> SUFFICES ASSUME Cardinality(rec[n].vals) <= n - n
               PROVE  ToUnassign(c, rec[n]) = {}
    BY <1>3, <1>13
  <2>1. Cardinality(rec[n].vals) = 0 /\ IsFiniteSet(rec[n].vals)
    BY <1>0, <1>3, <1>14
  <2>2. rec[n].vals = {}
    BY <2>1, FS_EmptySet
  <2> QED
    BY <2>2, <1>0, <1>14
<1> QED
  BY <1>9, <1>14, <1>15

\* Nothing is left to unassign: where the other clauses hold and c does not,
\* the autarky part may be made true.
LEMMA AutarkyRepair ==
  ASSUME StackInv, CondInv, cond # NotConditioning, NEW c \in irredundant,
         NEW st \in Partitions, ToUnassign(c, st) = {},
         c \cap Autarky(st) # {},
         NEW T \in SUBSET Vars, SatFormula(T, irredundant \ {c}),
         ~SatClause(T, c)
  PROVE  /\ SatFormula(Flipped(T, Autarky(st)), irredundant \ {c})
         /\ SatClause(Flipped(T, Autarky(st)), c)
<1> DEFINE W == Autarky(st)
           U == Flipped(T, W)
<1>0. /\ irredundant \in SUBSET SUBSET Lits /\ {} \notin irredundant
      /\ cond.vals \in SUBSET Lits
      /\ \A l \in cond.vals : -l \notin cond.vals /\ Removable(VarOf(l))
  BY DEF StackInv, ReconstructionTypeOK, CondInv, Solving
<1>1. /\ st.vals \subseteq cond.vals /\ W = st.vals \ st.conditional
      /\ st.todo = st.conditional \cap st.vals
      /\ \A d \in irredundant : Guarded(st.vals, st.conditional, st.watch, d)
  BY DEF Partitions, Refining, Autarky
<1>2. /\ W \in SUBSET Lits /\ \A l \in W : -l \notin W
      /\ \A l \in W : l \in st.vals /\ l \in cond.vals
  BY <1>0, <1>1
<1> HIDE DEF W
<1>3. \A l \in W : SatLit(U, l)
  BY <1>2, FlippedTrue
<1>4. \A l \in st.todo : -l \in c
  BY DEF ToUnassign
<1>5. SatClause(U, c)
  BY <1>3 DEF SatClause, W
<1>6. ASSUME NEW d \in irredundant \ {c} PROVE SatClause(U, d)
  <2>0. d \in SUBSET Lits /\ SatClause(T, d) /\ d \in irredundant
    BY <1>0 DEF SatFormula
  <2>1. CASE \A l \in d : -l \notin W
    BY <2>0, <2>1, <1>2, ClauseKept
  <2>2. ASSUME NEW l \in d, -l \in W PROVE SatClause(U, d)
    <3>0. l \in Negative(st.vals, d) /\ l \in Lits /\ -l \in Lits
      BY <2>0, <2>2, <1>2, LitFacts DEF Negative
    <3>1. CASE ~(Cardinality(d) >= 2)
      <4>1. d = {l}
        <5>1. PICK k \in d : d = {k}
          BY <2>0, <3>1, <1>0, ShortClause
        <5> QED
          BY <5>1
      <4>2. Removable(VarOf(-l))
        BY <2>2, <1>0, <1>2
      <4>3. {l} = {VarOf(-l)} \/ {l} = {-VarOf(-l)}
        BY <3>0, LitFacts DEF VarOf
      <4> QED
        BY <2>0, <4>1, <4>2, <4>3 DEF Removable, Active, Fixed
    <3>2. CASE Cardinality(d) >= 2
      <4>1. ~(Negated(Negative(st.vals, d)) \subseteq st.conditional)
        BY <2>2, <3>0, <1>1 DEF Negated, W, Autarky
      <4>2. st.watch[d] \in d \cap st.vals
        BY <2>0, <3>0, <3>2, <4>1, <1>1 DEF Guarded
      <4> DEFINE w == st.watch[d]
      <4>3. w \in Lits /\ w \in d /\ w \in st.vals /\ w \in cond.vals
        BY <2>0, <4>2, <1>1
      <4> HIDE DEF w
      <4>4. CASE w \in W
        BY <4>3, <4>4, <1>3 DEF SatClause
      <4>5. CASE w \notin W
        <5>1. w \in st.todo
          BY <4>3, <4>5, <1>1
        <5>2. SatLit(T, w)
          BY <5>1, <4>3, <1>4, SatNegated DEF SatClause
        <5>3. -w \notin W
          BY <4>3, <1>0, <1>2
        <5>4. SatLit(U, w)
          BY <5>2, <5>3, <4>3, <1>2, FlippedKeeps
        <5> QED
          BY <5>4, <4>3 DEF SatClause
      <4> QED
        BY <4>4, <4>5
    <3> QED
      BY <3>1, <3>2
  <2> QED
    BY <2>1, <2>2
<1> QED
  BY <1>5, <1>6 DEF SatFormula, W

\* A globally blocked clause goes to the stack with the autarky part.
LEMMA GloballyBlockedStep ==
  ASSUME StackInv, CondInv, cond # NotConditioning, NEW c \in irredundant,
         NEW st \in Partitions, ToUnassign(c, st) = {},
         c \cap Autarky(st) # {},
         Push(<<Entry(Autarky(st), c)>>), irredundant' = irredundant \ {c},
         inactive' = inactive, Simplifies
  PROVE  StackInv'
<1> DEFINE es == <<Entry(Autarky(st), c)>>
           W == Autarky(st)
<1>0. /\ irredundant \in SUBSET SUBSET Lits /\ c \in SUBSET Lits
      /\ assumptions \in SUBSET Lits /\ inactive \in SUBSET Vars
      /\ witness \in SUBSET Lits /\ Solving
      /\ \A l \in cond.vals : Removable(VarOf(l))
  BY DEF StackInv, ReconstructionTypeOK, CondInv
<1>11. W \in SUBSET Lits /\ W \subseteq cond.vals
  BY DEF Partitions, Refining, Autarky
<1>1. /\ es \in Seq(Entries) /\ Len(es) = 1 /\ 1..Len(es) = {1}
      /\ es[1].witness = W /\ es[1].clause = c /\ DOMAIN es = {1}
  BY <1>0, <1>11 DEF Entry, Entries
<1>2. /\ extension' = extension \o es
      /\ witness' = witness \cup Witnesses(es)
  BY DEF Push
<1> HIDE DEF es, W
<1>3. Witnesses(es) = W
  BY <1>1 DEF Witnesses
<1>4. Marked(es, witness') /\ witness \subseteq witness'
      /\ witness' \in SUBSET Lits
  BY <1>0, <1>11, <1>1, <1>2, <1>3 DEF Marked
<1>5. Safe(es, assumptions, {})
  <2> SUFFICES ASSUME NEW a \in assumptions, -a \in W PROVE FALSE
    BY <1>1 DEF Safe
  <2>1. -a \in Lits /\ Removable(VarOf(-a)) /\ -(-a) = a
    BY <1>0, <1>11, LitFacts
  <2>2. -a # -a
    BY <2>1, <1>0, RemovableSafe
  <2> QED
    BY <2>2
<1>6. /\ irredundant' \in SUBSET SUBSET Lits
      /\ \A d \in irredundant' : ~Tautological(d)
  BY <1>0, <1>2 DEF StackInv, NoTautology
<1>7. ASSUME NEW T \in SUBSET Vars
      PROVE  SatFormula(T, irredundant) <=>
               SatFormula(T, irredundant') /\ SatClause(T, c)
  BY <1>2 DEF SatFormula
<1>8. ASSUME NEW T \in SUBSET Vars, SatFormula(T, irredundant'),
             ~SatClause(T, c)
      PROVE  /\ SatFormula(Flipped(T, W), irredundant')
             /\ SatClause(Flipped(T, W), c)
  BY <1>8, AutarkyRepair DEF W
<1>9. /\ \A T \in SUBSET Vars :
           /\ SatFormula(T, irredundant')
           /\ \A j \in 1..Len(es) : SatClause(T, es[j].clause)
           => SatFormula(T, irredundant)
      /\ \A T \in SUBSET Vars :
           /\ SatFormula(T, irredundant)
           /\ \A i \in 1..Len(extension) : SatClause(T, extension[i].clause)
           => /\ SatFormula(T, irredundant')
              /\ \A j \in 1..Len(es) : SatClause(T, es[j].clause)
  BY <1>1, <1>7
<1>10. \A T \in SUBSET Vars, j \in 1..Len(es) :
         /\ SatFormula(T, irredundant')
         /\ \A k \in (j + 1)..Len(es) : SatClause(T, es[k].clause)
         /\ ~SatClause(T, es[j].clause)
         => /\ SatFormula(Flipped(T, es[j].witness), irredundant')
            /\ \A k \in j..Len(es) :
                 SatClause(Flipped(T, es[j].witness), es[k].clause)
  BY <1>1, <1>8
<1> QED
  BY <1>0, <1>1, <1>2, <1>4, <1>5, <1>6, <1>9, <1>10, SimplifyStep

\* The clauses of cond.candidates are tried one by one.
LEMMA ConditionTryStep ==
  ASSUME StackInv, CondInv, ConditionTry,
         DOMAIN cond = {"vals", "conditional", "watch", "candidates"}
  PROVE  StackInv' /\ CondInv' /\ DOMAIN cond' = DOMAIN cond
<1> DEFINE st0 == [vals |-> cond.vals, conditional |-> cond.conditional,
                   todo |-> cond.conditional, watch |-> cond.watch]
           c == CHOOSE d \in cond.candidates : TRUE
           st == Refine(c, st0)
<1>0. /\ cond # NotConditioning /\ c \in cond.candidates
  BY DEF ConditionTry, NotConditioning
<1>1. /\ Solving /\ cover = NotCovering /\ c \in irredundant
      /\ cond.vals \in SUBSET Lits
      /\ \A l \in cond.vals : -l \notin cond.vals /\ Removable(VarOf(l))
      /\ cond.conditional \subseteq cond.vals
      /\ cond.candidates \subseteq irredundant
      /\ cond.watch \in [DOMAIN cond.watch -> Lits]
      /\ \A d \in DOMAIN cond.watch : cond.watch[d] \in d \cap cond.vals
      /\ \A d \in irredundant :
           Guarded(cond.vals, cond.conditional, cond.watch, d)
  BY <1>0 DEF CondInv
<1>2. st0 \in Partitions
  <2>1. Refining(st0)
    BY <1>1 DEF Refining
  <2> QED
    BY <2>1, <1>1 DEF Partitions
<1>3. st \in Partitions /\ ToUnassign(c, st) = {}
  <2> HIDE DEF st0, c
  <2> QED
    BY <1>1, <1>2, RefineEnds
<1>4. /\ cond' = [Reassigned(st) EXCEPT !.candidates = @ \ {c}]
      /\ IF c \cap Autarky(st) = {} THEN UNCHANGED vars
         ELSE /\ Push(<<Entry(Autarky(st), c)>>)
              /\ irredundant' = irredundant \ {c}
              /\ UNCHANGED inactive
              /\ Simplifies
      /\ cover' = cover
  BY DEF ConditionTry
<1> HIDE DEF st, c, st0
<1>5. /\ irredundant' \subseteq irredundant /\ phase' = phase
      /\ assumptions' = assumptions /\ inactive' = inactive
  BY <1>4 DEF vars, Simplifies
<1>6. /\ cond'.vals = cond.vals /\ cond'.conditional = cond.conditional
      /\ cond'.watch = st.watch /\ cond'.candidates = cond.candidates \ {c}
      /\ DOMAIN cond' = DOMAIN cond
  BY <1>4 DEF Reassigned
<1>7. StackInv'
  <2>1. CASE c \cap Autarky(st) = {}
    BY <1>4, <2>1, StutterStep
  <2>2. CASE c \cap Autarky(st) # {}
    BY <1>0, <1>1, <1>3, <1>4, <2>2, GloballyBlockedStep
  <2> QED
    BY <2>1, <2>2
<1>8. /\ DOMAIN st.watch = DOMAIN cond.watch
      /\ st.watch \in [DOMAIN cond.watch -> Lits]
      /\ \A d \in DOMAIN cond.watch : st.watch[d] \in d \cap cond.vals
  BY <1>3 DEF Partitions, Refining
<1>9. Solving' /\ cover' = NotCovering
  BY <1>1, <1>4, <1>5 DEF Solving
<1>10. \A l \in cond.vals : -l \notin cond.vals /\ Removable(VarOf(l))'
  BY <1>1, <1>5 DEF Removable, Active, Fixed, Frozen
<1>11. cond'.candidates \subseteq irredundant'
  BY <1>1, <1>4, <1>6 DEF vars
<1>12. ASSUME NEW d \in irredundant'
       PROVE  Guarded(cond.vals, cond.conditional, st.watch, d)
  <2>1. Guarded(cond.vals, cond.conditional, cond.watch, d)
    BY <1>1, <1>5
  <2> QED
    BY <2>1, <1>8 DEF Guarded
<1>13. CondInv'
  BY <1>1, <1>6, <1>8, <1>9, <1>10, <1>11, <1>12 DEF CondInv
<1> QED
  BY <1>6, <1>7, <1>13

\* The first partition.
LEMMA ConditionBeginStep ==
  ASSUME StackInv, ConditionBegin
  PROVE  /\ StackInv' /\ CondInv'
         /\ DOMAIN cond' = {"vals", "conditional", "watch", "candidates"}
<1>0. /\ irredundant \in SUBSET SUBSET Lits /\ Solving /\ cover = NotCovering
      /\ UNCHANGED coverVars
  BY DEF ConditionBegin, StackInv, ReconstructionTypeOK
<1> DEFINE Values(T) == {IF v \in T THEN v ELSE -v : v \in Assigned}
           long == {c \in irredundant : Cardinality(c) >= 2}
           Watched(A) == {c \in long : Positive(A, c) # {} /\ Negative(A, c) # {}}
<1>1. PICK T \in SUBSET Assigned :
        cond' = [vals |-> Values(T),
                 conditional |->
                   UNION {Negated(Negative(Values(T), c)) :
                            c \in {c \in long : Positive(Values(T), c) = {}}},
                 watch |-> [c \in Watched(Values(T)) |->
                              Highest(Positive(Values(T), c))],
                 candidates |-> {c \in long : Positive(Values(T), c) # {}}]
  BY DEF ConditionBegin
<1> DEFINE A == Values(T)
           U == UNION {Negated(Negative(A, c)) :
                         c \in {c \in long : Positive(A, c) = {}}}
           w == [c \in Watched(A) |-> Highest(Positive(A, c))]
<1>2. /\ cond'.vals = A /\ cond'.conditional = U /\ cond'.watch = w
      /\ cond'.candidates = {c \in long : Positive(A, c) # {}}
      /\ DOMAIN cond' = {"vals", "conditional", "watch", "candidates"}
  BY <1>1
<1>3. ASSUME NEW l \in A
      PROVE  l \in Lits /\ -l \notin A /\ Removable(VarOf(l))
  <2>1. PICK v \in Assigned : l = IF v \in T THEN v ELSE -v
    OBVIOUS
  <2>2. v \in Vars /\ Removable(v) /\ v \in Int /\ v > 0
    BY ReconstructionAssumption DEF Assigned, Vars
  <2>3. l \in Lits /\ VarOf(l) = v
    BY <2>1, <2>2 DEF Lits, LitsOf, Vars, VarOf
  <2>4. ASSUME NEW u \in Assigned, -l = IF u \in T THEN u ELSE -u PROVE FALSE
    <3>1. u \in Int /\ u > 0
      BY ReconstructionAssumption DEF Assigned, Vars
    <3>2. u = v
      BY <2>1, <2>2, <2>4, <3>1
    <3> QED
      BY <2>1, <2>2, <2>4, <3>2
  <2> QED
    BY <2>2, <2>3, <2>4
<1> HIDE DEF Values
<1>4. A \in SUBSET Lits
  BY <1>3
<1>5. \A c : Negated(Negative(A, c)) \subseteq A
  BY DEF Negated, Negative
<1>6. U \subseteq A
  BY <1>5
<1>7. ASSUME NEW c \in Watched(A)
      PROVE  w[c] \in c \cap A /\ w[c] \in Lits
  <2>1. Positive(A, c) \in SUBSET Lits /\ Positive(A, c) # {}
        /\ Positive(A, c) = c \cap A
    BY <1>4 DEF Positive
  <2>2. w[c] = Highest(Positive(A, c))
    OBVIOUS
  <2>3. Highest(Positive(A, c)) \in Positive(A, c)
    BY <2>1, HighestIn
  <2> QED
    BY <2>1, <2>2, <2>3
<1>8. DOMAIN w = Watched(A) /\ w = [c \in Watched(A) |-> w[c]]
  OBVIOUS
<1>9. ASSUME NEW d \in irredundant PROVE Guarded(A, U, w, d)
  <2> SUFFICES ASSUME Cardinality(d) >= 2, Negative(A, d) # {}
               PROVE  \/ d \in DOMAIN w /\ w[d] \in d \cap A
                      \/ Negated(Negative(A, d)) \subseteq U
    BY DEF Guarded
  <2>1. CASE Positive(A, d) = {}
    BY <2>1
  <2>2. CASE Positive(A, d) # {}
    <3>1. d \in Watched(A)
      BY <2>2
    <3> QED
      BY <3>1, <1>7, <1>8
  <2> QED
    BY <2>1, <2>2
<1> HIDE DEF A, U, w
<1>10. w \in [DOMAIN w -> Lits]
  BY <1>7, <1>8
<1>11. StackInv'
  BY <1>0, StutterStep DEF coverVars
<1>12. /\ Solving' /\ cover' = NotCovering /\ irredundant' = irredundant
       /\ \A v : Removable(v)' = Removable(v)
  BY <1>0 DEF coverVars, vars, Solving, Removable, Active, Fixed, Frozen
<1>13. cond'.candidates \subseteq irredundant
  BY <1>2
<1>14. CondInv'
  BY <1>2, <1>3, <1>4, <1>6, <1>7, <1>8, <1>9, <1>10, <1>12, <1>13 DEF CondInv
<1> QED
  BY <1>2, <1>11, <1>14

-----------------------------------------------------------------------------
(* All removals together. *)

RemovalInv ==
  /\ StackInv /\ CoverInv /\ CondInv
  /\ DOMAIN cover = {"clause", "added", "covered", "extend"}
  /\ DOMAIN cond = {"vals", "conditional", "watch", "candidates"}

\* Nothing is on the stack and nothing is being removed.
LEMMA RemovalInvInit == ConditionInit => RemovalInv
  BY StackInvInit DEF ConditionInit, CoverInit, RemovalInv, CoverInv, CondInv,
                      NotCovering, NotConditioning

\* What the two techniques keep of the invariant while a clause is covered.
LEMMA CoveringStep ==
  ASSUME RemovalInv, Cover, cond = NotConditioning, cond' = cond
  PROVE  RemovalInv'
<1>1. CondInv' /\ (DOMAIN cond = {"vals", "conditional", "watch", "candidates"})'
  BY DEF RemovalInv, CondInv
<1>2. ASSUME CoverStep PROVE RemovalInv'
  <2>1. StackInv' /\ CoverInv'
    BY <1>2, CoverStepKeeps DEF RemovalInv
  <2>2. DOMAIN NotCovering = {"clause", "added", "covered", "extend"}
    BY DEF NotCovering
  <2>3. (DOMAIN cover = {"clause", "added", "covered", "extend"})'
    BY <1>2, <2>2 DEF CoverStep, CoverSuccess, RemovalInv
  <2> QED
    BY <1>1, <2>1, <2>3 DEF RemovalInv
<1>3. ASSUME NEW c \in irredundant, CoverClause(c) PROVE RemovalInv'
  <2>1. StackInv' /\ CoverInv'
    BY <1>3, CoverClauseStep, StutterStep DEF CoverClause, RemovalInv
  <2>2. (DOMAIN cover = {"clause", "added", "covered", "extend"})'
    BY <1>3 DEF CoverClause
  <2> QED
    BY <1>1, <2>1, <2>2 DEF RemovalInv
<1> QED
  BY <1>2, <1>3 DEF Cover

\* What the two techniques keep of the invariant while they condition.
LEMMA ConditioningStep ==
  ASSUME RemovalInv, Conditioning
  PROVE  RemovalInv'
<1>1. cover' = cover /\ cover = NotCovering
  BY DEF Conditioning, ConditionBegin, ConditionTry, ConditionEnd, coverVars,
         RemovalInv, CondInv, NotConditioning
<1>2. CoverInv' /\ (DOMAIN cover = {"clause", "added", "covered", "extend"})'
  BY <1>1 DEF RemovalInv, CoverInv
<1>3. CASE ConditionBegin
  BY <1>2, <1>3, ConditionBeginStep DEF RemovalInv
<1>4. CASE ConditionTry
  BY <1>2, <1>4, ConditionTryStep DEF RemovalInv
<1>5. CASE ConditionEnd
  <2>1. StackInv'
    BY <1>5, StutterStep DEF ConditionEnd, coverVars, RemovalInv
  <2>2. CondInv' /\ (DOMAIN cond = {"vals", "conditional", "watch", "candidates"})'
    BY <1>5 DEF ConditionEnd, CondInv, NotConditioning
  <2> QED
    BY <1>2, <2>1, <2>2 DEF RemovalInv
<1> QED
  BY <1>3, <1>4, <1>5 DEF Conditioning

\* Every step of the solver keeps the invariant.
LEMMA RemovalInvStep == RemovalInv /\ [ConditionNext]_condVars => RemovalInv'
<1> SUFFICES ASSUME RemovalInv, [ConditionNext]_condVars PROVE RemovalInv'
  OBVIOUS
<1>1. CASE Next /\ cover = NotCovering /\ cond = NotConditioning
             /\ UNCHANGED <<cover, cond>>
  <2>1. StackInv'
    BY <1>1, StackInvStep DEF RemovalInv
  <2>2. CoverInv' /\ CondInv'
    BY <1>1 DEF CoverInv, CondInv
  <2> QED
    BY <1>1, <2>1, <2>2 DEF RemovalInv
<1>2. CASE UNCHANGED condVars
  <2>1. UNCHANGED vars /\ cover' = cover /\ cond' = cond
    BY <1>2 DEF condVars, coverVars
  <2>2. StackInv'
    BY <2>1, StutterStep DEF RemovalInv
  <2>3. /\ irredundant' = irredundant /\ phase' = phase
        /\ assumptions' = assumptions /\ inactive' = inactive
    BY <2>1 DEF vars
  <2>4. /\ Solving' = Solving /\ Others' = Others
        /\ \A v : Frozen(v)' = Frozen(v) /\ Removable(v)' = Removable(v)
    BY <2>1, <2>3 DEF Solving, Others, Removable, Active, Fixed, Frozen
  <2>5. Grows(Others, cover.extend, cover.covered, cover.clause)'
          = Grows(Others, cover.extend, cover.covered, cover.clause)
    BY <2>1, <2>3, <2>4 DEF Grows, Frozen
  <2>6. CoverInv'
    BY <2>1, <2>3, <2>4, <2>5 DEF RemovalInv, CoverInv
  <2>7. CondInv'
    BY <2>1, <2>3, <2>4 DEF RemovalInv, CondInv
  <2> QED
    BY <2>1, <2>2, <2>6, <2>7 DEF RemovalInv
<1> QED
  BY <1>1, <1>2, CoveringStep, ConditioningStep DEF ConditionNext

\* The invariant holds at all times.
LEMMA RemovalInvHolds == ConditionSpec => []RemovalInv
  BY RemovalInvInit, RemovalInvStep, PTL DEF ConditionSpec

\* While covered literals are added, the clause may be replaced by the
\* extended one: what satisfies that is repaired to satisfy the clause.
THEOREM CoveringSound == ConditionSpec => []CoverSound
<1>1. RemovalInv => CoverSound
  BY CoverIsSound DEF RemovalInv
<1> QED
  BY <1>1, RemovalInvHolds, PTL

\* The watches that the candidates of a conditioning round share stay right,
\* although each candidate refined another assignment.
THEOREM WatchesShared == ConditionSpec => []ConditionWatched
<1>1. RemovalInv => ConditionWatched
  BY DEF RemovalInv, CondInv, ConditionWatched, Guarded
<1> QED
  BY <1>1, RemovalInvHolds, PTL

\* With covered and globally blocked clauses removed too, every model of the
\* formula can be repaired, what extend () returns satisfies the user's
\* clauses and the assumptions, and nothing is lost.
THEOREM AllRemovalsCorrect ==
  ConditionSpec => [](EveryModelRepairable /\ ExtendedSatisfies /\ NothingLost)
<1>1. RemovalInv => EveryModelRepairable
  BY ChainRepairs DEF RemovalInv
<1>2. RemovalInv => ExtendedSatisfies
  BY StackInvExtended DEF RemovalInv
<1>3. RemovalInv => NothingLost
  BY StackInvNothingLost DEF RemovalInv
<1> QED
  BY <1>1, <1>2, <1>3, RemovalInvHolds, PTL

\* The solver keeps its promise with covered and globally blocked clauses
\* removed too.
THEOREM AllRemovalsRefineIpasir == ConditionSpec => KeepsPromise
<1>1. ConditionInit => Abstract!IpasirInit
  BY DEF ConditionInit, CoverInit, Init, Abstract!IpasirInit, Verdict
<1>2. ASSUME RemovalInv, [ConditionNext]_condVars
      PROVE  [Abstract!IpasirNext]_(Abstract!ipasirVars)
  <2>1. CASE Next
    BY <2>1, <1>2, CallRefines, VerdictRefines, InnerStutters
    DEF Next, RemovalInv
  <2>2. CASE UNCHANGED condVars
    BY <2>2, InnerStutters DEF condVars, coverVars
  <2>3. ASSUME Simplifies \/ UNCHANGED vars
        PROVE  UNCHANGED Abstract!ipasirVars
    BY <2>3 DEF Simplifies, vars, Abstract!ipasirVars, Verdict
  <2>4. CASE Cover
    <3>1. Simplifies \/ UNCHANGED vars
      BY <2>4 DEF Cover, CoverStep, CoverSuccess, CoverClause
    <3> QED
      BY <2>3, <3>1
  <2>5. CASE Conditioning
    <3>1. Simplifies \/ UNCHANGED vars
      BY <2>5 DEF Conditioning, ConditionBegin, ConditionTry, ConditionEnd,
                  coverVars
    <3> QED
      BY <2>3, <3>1
  <2> QED
    BY <1>2, <2>1, <2>2, <2>4, <2>5 DEF ConditionNext
<1>3. RemovalInv /\ [ConditionNext]_condVars
        => [Abstract!IpasirNext]_(Abstract!ipasirVars)
  BY <1>2
<1> QED
  BY <1>1, <1>3, RemovalInvHolds, PTL
  DEF ConditionSpec, KeepsPromise, Abstract!IpasirSpec

-----------------------------------------------------------------------------
(* Gates. *)

GateLits == LitsOf(GateVar)

\* Without its literals of the pivot p some clause of G is false, and a clause
\* with p and one with -p have two opposite literals besides.
Defines(F, G, p) ==
  /\ \A c \in G : c \in F /\ (p \in c \/ -p \in c)
  /\ \A T : \E c \in G : ~SatClause(T, c \ {p, -p})
  /\ \A c \in G, d \in G : p \in c /\ -p \in d =>
       Tautological((c \ {p}) \cup (d \ {-p}))

\* This is what elimination expects of a gate.
LEMMA DefinesGate ==
  ASSUME NEW F, NEW G, NEW p, Defines(F, G, p)
  PROVE  R(F)!Gate(G, p)
BY DEF Defines, R!Gate, R!Occs, R!Tautological, Tautological, R!Resolvent,
       R!SatClause, SatClause, R!SatLit, SatLit

\* Literals of the formulas in which gates are searched.
LEMMA GateLitFacts ==
  ASSUME NEW l \in GateLits
  PROVE  /\ l \in Int /\ l # 0 /\ -l \in GateLits /\ -(-l) = l /\ -l # l
         /\ \A T : SatLit(T, -l) <=> ~SatLit(T, l)
BY GatesAssumption DEF GateLits, LitsOf, SatLit

\* A gate of the negation is a gate.
LEMMA GateSymmetric ==
  ASSUME NEW F, NEW G, NEW p \in GateLits, Defines(F, G, -p)
  PROVE  Defines(F, G, p)
<1>1. -(-p) = p /\ {-p, p} = {p, -p}
  BY GateLitFacts
<1>2. \A c \in G, d \in G :
        (c \ {p}) \cup (d \ {-p}) = (d \ {-p}) \cup (c \ {p})
  OBVIOUS
<1> QED
  BY <1>1, <1>2 DEF Defines

\* A clause c with -p, and the binary clauses of p with the negation of each
\* other literal of c, define p.
LEMMA AndDefines ==
  ASSUME NEW F, NEW p \in GateLits, NEW c \in F, c \subseteq GateLits,
         ~Tautological(c), -p \in c,
         \A l \in c \ {-p} : {p, -l} \in F
  PROVE  Defines(F, {c} \cup {{p, -l} : l \in c \ {-p}}, p)
<1> DEFINE G == {c} \cup {{p, -l} : l \in c \ {-p}}
<1>0. /\ p \notin c /\ -(-p) = p /\ -p # p
      /\ \A l \in c : l \in GateLits /\ -(-l) = l /\ -l \notin c
      /\ \A l \in c \ {-p} : -l # p /\ l # p /\ -l # -p
  BY GateLitFacts DEF Tautological
<1>1. \A d \in G : d = c \/ \E l \in c \ {-p} : d = {p, -l}
  OBVIOUS
<1>2. \A d \in G : d \in F /\ (p \in d \/ -p \in d)
  OBVIOUS
<1>3. ASSUME NEW T PROVE \E d \in G : ~SatClause(T, d \ {p, -p})
  <2>1. CASE \A l \in c \ {-p} : ~SatLit(T, l)
    BY <2>1 DEF SatClause
  <2>2. ASSUME NEW l \in c \ {-p}, SatLit(T, l)
        PROVE  \E d \in G : ~SatClause(T, d \ {p, -p})
    <3>1. ~SatLit(T, -l)
      BY <1>0, <2>2, GateLitFacts
    <3>2. ~SatClause(T, {p, -l} \ {p, -p})
      BY <3>1 DEF SatClause
    <3> QED
      BY <3>2
  <2> QED
    BY <2>1, <2>2
<1>4. ASSUME NEW d \in G, NEW e \in G, p \in d, -p \in e
      PROVE  Tautological((d \ {p}) \cup (e \ {-p}))
  <2>1. e = c
    BY <1>0, <1>1, <1>4
  <2>2. PICK l \in c \ {-p} : d = {p, -l}
    BY <1>0, <1>1, <1>4
  <2>3. -l \in d \ {p} /\ l \in e \ {-p} /\ -l # p
    BY <2>1, <2>2, <1>0
  <2> QED
    BY <2>3 DEF Tautological
<1> HIDE DEF G
<1>5. Defines(F, G, p)
  BY <1>2, <1>3, <1>4 DEF Defines
<1> QED
  BY <1>5 DEF G

\* Clauses are finite.
LEMMA GateLitsFinite == IsFiniteSet(GateLits)
<1>1. (-GateVar) \in Int /\ GateVar \in Int
  BY GatesAssumption
<1>2. GateLits \in SUBSET ((-GateVar)..GateVar)
  BY GatesAssumption DEF GateLits, LitsOf
<1> QED
  BY <1>1, <1>2, FS_Interval, FS_Subset

\* A clause of three literals without two of them.
LEMMA ThirdLiteral ==
  ASSUME NEW d, d \subseteq GateLits, Cardinality(d) = 3,
         NEW p \in d, NEW b \in d, p # b
  PROVE  \E x \in d : d = {p, b, x} /\ d \ {p, b} = {x} /\ x # p /\ x # b
<1>1. IsFiniteSet(d)
  BY GateLitsFinite, FS_Subset
<1> DEFINE e == d \ {p}
           g == e \ {b}
<1>2. IsFiniteSet(e) /\ Cardinality(e) = 2
  BY <1>1, FS_RemoveElement
<1>3. IsFiniteSet(g) /\ Cardinality(g) = 1
  <2>1. b \in e
    OBVIOUS
  <2> HIDE DEF e
  <2> QED
    BY <1>2, <2>1, FS_RemoveElement
<1>4. PICK x : g = {x}
  <2> HIDE DEF g
  <2> QED
    BY <1>3, FS_Singleton
<1> QED
  BY <1>4

\* Where b holds two of the clauses decide p by y, else two by x.
LEMMA IfThenElseDefines ==
  ASSUME NEW F, NEW p \in GateLits, NEW b \in GateLits, NEW x \in GateLits,
         NEW y \in GateLits,
         {p, b, x} \in F, {p, -b, y} \in F,
         {-p, b, -x} \in F, {-p, -b, -y} \in F,
         b # p, b # -p, x # p, x # -p, x # b, x # -b,
         y # p, y # -p, y # b, y # -b
  PROVE  Defines(F, {{p, b, x}, {p, -b, y}, {-p, b, -x}, {-p, -b, -y}}, p)
<1> DEFINE c1 == {p, b, x}
           c2 == {p, -b, y}
           c3 == {-p, b, -x}
           c4 == {-p, -b, -y}
           G == {c1, c2, c3, c4}
<1>0. /\ -p # p /\ -b # b /\ -x # x /\ -y # y
      /\ -(-p) = p /\ -(-b) = b /\ -(-x) = x /\ -(-y) = y
      /\ -b # p /\ -b # -p /\ -x # p /\ -x # -p /\ -y # p /\ -y # -p
      /\ -x # b /\ -x # -b /\ -y # b /\ -y # -b
  BY GateLitFacts
<1>1. \A c \in G : c \in F /\ (p \in c \/ -p \in c)
  OBVIOUS
<1>2. /\ p \in c1 /\ p \in c2 /\ -p \in c3 /\ -p \in c4
      /\ -p \notin c1 /\ -p \notin c2 /\ p \notin c3 /\ p \notin c4
  BY <1>0
<1>3. /\ c1 \ {p, -p} = {b, x} /\ c2 \ {p, -p} = {-b, y}
      /\ c3 \ {p, -p} = {b, -x} /\ c4 \ {p, -p} = {-b, -y}
  BY <1>0
<1>4. ASSUME NEW T PROVE \E c \in G : ~SatClause(T, c \ {p, -p})
  <2>1. /\ SatLit(T, -b) <=> ~SatLit(T, b)
        /\ SatLit(T, -x) <=> ~SatLit(T, x)
        /\ SatLit(T, -y) <=> ~SatLit(T, y)
    BY GateLitFacts
  <2>2. \/ ~SatClause(T, {b, x}) \/ ~SatClause(T, {-b, y})
        \/ ~SatClause(T, {b, -x}) \/ ~SatClause(T, {-b, -y})
    BY <2>1 DEF SatClause
  <2> HIDE DEF c1, c2, c3, c4
  <2> QED
    BY <2>2, <1>3
<1>5. /\ c1 \ {p} = {b, x} /\ c2 \ {p} = {-b, y}
      /\ c3 \ {-p} = {b, -x} /\ c4 \ {-p} = {-b, -y}
  BY <1>0
<1>6. /\ Tautological({b, x} \cup {b, -x})
      /\ Tautological({b, x} \cup {-b, -y})
      /\ Tautological({-b, y} \cup {b, -x})
      /\ Tautological({-b, y} \cup {-b, -y})
  BY <1>0 DEF Tautological
<1> HIDE DEF c1, c2, c3, c4
<1>7. \A c \in G, d \in G : p \in c /\ -p \in d =>
        Tautological((c \ {p}) \cup (d \ {-p}))
  BY <1>2, <1>5, <1>6
<1>8. Defines(F, G, p)
  BY <1>1, <1>4, <1>7 DEF Defines
<1> QED
  BY <1>8 DEF c1, c2, c3, c4

\* What the search for an if-then-else finds.
LEMMA FindIfThenElseDefines ==
  ASSUME NEW F \in GateFormulas, NEW p \in GateLits,
         NEW G \in FindIfThenElse(F, p)
  PROVE  Defines(F, G, p)
<1> DEFINE third(d, b) == {-p, b} \cup Negated(d \ {p, b})
           fourth(d, b) == {-p, -b} \cup Negated(d \ {p, -b})
           found(d, e) ==
             {{d, e, third(d, b), fourth(e, b)} :
                b \in {b \in d \ {p} : /\ -b \in e
                                       /\ VarsOf(d \ {p, b}) # VarsOf(e \ {p, -b})
                                       /\ third(d, b) \in F
                                       /\ fourth(e, b) \in F}}
<1>0. PICK di \in Ternary(F, p), dj \in Ternary(F, p) : G \in found(di, dj)
  <2> DEFINE with(d) == UNION {found(d, e) : e \in Ternary(F, p) \ {d}}
  <2>1. FindIfThenElse(F, p) = UNION {with(d) : d \in Ternary(F, p)}
    BY DEF FindIfThenElse
  <2> HIDE DEF found
  <2>2. PICK d \in Ternary(F, p) : G \in with(d)
    <3> HIDE DEF with
    <3> QED
      BY <2>1
  <2> QED
    BY <2>2
<1>1. PICK b \in di \ {p} :
        /\ -b \in dj /\ third(di, b) \in F /\ fourth(dj, b) \in F
        /\ G = {di, dj, third(di, b), fourth(dj, b)}
  <2> HIDE DEF third, fourth
  <2> QED
    BY <1>0
<1>2. /\ di \in F /\ p \in di /\ Cardinality(di) = 3
      /\ dj \in F /\ p \in dj /\ Cardinality(dj) = 3
  BY DEF Ternary
<1>3. /\ di \subseteq GateLits /\ dj \subseteq GateLits
      /\ ~Tautological(di) /\ ~Tautological(dj)
  BY <1>2, GatesAssumption DEF GateLits
<1>4. /\ b \in di /\ b # p /\ -b # p /\ b # -p /\ -p \notin dj /\ -p \notin di
      /\ -b \notin di
  BY <1>1, <1>2, <1>3, GateLitFacts DEF Tautological
<1>5. PICK x \in di : di = {p, b, x} /\ di \ {p, b} = {x} /\ x # p /\ x # b
  BY <1>2, <1>3, <1>4, ThirdLiteral
<1>6. PICK y \in dj : /\ dj = {p, -b, y} /\ dj \ {p, -b} = {y}
                      /\ y # p /\ y # -b
  BY <1>1, <1>2, <1>3, <1>4, ThirdLiteral
<1>7. /\ p \in GateLits /\ b \in GateLits /\ x \in GateLits /\ y \in GateLits
      /\ x # -p /\ x # -b /\ y # -p /\ y # b
  <2>1. -(-b) = b
    BY <1>3, <1>4, GateLitFacts
  <2> QED
    BY <1>1, <1>3, <1>4, <1>5, <1>6, <2>1 DEF Tautological
<1>8. /\ {-p, b} \cup Negated(di \ {p, b}) = {-p, b, -x}
      /\ {-p, -b} \cup Negated(dj \ {p, -b}) = {-p, -b, -y}
  BY <1>5, <1>6 DEF Negated
<1>9. /\ {p, b, x} \in F /\ {p, -b, y} \in F
      /\ {-p, b, -x} \in F /\ {-p, -b, -y} \in F
  BY <1>1, <1>2, <1>5, <1>6, <1>8
<1>10. Defines(F, {{p, b, x}, {p, -b, y}, {-p, b, -x}, {-p, -b, -y}}, p)
  <2> HIDE DEF third, fourth, found
  <2> QED
    BY <1>4, <1>5, <1>6, <1>7, <1>9, IfThenElseDefines
<1> QED
  BY <1>1, <1>5, <1>6, <1>8, <1>10

\* Two binary clauses are the smallest conjunction.
LEMMA FindEquivalenceDefines ==
  ASSUME NEW F \in GateFormulas, NEW p \in GateLits,
         NEW G \in FindEquivalence(F, p)
  PROVE  Defines(F, G, p)
<1>1. PICK k : /\ k \in BinaryLiterals(F, -p) /\ -k \in BinaryLiterals(F, p)
               /\ G = {{-p, k}, {p, -k}}
  BY DEF FindEquivalence
<1>2. {-p, k} \in F /\ {p, -k} \in F /\ k # -p
  BY <1>1 DEF BinaryLiterals
<1> DEFINE c == {-p, k}
<1>3. c \subseteq GateLits /\ ~Tautological(c) /\ -p \in c
      /\ c \ {-p} = {k}
  BY <1>2, GatesAssumption DEF GateLits
<1>4. G = {c} \cup {{p, -l} : l \in c \ {-p}}
  BY <1>1, <1>3
<1> HIDE DEF c
<1>5. c \in F /\ \A l \in c \ {-p} : {p, -l} \in F
  BY <1>2, <1>3 DEF c
<1> QED
  BY <1>3, <1>4, <1>5, AndDefines

\* What the search for a conjunction finds.
LEMMA FindAndGateDefines ==
  ASSUME NEW F \in GateFormulas, NEW p \in GateLits, NEW G \in FindAndGate(F, p)
  PROVE  Defines(F, G, p)
<1>1. PICK c \in F : /\ -p \in c
                     /\ Negated(c \ {-p}) \subseteq BinaryLiterals(F, p)
                     /\ G = {c} \cup {{p, -l} : l \in c \ {-p}}
  BY DEF FindAndGate
<1>2. c \subseteq GateLits /\ ~Tautological(c)
  BY GatesAssumption DEF GateLits
<1>3. \A l \in c \ {-p} : {p, -l} \in F
  BY <1>1 DEF Negated, BinaryLiterals
<1> QED
  BY <1>1, <1>2, <1>3, AndDefines

\* All clauses of one parity: for every assignment there is one whose other
\* literals are false, and two that agree in these do not differ in p only.
LEMMA FindXorGateDefines ==
  ASSUME NEW F \in GateFormulas, NEW p \in GateLits, NEW G \in FindXorGate(F, p)
  PROVE  Defines(F, G, p)
<1>1. PICK d \in F : p \in d /\ SameParity(d) \subseteq F /\ G = SameParity(d)
  BY DEF FindXorGate
<1>2. d \subseteq GateLits /\ ~Tautological(d)
  BY GatesAssumption DEF GateLits
<1> DEFINE Sgn(S) == Negated(S) \cup (d \ S)
           Even(S) == Cardinality(S) % 2 = 0
<1>3. \A c : c \in G <=> \E S \in SUBSET d : Even(S) /\ c = Sgn(S)
  BY <1>1 DEF SameParity
<1>4. \A l \in d : l \in GateLits /\ -l \in GateLits /\ -(-l) = l /\ -l \notin d
  BY <1>2, GateLitFacts DEF Tautological
<1>5. \A S \in SUBSET d, l \in d : /\ l \in Sgn(S) <=> l \notin S
                                   /\ -l \in Sgn(S) <=> l \in S
  BY <1>4 DEF Negated
<1>6. \A S \in SUBSET d : \A k \in Sgn(S) :
        \/ k \in d /\ k \notin S
        \/ \E l \in S : k = -l
  BY DEF Negated
<1>7. ASSUME NEW S \in SUBSET d, p \notin S
      PROVE  Even(S \cup {p}) <=> ~Even(S)
  <2>1. IsFiniteSet(S)
    BY <1>2, GateLitsFinite, FS_Subset
  <2>2. Cardinality(S) \in Nat /\ Cardinality(S \cup {p}) = Cardinality(S) + 1
    BY <2>1, <1>7, FS_AddElement, FS_CardinalityType
  <2>3. \A n \in Nat : (n + 1) % 2 = 0 <=> ~(n % 2 = 0)
    OBVIOUS
  <2> QED
    BY <2>2, <2>3
<1> HIDE DEF Even, Sgn
<1>8. \A c \in G : c \in F /\ (p \in c \/ -p \in c)
  BY <1>1, <1>3, <1>5
<1>9. ASSUME NEW T PROVE \E c \in G : ~SatClause(T, c \ {p, -p})
  <2> DEFINE S0 == {l \in d \ {p} : SatLit(T, l)}
  <2>1. ASSUME NEW S \in SUBSET d, S \ {p} = S0
        PROVE  ~SatClause(T, Sgn(S) \ {p, -p})
    <3> SUFFICES ASSUME NEW k \in Sgn(S) \ {p, -p} PROVE ~SatLit(T, k)
      BY DEF SatClause
    <3>1. CASE k \in d /\ k \notin S
      BY <2>1, <3>1
    <3>2. ASSUME NEW l \in S, k = -l PROVE ~SatLit(T, k)
      <4>1. l \in S0 /\ l \in GateLits
        BY <2>1, <3>2, <1>4
      <4> QED
        BY <3>2, <4>1, GateLitFacts
    <3> QED
      BY <3>1, <3>2, <1>6
  <2>2. S0 \in SUBSET d /\ p \notin S0 /\ S0 \cup {p} \in SUBSET d
        /\ S0 \ {p} = S0 /\ (S0 \cup {p}) \ {p} = S0
    BY <1>1
  <2> HIDE DEF S0
  <2>3. PICK S \in SUBSET d : Even(S) /\ S \ {p} = S0
    BY <2>2, <1>7
  <2>4. Sgn(S) \in G
    BY <2>3, <1>3
  <2> QED
    BY <2>1, <2>3, <2>4
<1>10. ASSUME NEW c \in G, NEW e \in G, p \in c, -p \in e
       PROVE  Tautological((c \ {p}) \cup (e \ {-p}))
  <2>1. PICK S1 \in SUBSET d : Even(S1) /\ c = Sgn(S1)
    BY <1>3
  <2>2. PICK S2 \in SUBSET d : Even(S2) /\ e = Sgn(S2)
    BY <1>3
  <2>3. p \notin S1 /\ p \in S2
    BY <1>1, <1>5, <1>10, <2>1, <2>2
  <2>4. S1 # S2 \ {p}
    <3> SUFFICES ASSUME S1 = S2 \ {p} PROVE FALSE
      OBVIOUS
    <3>1. S2 = S1 \cup {p}
      BY <2>3
    <3> QED
      BY <3>1, <2>1, <2>2, <2>3, <1>7
  <2>5. PICK l \in d : l # p /\ ~(l \in S1 <=> l \in S2)
    BY <2>3, <2>4
  <2>6. /\ l # -p /\ -l # p /\ -l # -p
        /\ (l \in c /\ -l \in e) \/ (-l \in c /\ l \in e)
    BY <2>1, <2>2, <2>5, <1>1, <1>4, <1>5
  <2>7. l \in (c \ {p}) \cup (e \ {-p}) /\ -l \in (c \ {p}) \cup (e \ {-p})
    BY <2>5, <2>6
  <2> QED
    BY <2>7 DEF Tautological
<1> QED
  BY <1>8, <1>9, <1>10 DEF Defines

\* The first search that finds something.
LEMMA FindGateClausesFinds ==
  ASSUME NEW F, NEW p, NEW G \in FindGateClauses(F, p)
  PROVE  \/ G = {}
         \/ G \in FindEquivalence(F, p) \/ G \in FindAndGate(F, p)
         \/ G \in FindAndGate(F, -p) \/ G \in FindIfThenElse(F, p)
         \/ G \in FindXorGate(F, p)
<1> DEFINE s == <<FindEquivalence(F, p), FindAndGate(F, p), FindAndGate(F, -p),
                  FindIfThenElse(F, p), FindXorGate(F, p)>>
           found == {i \in DOMAIN s : s[i] # {}}
           first == CHOOSE i \in found : \A j \in found : i <= j
<1>1. G \in IF found = {} THEN {{}} ELSE s[first]
  BY DEF FindGateClauses
<1>2. DOMAIN s = 1..5
  OBVIOUS
<1>3. \A i \in 1..5 : i = 1 \/ i = 2 \/ i = 3 \/ i = 4 \/ i = 5
  OBVIOUS
<1>4. /\ s[1] = FindEquivalence(F, p) /\ s[2] = FindAndGate(F, p)
      /\ s[3] = FindAndGate(F, -p) /\ s[4] = FindIfThenElse(F, p)
      /\ s[5] = FindXorGate(F, p)
  OBVIOUS
<1>5. found # {} => first \in 1..5
  <2>1. found \subseteq Nat /\ found \subseteq 1..5
    BY <1>2
  <2> HIDE DEF found
  <2> QED
    BY <2>1, NatLeast
<1> HIDE DEF s, found, first
<1> QED
  BY <1>1, <1>3, <1>4, <1>5

\* Every gate that variable elimination finds, by whichever search, defines
\* its pivot, for all formulas without tautologies.
THEOREM GatesFound == Spec => []GatesDefine
<1>1. ASSUME NEW F \in GateFormulas, NEW p \in GateLits,
             NEW G \in FindGateClauses(F, p)
      PROVE  R(F)!Gate(G, p)
  <2>1. -p \in GateLits
    BY GateLitFacts
  <2>2. CASE G = {}
    BY <2>2 DEF R!Gate
  <2>3. CASE G # {}
    <3>1. Defines(F, G, p)
      BY <2>1, <2>3, FindGateClausesFinds, FindEquivalenceDefines,
         FindAndGateDefines, FindIfThenElseDefines, FindXorGateDefines,
         GateSymmetric
    <3> QED
      BY <3>1, DefinesGate
  <2> QED
    BY <2>2, <2>3
<1>2. GatesDefine
  BY <1>1 DEF GatesDefine, GateLits
<1> QED
  BY <1>2, PTL
=============================================================================
