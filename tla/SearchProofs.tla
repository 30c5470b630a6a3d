---------------------------- MODULE SearchProofs ----------------------------
(***************************************************************************)
(* What holds in every state of the search: the trail is an implication    *)
(* graph of the clauses, a conflict is falsified, two watches per clause   *)
(* are enough, and the clauses say what the user said.  From that, what    *)
(* the user is told: a model satisfies the clauses, the assumptions and    *)
(* the constraint, the failed assumptions are a core, and the search       *)
(* implements the incremental solver of Ipasir.  Flips, at the end, answer *)
(* exactly as long as every clause is watched.                             *)
(***************************************************************************)
EXTENDS Flip, TrailProofs

-----------------------------------------------------------------------------
(* Trails that hold the same literals.                                     *)

\* Only the number of propagated literals differs.
SameLits(tr, u) == u.trail = tr.trail /\ u.control = tr.control

\* What the literals are does not depend on it.
LEMMA SameView ==
  ASSUME NEW tr, NEW u, SameLits(tr, u)
  PROVE  /\ Level(u) = Level(tr) /\ Positions(u) = Positions(tr)
         /\ \A l : Val(u, l) = Val(tr, l) /\ Pos(u, l) = Pos(tr, l)
                   /\ LevelOf(u, l) = LevelOf(tr, l)
<1>1. Level(u) = Level(tr) /\ Positions(u) = Positions(tr)
  BY DEF SameLits, Level, Positions
<1>2. TrueLits(u) = TrueLits(tr)
  BY <1>1 DEF SameLits, TrueLits
<1>3. \A l : Val(u, l) = Val(tr, l)
  BY <1>2 DEF Val
<1>4. \A l : Pos(u, l) = Pos(tr, l)
  BY <1>1 DEF SameLits, Pos
<1> QED
  BY <1>1, <1>3, <1>4 DEF SameLits, LevelOf

\* Nor does the implication graph.
LEMMA SameFounded ==
  ASSUME NEW chrono, NEW n, NEW d, NEW tr, Founded(chrono, n, d, tr), NEW u \in Trails, SameLits(tr, u),
         u.propagated <= Len(u.trail),
         Level(u) > 0 => u.control[Level(u)].trail <= u.propagated
  PROVE  /\ Founded(chrono, n, d, u)
         /\ \A T : RootHolds(T, u) <=> RootHolds(T, tr)
         /\ \A b, c : WatchOK(u, b, c) <=> WatchOK(tr, b, c)
<1>1. /\ Level(u) = Level(tr) /\ Positions(u) = Positions(tr)
      /\ \A l : Val(u, l) = Val(tr, l) /\ Pos(u, l) = Pos(tr, l)
                /\ LevelOf(u, l) = LevelOf(tr, l)
      /\ u.trail = tr.trail /\ u.control = tr.control
  BY SameView DEF SameLits
<1>2. Shape(u)
  <2>1. Distinct(u)
    BY <1>1 DEF Founded, Shape, Distinct
  <2>2. Heights(u)
    BY <1>1 DEF Founded, Shape, Heights
  <2>3. Placed(u)
    BY <1>1 DEF Founded, Shape, Placed
  <2> QED
    BY <2>1, <2>2, <2>3 DEF Shape
<1>3. Graph(d, u)
  <2>1. \A k \in Positions(tr) : Reasoned(d, tr, k) => Reasoned(d, u, k)
    BY <1>1 DEF Reasoned
  <2>2. \A k \in Positions(tr) : Protected(d, tr, k) => Protected(d, u, k)
    BY <1>1 DEF Protected
  <2> QED
    BY <1>1, <2>1, <2>2 DEF Founded, Graph
<1>4. Over(n, u) /\ (chrono = 0 => Ordered(u))
  BY <1>1 DEF Founded, Over, Ordered
<1>5. \A T : RootHolds(T, u) <=> RootHolds(T, tr)
  BY <1>1 DEF RootHolds
<1>6. \A b, c : WatchOK(u, b, c) <=> WatchOK(tr, b, c)
  BY <1>1 DEF WatchOK, DoneTo, Cover
<1> QED
  BY <1>2, <1>3, <1>4, <1>5, <1>6 DEF Founded

-----------------------------------------------------------------------------
(* More variables.                                                         *)

\* The literals over more variables.
LEMMA MoreLits ==
  ASSUME NEW m \in Nat, NEW n \in Nat, m <= n
  PROVE  LitsOf(m) \subseteq LitsOf(n)
BY DEF LitsOf

\* A solver with more variables.
LEMMA MoreVariables ==
  ASSUME NEW m \in Nat, NEW n \in Nat, m <= n, NEW chrono, NEW d, NEW tr, Founded(chrono, m, d, tr)
  PROVE  Founded(chrono, n, d, tr)
<1>1. LitsOf(m) \subseteq LitsOf(n)
  BY MoreLits
<1>2. Clauses(m) \subseteq Clauses(n)
  BY <1>1 DEF Clauses
<1> QED
  BY <1>1, <1>2 DEF Founded, IsDatabase, Over

-----------------------------------------------------------------------------
(* Backtracking and deciding.                                              *)

\* Going back to a level keeps everything but the literals above it.
LEMMA SearchBacktrack ==
  ASSUME NEW n \in Nat, NEW chrono, NEW d, NEW tr, Founded(chrono, n, d, tr),
         NEW m \in 0..Level(tr)
  PROVE  LET u == Backtrack(tr, m)
         IN  /\ Founded(chrono, n, d, u) /\ KeepsLevels(tr, u, m) /\ Level(u) = m
             /\ Retains(tr, u)
             /\ \A T : RootHolds(T, u) <=> RootHolds(T, tr)
             /\ AllWatched(tr, d) => AllWatched(u, d)
<1> DEFINE u == Backtrack(tr, m)
<1>1. IsDatabase(n, d) /\ Shape(tr) /\ Over(n, tr) /\ Graph(d, tr) /\ m \in Nat /\ m <= Level(tr)
  BY DEF Founded
<1>2. Shape(u) /\ KeepsLevels(tr, u, m)
  BY <1>1, BacktrackShape
<1> HIDE DEF u
<1>3. Graph(d, u)
  BY <1>1, <1>2, GraphBacktrack DEF Graph
<1>4. Over(n, u) /\ Level(u) = m /\ Retains(tr, u)
  BY <1>1, <1>2, OverBacktrack, RetainsBacktrack DEF KeepsLevels
<1>5. chrono = 0 => Ordered(u)
  BY <1>1, <1>2, OrderedBacktrack DEF Founded
<1>6. \A T : RootHolds(T, u) <=> RootHolds(T, tr)
  BY <1>1, <1>2, RootBacktrack
<1>7. ASSUME AllWatched(tr, d) PROVE AllWatched(u, d)
  <2> SUFFICES ASSUME NEW i \in DOMAIN d, ~d[i].garbage PROVE WatchOK(u, u.propagated, d[i])
    BY DEF AllWatched
  <2>1. WatchOK(tr, tr.propagated, d[i]) /\ d[i] \in Clauses(n)
    BY <1>1, <1>7, ClauseTypes DEF AllWatched
  <2>2. CASE m = Level(tr)
    BY <1>2, <2>1, <2>2 DEF KeepsLevels
  <2>3. CASE m < Level(tr)
    <3>1. tr.control[m + 1].trail <= tr.propagated /\ tr.propagated \in Nat
      <4>1. /\ Level(tr) \in Nat /\ tr.propagated \in Nat
            /\ \A x \in 1..Level(tr) : tr.control[x].trail \in Nat
        BY <1>1, TrailTypes DEF Shape
      <4>2. m + 1 \in 1..Level(tr) /\ Level(tr) \in m + 1..Level(tr) /\ Level(tr) \in 1..Level(tr)
        BY <1>1, <2>3, <4>1
      <4>3. tr.control[m + 1].trail <= tr.control[Level(tr)].trail
        BY <1>1, <4>2 DEF Shape, Heights
      <4>4. tr.control[Level(tr)].trail <= tr.propagated
        BY <1>1, <2>3, <4>1 DEF Shape
      <4> QED
        BY <4>1, <4>2, <4>3, <4>4
    <3> QED
      BY <1>1, <1>2, <2>1, <2>3, <3>1, WatchBacktrack
  <2> QED
    BY <1>1, <2>2, <2>3, TrailTypes DEF Shape
<1> QED
  BY <1>1, <1>2, <1>3, <1>4, <1>5, <1>6, <1>7 DEF Founded, u

\* A new level on top of an ordered trail, with its decision or without one.
LEMMA OrderedNewLevel ==
  ASSUME NEW tr, Shape(tr), Ordered(tr), NEW u, Shape(u), NEW lit \in Int, NewLevel(tr, u, lit),
         \A k \in Positions(u) :
           (k <= Len(tr.trail) /\ u.trail[k] = tr.trail[k]) \/ u.trail[k].level = Level(u)
  PROVE  Ordered(u)
<1> SUFFICES ASSUME NEW k \in Positions(u), NEW i \in 1..Level(u), u.control[i].trail < k
             PROVE  i <= u.trail[k].level
  BY DEF Ordered
<1>1. /\ Level(u) = Level(tr) + 1 /\ Level(tr) \in Nat
      /\ \A x \in 1..Level(tr) : u.control[x] = tr.control[x]
      /\ u.control[Level(u)] = [trail |-> Len(tr.trail), decision |-> lit]
  BY NewLevelView DEF Shape
<1>2. k \in Nat /\ Len(tr.trail) \in Nat /\ Len(u.trail) \in Nat /\ k >= 1
  <2>1. Len(tr.trail) \in Nat /\ Len(u.trail) \in Nat
    BY TrailTypes DEF Shape
  <2> QED
    BY <2>1 DEF Positions
<1>3. CASE u.trail[k].level = Level(u)
  BY <1>1, <1>3
<1>4. CASE k <= Len(tr.trail) /\ u.trail[k] = tr.trail[k]
  <2>1. k \in Positions(tr)
    BY <1>2, <1>4 DEF Positions
  <2>2. i # Level(u)
    BY <1>1, <1>2, <1>4
  <2>3. i \in 1..Level(tr)
    BY <2>2, <1>1
  <2> QED
    BY <1>1, <1>4, <2>1, <2>3 DEF Ordered
<1> QED
  BY <1>3, <1>4

\* What a new level keeps.
Opens(chrono, n, d, tr, u) ==
  /\ Founded(chrono, n, d, u) /\ Extends(tr, u) /\ Level(u) = Level(tr) + 1
  /\ AllWatched(u, d) /\ \A T : RootHolds(T, u) <=> RootHolds(T, tr)

\* The watches on a trail that got a new level.
LEMMA WatchedOpens ==
  ASSUME NEW n \in Nat, NEW d, IsDatabase(n, d), NEW tr, Shape(tr), NEW u, Shape(u), Extends(tr, u),
         AllWatched(tr, d)
  PROVE  AllWatched(u, d)
<1> SUFFICES ASSUME NEW i \in DOMAIN d, ~d[i].garbage PROVE WatchOK(u, u.propagated, d[i])
  BY DEF AllWatched
<1>1. WatchOK(tr, tr.propagated, d[i]) /\ d[i] \in Clauses(n)
  BY ClauseTypes DEF AllWatched
<1>2. u.propagated = tr.propagated /\ tr.propagated \in Nat /\ tr.propagated <= Len(tr.trail)
  BY TrailTypes DEF Shape, Extends
<1> QED
  BY <1>1, <1>2, WatchExtends

\* A level that decides nothing.
LEMMA OpensPseudo ==
  ASSUME NEW n \in Nat, NEW chrono, NEW d, NEW tr, Founded(chrono, n, d, tr), AllWatched(tr, d),
         tr.propagated = Len(tr.trail)
  PROVE  LET u == NewTrailLevel(tr, 0)
         IN  Opens(chrono, n, d, tr, u) /\ u.trail = tr.trail /\ u.control[Level(tr) + 1].decision = 0
<1> DEFINE u == NewTrailLevel(tr, 0)
<1>1. IsDatabase(n, d) /\ Shape(tr) /\ Over(n, tr) /\ Graph(d, tr)
  BY DEF Founded
<1>2. Shape(u) /\ u.trail = tr.trail /\ NewLevel(tr, u, 0)
  BY <1>1, PseudoLevelShape
<1> HIDE DEF u
<1>3. Extends(tr, u)
  BY <1>1, <1>2, PseudoLevelExtends
<1>4. /\ Level(u) = Level(tr) + 1 /\ Positions(u) = Positions(tr)
      /\ u.control[Level(u)] = [trail |-> Len(tr.trail), decision |-> 0]
  BY <1>1, <1>2, NewLevelView DEF Shape, Positions
<1>5. TrueLits(u) = TrueLits(tr)
  BY <1>2, <1>4 DEF TrueLits
<1>6. \A l : Val(u, l) = Val(tr, l) /\ Pos(u, l) = Pos(tr, l) /\ LevelOf(u, l) = LevelOf(tr, l)
  BY <1>2, <1>4, <1>5 DEF Val, Pos, LevelOf
<1>7. Graph(d, u)
  <2>1. \A k \in Positions(tr) : Reasoned(d, tr, k) => Reasoned(d, u, k)
    BY <1>2, <1>6 DEF Reasoned
  <2>2. \A k \in Positions(tr) : Protected(d, tr, k) => Protected(d, u, k)
    BY <1>2 DEF Protected
  <2> QED
    BY <1>1, <1>4, <2>1, <2>2 DEF Graph
<1>8. Over(n, u) /\ \A T : RootHolds(T, u) <=> RootHolds(T, tr)
  BY <1>1, <1>2, <1>4 DEF Over, RootHolds
<1>9. chrono = 0 => Ordered(u)
  <2>1. \A k \in Positions(u) : k <= Len(tr.trail) /\ u.trail[k] = tr.trail[k]
    BY <1>2, <1>4 DEF Positions
  <2> QED
    BY <1>1, <1>2, <2>1, OrderedNewLevel DEF Founded
<1>10. AllWatched(u, d)
  BY <1>1, <1>2, <1>3, WatchedOpens
<1> QED
  BY <1>1, <1>2, <1>3, <1>4, <1>7, <1>8, <1>9, <1>10 DEF Founded, Opens, u

\* A decision.
LEMMA OpensDecision ==
  ASSUME NEW n \in Nat, NEW chrono, NEW d, NEW tr, Founded(chrono, n, d, tr), AllWatched(tr, d),
         tr.propagated = Len(tr.trail), NEW lit \in LitsOf(n), Val(tr, lit) = 0,
         NEW u, u = AssumeDecision(tr, lit)
  PROVE  /\ Opens(chrono, n, d, tr, u) /\ Val(u, lit) = 1 /\ LevelOf(u, lit) = Level(tr) + 1
         /\ u.control[Level(tr) + 1].decision = lit
<1> DEFINE e == [lit |-> lit, level |-> Level(tr) + 1, reason |-> NoReason]
<1>1. IsDatabase(n, d) /\ Shape(tr) /\ Over(n, tr) /\ Graph(d, tr) /\ tr \in Trails /\ Distinct(tr)
  BY DEF Founded, Shape
<1>2. lit \in Int /\ lit # 0
  BY LitFacts
<1>3. Shape(u) /\ NewLevel(tr, u, lit) /\ OnTop(tr, u, e)
  <2> DEFINE v == AssumeDecision(tr, lit)
  <2>1. Shape(v) /\ NewLevel(tr, v, lit) /\ OnTop(tr, v, e)
    BY <1>1, <1>2, DecisionShape
  <2>2. u = v
    OBVIOUS
  <2> HIDE DEF v
  <2> QED
    BY <2>1, <2>2
<1>4. Level(tr) \in Nat /\ Len(tr.trail) \in Nat
  BY <1>1, TrailTypes
<1>5. e \in Assignments /\ e.lit = lit /\ e.level = Level(tr) + 1 /\ e.reason = NoReason
  BY <1>2, <1>4 DEF Assignments, NoReason
<1> HIDE DEF e
<1>6. u \in Trails /\ e.lit # 0 /\ Val(tr, e.lit) = 0 /\ u.propagated = tr.propagated
  BY <1>2, <1>3, <1>5 DEF Shape, NewLevel
<1>7. Extends(tr, u)
  BY <1>1, <1>2, <1>3, <1>5, <1>6, OnTopExtends
<1>8. /\ Level(u) = Level(tr) + 1
      /\ u.control[Level(u)] = [trail |-> Len(tr.trail), decision |-> lit]
  BY <1>1, <1>2, <1>3, NewLevelView
<1>9. /\ Positions(u) = Positions(tr) \cup {Len(tr.trail) + 1}
      /\ \A k \in Positions(tr) : u.trail[k] = tr.trail[k]
      /\ u.trail[Len(tr.trail) + 1] = e
      /\ Val(u, lit) = 1 /\ LevelOf(u, lit) = Level(tr) + 1
  BY <1>1, <1>2, <1>3, <1>5, <1>6, OnTopView
<1>10. Graph(d, u)
  BY <1>1, <1>3, <1>5, <1>6, GraphOnTop
<1>11. Over(n, u)
  BY <1>1, <1>5, <1>9 DEF Over
<1>12. \A T : RootHolds(T, u) <=> RootHolds(T, tr)
  <2>1. \A T : RootHolds(T, u) <=> RootHolds(T, tr) /\ (e.level = 0 => SatLit(T, e.lit))
    BY <1>1, <1>3, <1>5, <1>6, RootOnTop
  <2>2. e.level # 0
    BY <1>4, <1>5
  <2> QED
    BY <2>1, <2>2
<1>13. chrono = 0 => Ordered(u)
  <2>1. \A k \in Positions(u) :
          (k <= Len(tr.trail) /\ u.trail[k] = tr.trail[k]) \/ u.trail[k].level = Level(u)
    <3>1. \A k \in Positions(tr) : k <= Len(tr.trail)
      BY DEF Positions
    <3>2. u.trail[Len(tr.trail) + 1].level = Level(u)
      BY <1>5, <1>8, <1>9
    <3> QED
      BY <3>1, <3>2, <1>9
  <2> QED
    BY <1>1, <1>2, <1>3, <2>1, OrderedNewLevel DEF Founded
<1>14. AllWatched(u, d)
  BY <1>1, <1>3, <1>7, WatchedOpens
<1> QED
  BY <1>1, <1>3, <1>7, <1>8, <1>9, <1>10, <1>11, <1>12, <1>13, <1>14 DEF Founded, Opens, e

-----------------------------------------------------------------------------
(* The invariant.                                                          *)

\* The types of the state.
RoundType == [add : Seq(ClausesAdded), assume : Seq(LitsOf(MaxVar)),
              constrain : SUBSET SUBSET LitsOf(MaxVar)]

ApiTypes ==
  /\ opts \in Options
  /\ input \in Seq(RoundType)
  /\ maxVar \in Nat /\ maxVar <= MaxVar
  /\ original \subseteq SUBSET LitsOf(maxVar)
  /\ assumptions \in Seq(LitsOf(maxVar))
  /\ constrained \subseteq SUBSET LitsOf(maxVar)
  /\ constraint \subseteq LitsOf(maxVar)

\* The types of what the search loop keeps.
FlowTypes ==
  /\ pc \in {"ready", "search", "reduce", "done"}
  /\ result \in {0, 10, 20}
  /\ unsat \in BOOLEAN /\ unsatConstraint \in BOOLEAN /\ fresh \in BOOLEAN
  /\ reductions \in Nat /\ reductions <= MaxReductions

\* The trail is an implication graph of the clauses.
GraphInv == Founded(opts.chrono, maxVar, db, t)

\* When there may be clauses left to visit, or a conflict that is not handled.
QuietInv ==
  /\ todo # {} => ~unsat
  /\ todo # {} \/ conflict # 0 =>
       unsat \/ pc \in {"search", "reduce"} \/ (pc = "ready" /\ Level(t) = 0)
  /\ pc = "reduce" => Level(t) = 0 \/ (Propagated /\ ~OutOfOrderUnits(t))
  /\ unsatConstraint /\ ~unsat /\ pc # "ready" => Propagated
  /\ unsatConstraint /\ pc = "ready" => Level(t) = 0

\* The literal being propagated is on the current level or above its start.
Visiting ==
  /\ t.propagated > 0
  /\ Level(t) > 0 => t.control[Level(t)].trail < t.propagated

\* Clauses are visited because they watch its negation.
VisitInv ==
  /\ todo \subseteq DOMAIN db
  /\ todo # {} => Visiting
  /\ \A i \in todo : PropagatedLit \in db[i].watch

\* A conflict is a falsified clause, and without chronological backtracking
\* one of the current level.
ConflictInv ==
  ~unsat /\ conflict # 0 =>
    /\ Visiting
    /\ conflict \in DOMAIN db /\ FalseLits(maxVar, t, db[conflict].lits)
    /\ opts.chrono = 0 => \E l \in db[conflict].lits : LevelOf(t, l) = Level(t)
    /\ Cardinality(db[conflict].lits) > 2 => ~db[conflict].garbage

\* The literals up to which the watches of clause i are right.
Bound(i) == IF i \in todo \/ conflict # 0 THEN t.propagated - 1 ELSE t.propagated

\* Every clause can rely on its watches up to its bound.
WatchInv ==
  ~unsat => \A i \in DOMAIN db : ~db[i].garbage => WatchOK(t, Bound(i), db[i])

\* The clauses say what the user said.
FormulaInv ==
  /\ ~unsat => /\ \A T : SatFormula(T, original) => Good(T, t, db)
               /\ \A T : RootHolds(T, t) /\ CoreHolds(T, db) => SatFormula(T, original)
  /\ unsat => \A T : ~SatFormula(T, original)

\* The parts about the trail and the clauses.
CoreInv ==
  GraphInv /\ QuietInv /\ VisitInv /\ ConflictInv /\ WatchInv /\ FormulaInv

\* The inductive invariant of the search.
SearchInv == ApiTypes /\ FlowTypes /\ CoreInv

\* The constants.
LEMMA ConstantTypes ==
  /\ MaxVar \in Nat /\ MaxReductions \in Nat
  /\ Rounds \subseteq Seq(RoundType)
  /\ \A o \in Options : o.chrono \in 0..2
<1>1. MaxVar \in Nat /\ MaxReductions \in Nat /\ \A o \in Options : o.chrono \in 0..2
  BY SearchAssumption
<1>2. Rounds \subseteq Seq(RoundType)
  BY SearchAssumption, Zenon DEF RoundType
<1> QED
  BY <1>1, <1>2

\* The options.
LEMMA OptionTypes ==
  ASSUME ApiTypes
  PROVE  opts.chrono \in Nat /\ opts.chrono \in 0..2
BY ConstantTypes DEF ApiTypes

\* Some conjuncts of the invariant.
LEMMA GraphFacts ==
  ASSUME SearchInv
  PROVE  /\ IsDatabase(maxVar, db) /\ Shape(t) /\ t \in Trails /\ Over(maxVar, t) /\ Graph(db, t)
         /\ maxVar \in Nat /\ opts.chrono \in Nat
         /\ Level(t) \in Nat /\ Len(t.trail) \in Nat /\ t.propagated \in Nat
         /\ t.propagated <= Len(t.trail)
<1>1. IsDatabase(maxVar, db) /\ Shape(t) /\ Over(maxVar, t) /\ Graph(db, t)
  BY DEF SearchInv, CoreInv, GraphInv, Founded
<1>2. maxVar \in Nat /\ opts.chrono \in Nat
  BY OptionTypes DEF SearchInv, ApiTypes
<1>3. t \in Trails /\ t.propagated <= Len(t.trail)
  BY <1>1 DEF Shape
<1> QED
  BY <1>1, <1>2, <1>3, TrailTypes

\* It holds of a new solver.
LEMMA SearchInvInit ==
  ASSUME Init
  PROVE  SearchInv
<1>1. ApiTypes
  <2>1. opts \in Options /\ input \in Seq(RoundType) /\ maxVar = 0 /\ maxVar <= MaxVar
    BY ConstantTypes DEF Init, InitWith
  <2>2. /\ original = {} /\ assumptions = <<>> /\ constrained = {} /\ constraint = {}
    BY DEF Init, InitWith
  <2> QED
    BY <2>1, <2>2 DEF ApiTypes
<1>2. FlowTypes
  <2>1. unsat = FALSE /\ unsatConstraint = FALSE /\ fresh = FALSE
    BY DEF Init, InitWith
  <2>2. pc = "ready" /\ result = 0 /\ reductions = 0 /\ 0 <= MaxReductions
    BY ConstantTypes DEF Init, InitWith
  <2> HIDE DEF Init
  <2>3. unsat \in BOOLEAN /\ unsatConstraint \in BOOLEAN /\ fresh \in BOOLEAN
    BY ONLY <2>1
  <2>4. pc \in {"ready", "search", "reduce", "done"} /\ result \in {0, 10, 20}
        /\ reductions \in Nat /\ reductions <= MaxReductions
    BY ONLY <2>2
  <2> QED
    BY <2>3, <2>4 DEF FlowTypes
<1>3. DOMAIN db = {} /\ Len(t.trail) = 0 /\ Level(t) = 0 /\ Positions(t) = {}
      /\ t.propagated = 0
  BY DEF Init, InitWith, EmptyTrail, Level, Positions
<1>4. GraphInv
  <2>1. t \in Trails
    BY DEF Init, InitWith, EmptyTrail, Trails
  <2>2. Shape(t)
    BY <1>3, <2>1 DEF Shape, Distinct, Heights, Placed
  <2>3. IsDatabase(maxVar, db)
    <3>1. db = [i \in DOMAIN db |-> db[i]]
      BY DEF Init, InitWith
    <3> QED
      BY <1>3, <3>1, FS_EmptySet DEF IsDatabase
  <2> QED
    BY <1>3, <2>2, <2>3 DEF GraphInv, Founded, Over, Graph, Ordered
<1>5. QuietInv /\ VisitInv /\ ConflictInv /\ WatchInv
  BY <1>3 DEF Init, InitWith, QuietInv, VisitInv, ConflictInv, WatchInv
<1>6. FormulaInv
  BY <1>3 DEF Init, InitWith, FormulaInv, SatFormula, Good, RootHolds, AllHold
<1> QED
  BY <1>1, <1>2, <1>4, <1>5, <1>6 DEF SearchInv, CoreInv

-----------------------------------------------------------------------------
(* Propagation.                                                            *)

\* The literal that is propagated.
LEMMA VisitFacts ==
  ASSUME SearchInv, Visiting
  PROVE  LET p == t.propagated
             w == PropagatedLit
         IN  /\ p \in Positions(t) /\ p \in Nat /\ p > 0
             /\ w \in LitsOf(maxVar) /\ w \in Int /\ Val(t, w) = -1 /\ Pos(t, w) = p
             /\ opts.chrono = 0 => LevelOf(t, w) = Level(t)
             /\ \A l \in Int : Val(t, l) = -1 /\ Pos(t, l) = p => l = w
<1> DEFINE p == t.propagated
           w == PropagatedLit
<1>1. /\ Shape(t) /\ t \in Trails /\ Distinct(t) /\ Over(maxVar, t) /\ Level(t) \in Nat
      /\ p \in Nat /\ p <= Len(t.trail) /\ Len(t.trail) \in Nat
  BY GraphFacts DEF Shape
<1>2. p \in Positions(t) /\ p > 0
  BY <1>1 DEF Visiting, Positions
<1>3. w = -t.trail[p].lit
  BY DEF PropagatedLit
<1> HIDE DEF w
<1>4. w \in LitsOf(maxVar) /\ w \in Int /\ Val(t, w) = -1 /\ Pos(t, w) = p
      /\ LevelOf(t, w) = t.trail[p].level
  BY <1>1, <1>2, <1>3, NegationAt
<1>5. ASSUME opts.chrono = 0 PROVE LevelOf(t, w) = Level(t)
  <2>1. Ordered(t) /\ t.trail[p].level \in Nat /\ t.trail[p].level <= Level(t)
    BY <1>1, <1>2, <1>5, TrailTypes DEF SearchInv, CoreInv, GraphInv, Founded, Shape, Placed
  <2>2. CASE Level(t) = 0
    BY <1>4, <2>1, <2>2
  <2>3. CASE Level(t) > 0
    <3>1. Level(t) \in 1..Level(t) /\ t.control[Level(t)].trail < p
      BY <1>1, <2>3 DEF Visiting
    <3>2. Level(t) <= t.trail[p].level
      BY <1>2, <2>1, <3>1 DEF Ordered
    <3> QED
      BY <1>1, <1>4, <2>1, <3>2
  <2> QED
    BY <1>1, <2>2, <2>3
<1>6. ASSUME NEW l \in Int, Val(t, l) = -1, Pos(t, l) = p PROVE l = w
  <2>1. t.trail[Pos(t, l)].lit = -l
    BY <1>1, <1>6, AssignedFacts
  <2> QED
    BY <1>3, <1>6, <2>1
<1> QED
  BY <1>1, <1>2, <1>4, <1>5, <1>6 DEF w

\* The next literal of the trail.
LEMMA PropagateLiteralStep ==
  ASSUME SearchInv, PropagateLiteral
  PROVE  CoreInv'
<1> DEFINE p == t.propagated + 1
<1>1. /\ IsDatabase(maxVar, db) /\ Shape(t) /\ t \in Trails /\ maxVar \in Nat
      /\ Level(t) \in Nat /\ Len(t.trail) \in Nat /\ t.propagated \in Nat
  BY GraphFacts
<1>2. /\ t' = [trail |-> t.trail, control |-> t.control, propagated |-> p]
      /\ p <= Len(t.trail) /\ ~unsat /\ conflict = 0 /\ todo = {}
      /\ todo' = {i \in DOMAIN db : -t.trail[p].lit \in db[i].watch}
      /\ UNCHANGED <<opts, maxVar, original, db, conflict, unsat, unsatConstraint, pc>>
      /\ (pc \in {"search", "reduce"} \/ (pc = "ready" /\ Level(t) = 0))
  <2>1. t' = [t EXCEPT !.propagated = p]
    BY DEF PropagateLiteral
  <2>2. t' = [trail |-> t.trail, control |-> t.control, propagated |-> p]
    BY <1>1, <2>1, TrailFields
  <2>3. t.propagated < Len(t.trail)
    BY DEF PropagateLiteral
  <2>4. p <= Len(t.trail)
    BY <1>1, <2>3
  <2> QED
    BY <2>2, <2>4 DEF PropagateLiteral, Propagating, apiVars
<1>3. t' \in Trails /\ SameLits(t, t')
  BY <1>1, <1>2 DEF Trails, SameLits
<1>4. t'.propagated = p /\ t'.trail = t.trail /\ t'.control = t.control
  BY <1>2
<1>5. /\ Level(t') = Level(t) /\ Positions(t') = Positions(t)
      /\ \A l : Val(t', l) = Val(t, l) /\ Pos(t', l) = Pos(t, l)
                /\ LevelOf(t', l) = LevelOf(t, l)
  BY <1>3, SameView
<1>6. Level(t) > 0 => t.control[Level(t)].trail < p
  <2>1. Level(t) > 0 => /\ t.control[Level(t)].trail <= t.propagated
                        /\ t.control[Level(t)].trail \in Nat
    BY <1>1, TrailTypes DEF Shape
  <2> QED
    BY <1>1, <2>1
<1>7. /\ Founded(opts.chrono, maxVar, db, t')
      /\ \A T : RootHolds(T, t') <=> RootHolds(T, t)
      /\ \A b, c : WatchOK(t', b, c) <=> WatchOK(t, b, c)
  <2>1. Founded(opts.chrono, maxVar, db, t)
    BY DEF SearchInv, CoreInv, GraphInv
  <2>2. t'.propagated <= Len(t'.trail)
    BY <1>2, <1>4
  <2>3. Level(t') > 0 => t'.control[Level(t')].trail <= t'.propagated
    <3>1. Level(t) > 0 => t.control[Level(t)].trail \in Nat
      BY <1>1, TrailTypes
    <3> QED
      BY <1>1, <1>4, <1>5, <1>6, <3>1
  <2> QED
    BY <1>3, <2>1, <2>2, <2>3, SameFounded
<1>8. GraphInv'
  BY <1>2, <1>7 DEF GraphInv
<1>9. ~Propagated
  BY <1>1, <1>2 DEF Propagated
<1>10. QuietInv'
  BY <1>2, <1>5, <1>9 DEF QuietInv, SearchInv, CoreInv
<1>11. Visiting'
  BY <1>1, <1>4, <1>5, <1>6 DEF Visiting
<1>12. VisitInv'
  BY <1>2, <1>4, <1>11 DEF VisitInv, PropagatedLit
<1>13. ConflictInv'
  BY <1>2 DEF ConflictInv
<1>14. FormulaInv'
  BY <1>2, <1>7 DEF FormulaInv, SearchInv, CoreInv, Good
<1>15. WatchInv'
  <2> SUFFICES ASSUME NEW i \in DOMAIN db, ~db[i].garbage
               PROVE  WatchOK(t', Bound(i)', db[i])
    BY <1>2 DEF WatchInv
  <2>1. WatchOK(t, t.propagated, db[i]) /\ db[i] \in Clauses(maxVar)
    BY <1>1, <1>2, ClauseTypes DEF WatchInv, SearchInv, CoreInv, Bound
  <2>2. CASE i \in todo'
    <3>1. Bound(i)' = t.propagated
      BY <1>1, <1>4, <2>2 DEF Bound
    <3> QED
      BY <1>7, <2>1, <3>1
  <2>3. CASE i \notin todo'
    <3>1. Bound(i)' = p /\ -t.trail[p].lit \notin db[i].watch
      BY <1>2, <1>4, <2>3 DEF Bound
    <3>2. ASSUME NEW w \in db[i].watch, DoneTo(t, p, w) PROVE DoneTo(t, t.propagated, w)
      <4>1. w \in Int
        BY <1>1, <2>1, WatchLits
      <4>2. Val(t, w) = -1 /\ Pos(t, w) <= p
        BY <3>2 DEF DoneTo
      <4>3. Pos(t, w) \in Nat /\ t.trail[Pos(t, w)].lit = -w
        BY <1>1, <4>1, <4>2, AssignedFacts
      <4>4. Pos(t, w) # p
        <5> SUFFICES ASSUME Pos(t, w) = p PROVE FALSE
          OBVIOUS
        <5>1. w = -t.trail[p].lit
          BY <4>1, <4>3
        <5> QED
          BY <3>1, <5>1
      <4> QED
        BY <1>1, <4>2, <4>3, <4>4 DEF DoneTo
    <3>3. WatchOK(t, p, db[i])
      BY <2>1, <3>2 DEF WatchOK
    <3> QED
      BY <1>7, <3>1, <3>3
  <2> QED
    BY <2>2, <2>3
<1> QED
  BY <1>8, <1>10, <1>12, <1>13, <1>14, <1>15 DEF CoreInv

\* A trail with at most another implied literal.
Grows(tr, u) ==
  /\ Shape(u) /\ Extends(tr, u) /\ Level(u) = Level(tr)
  /\ \A k \in Positions(tr) : k \in Positions(u) /\ u.trail[k] = tr.trail[k]

\* The trail itself.
LEMMA GrowsSelf ==
  ASSUME NEW tr, Shape(tr)
  PROVE  Grows(tr, tr)
<1>1. Level(tr) \in Nat
  BY TrailTypes DEF Shape
<1> QED
  BY <1>1 DEF Grows, Extends

\* One with an implied literal.
LEMMA GrowsImplied ==
  ASSUME NEW tr, Shape(tr), NEW u, Shape(u), NEW e, ImpliedOnTop(tr, u, e)
  PROVE  Grows(tr, u) /\ Val(u, e.lit) = 1
<1>1. /\ tr \in Trails /\ u \in Trails /\ Distinct(tr) /\ e \in Assignments /\ e.lit # 0
      /\ Val(tr, e.lit) = 0 /\ OnTop(tr, u, e) /\ u.propagated = tr.propagated
      /\ u.control = tr.control
  BY DEF Shape, ImpliedOnTop
<1>2. Extends(tr, u)
  BY <1>1, OnTopExtends
<1>3. e.lit \in Int
  BY <1>1 DEF Assignments
<1>4. /\ Positions(u) = Positions(tr) \cup {Len(tr.trail) + 1}
      /\ \A k \in Positions(tr) : u.trail[k] = tr.trail[k]
      /\ Val(u, e.lit) = 1
  BY <1>1, <1>3, OnTopView
<1> QED
  BY <1>1, <1>2, <1>4 DEF Grows, Level

\* The watches of a clause on a trail that grew.
LEMMA WatchGrows ==
  ASSUME NEW n \in Nat, NEW tr, Shape(tr), NEW u, Grows(tr, u), NEW c \in Clauses(n),
         NEW b \in Nat, NEW a \in Nat, a <= b, b <= Len(tr.trail), WatchOK(tr, b, c)
  PROVE  WatchOK(u, a, c)
<1>1. Len(tr.trail) \in Nat /\ Shape(u) /\ Extends(tr, u)
  BY TrailTypes DEF Shape, Grows
<1>2. WatchOK(tr, a, c)
  BY WatchWeaker
<1>3. a <= Len(tr.trail)
  BY <1>1
<1> QED
  BY <1>1, <1>2, <1>3, WatchExtends

\* What is visited while there are clauses left to visit.
LEMMA TodoFacts ==
  ASSUME SearchInv, NEW i \in todo
  PROVE  /\ ~unsat /\ Visiting /\ i \in DOMAIN db /\ PropagatedLit \in db[i].watch
         /\ pc = "reduce" => Level(t) = 0
         /\ unsatConstraint => pc = "ready"
         /\ pc \in {"search", "reduce"} \/ (pc = "ready" /\ Level(t) = 0)
<1>1. QuietInv /\ VisitInv /\ todo # {}
  BY DEF SearchInv, CoreInv
<1>2. ~Propagated
  BY <1>1 DEF Propagated
<1> QED
  BY <1>1, <1>2 DEF QuietInv, VisitInv

\* What a visit does not disturb.
LEMMA VisitRest ==
  ASSUME SearchInv, NEW i \in todo, Grows(t, t'),
         UNCHANGED <<opts, maxVar, original, unsat, unsatConstraint, pc>>,
         todo' \subseteq todo \ {i}, DOMAIN db' = DOMAIN db,
         \A j \in DOMAIN db \ {i} : db'[j] = db[j]
  PROVE  QuietInv' /\ VisitInv' /\ Visiting'
<1>1. /\ ~unsat /\ Visiting
      /\ pc = "reduce" => Level(t) = 0
      /\ unsatConstraint => pc = "ready"
      /\ pc \in {"search", "reduce"} \/ (pc = "ready" /\ Level(t) = 0)
  BY TodoFacts
<1>2. /\ Level(t') = Level(t) /\ t'.propagated = t.propagated
      /\ \A x \in 1..Level(t) : t'.control[x] = t.control[x]
      /\ \A k \in Positions(t) : t'.trail[k] = t.trail[k]
  BY DEF Grows, Extends
<1>3. QuietInv'
  BY <1>1, <1>2 DEF QuietInv, SearchInv, CoreInv
<1>4. Visiting'
  <2>1. Level(t) \in Nat
    BY GraphFacts
  <2>2. Level(t) > 0 => Level(t) \in 1..Level(t)
    BY <2>1
  <2> QED
    BY <1>1, <1>2, <2>2 DEF Visiting
<1>5. PropagatedLit' = PropagatedLit
  BY <1>1, <1>2, VisitFacts DEF PropagatedLit
<1>6. VisitInv'
  <2>1. VisitInv
    BY DEF SearchInv, CoreInv
  <2> QED
    BY <1>4, <1>5, <2>1 DEF VisitInv
<1> QED
  BY <1>3, <1>4, <1>6

\* A conflict that was found is still one.
LEMMA VisitConflict ==
  ASSUME SearchInv, NEW i \in todo, Grows(t, t'), UNCHANGED <<opts, maxVar, unsat, conflict, db>>,
         Visiting'
  PROVE  ConflictInv'
<1> SUFFICES ASSUME ~unsat, conflict # 0
             PROVE  /\ FalseLits(maxVar, t', db[conflict].lits)
                    /\ opts.chrono = 0 => \E l \in db[conflict].lits : LevelOf(t', l) = Level(t')
                    /\ conflict \in DOMAIN db
                    /\ Cardinality(db[conflict].lits) > 2 => ~db[conflict].garbage
  BY DEF ConflictInv
<1>1. /\ conflict \in DOMAIN db /\ FalseLits(maxVar, t, db[conflict].lits)
      /\ opts.chrono = 0 => \E l \in db[conflict].lits : LevelOf(t, l) = Level(t)
      /\ Cardinality(db[conflict].lits) > 2 => ~db[conflict].garbage
  BY DEF SearchInv, CoreInv, ConflictInv
<1>2. Shape(t) /\ Level(t') = Level(t)
  BY GraphFacts DEF Grows
<1>3. \A l \in db[conflict].lits : l \in Int /\ l \in LitsOf(maxVar) /\ Val(t, l) = -1
  BY <1>1, <1>2, FalseTypes
<1>4. \A l \in Int : Val(t, l) = -1 => Val(t', l) = -1 /\ LevelOf(t', l) = LevelOf(t, l)
  BY DEF Grows, Extends
<1>5. FalseLits(maxVar, t', db[conflict].lits)
  BY <1>3, <1>4 DEF FalseLits, FalseLit
<1> QED
  BY <1>1, <1>2, <1>3, <1>4, <1>5

\* The watches of the other clauses are as right as before, and those of the
\* clause that is visited when its propagated watch is.
LEMMA VisitWatches ==
  ASSUME SearchInv, NEW i \in todo, Grows(t, t'), unsat' = unsat, DOMAIN db' = DOMAIN db,
         \A j \in DOMAIN db \ {i} : db'[j] = db[j],
         conflict # 0 => conflict' # 0,
         todo' = todo \ {i} \/ conflict' # 0,
         ~db'[i].garbage => WatchOK(t', Bound(i)', db'[i])
  PROVE  WatchInv'
<1> SUFFICES ASSUME ~unsat, NEW j \in DOMAIN db, ~db'[j].garbage
             PROVE  WatchOK(t', Bound(j)', db'[j])
  BY DEF WatchInv
<1>1. CASE j = i
  BY <1>1
<1>2. CASE j # i
  <2>1. db'[j] = db[j] /\ ~db[j].garbage /\ WatchOK(t, Bound(j), db[j])
    BY <1>2 DEF SearchInv, CoreInv, WatchInv
  <2>2. /\ Shape(t) /\ maxVar \in Nat /\ IsDatabase(maxVar, db) /\ t.propagated \in Nat
        /\ t.propagated <= Len(t.trail) /\ Len(t.trail) \in Nat /\ t.propagated > 0
        /\ t'.propagated = t.propagated
    BY GraphFacts, TodoFacts DEF Visiting, Grows, Extends
  <2>3. Bound(j) \in Nat /\ Bound(j) <= Len(t.trail) /\ Bound(j)' \in Nat /\ Bound(j)' <= Bound(j)
    <3>1. Bound(j) \in {t.propagated, t.propagated - 1} /\ Bound(j)' \in {t.propagated, t.propagated - 1}
      BY <2>2 DEF Bound
    <3>2. j \in todo \/ conflict # 0 => j \in todo' \/ conflict' # 0
      BY <1>2
    <3>3. Bound(j) = t.propagated - 1 => Bound(j)' = t.propagated - 1
      BY <2>2, <3>2 DEF Bound
    <3> QED
      BY <2>2, <3>1, <3>3
  <2>4. db[j] \in Clauses(maxVar)
    BY <2>2, ClauseTypes
  <2> QED
    BY <2>1, <2>2, <2>3, <2>4, WatchGrows
<1> QED
  BY <1>1, <1>2

\* Those of the clause visited, when it is true or a conflict is known.
LEMMA VisitedWatch ==
  ASSUME SearchInv, NEW i \in todo, Grows(t, t'), ~db[i].garbage,
         conflict' # 0 \/ \E l \in db[i].lits : Val(t', l) = 1,
         Visiting'
  PROVE  WatchOK(t', Bound(i)', db[i])
<1>1. /\ Shape(t) /\ maxVar \in Nat /\ IsDatabase(maxVar, db) /\ t.propagated \in Nat
      /\ t.propagated <= Len(t.trail) /\ Len(t.trail) \in Nat /\ t.propagated > 0
      /\ t'.propagated = t.propagated /\ Shape(t')
  BY GraphFacts, TodoFacts DEF Visiting, Grows, Extends
<1>2. WatchOK(t, t.propagated - 1, db[i])
  BY TodoFacts DEF SearchInv, CoreInv, WatchInv, Bound
<1>3. db[i] \in Clauses(maxVar) /\ Watching(db[i])
  BY <1>1, TodoFacts, ClauseTypes
<1>4. t.propagated - 1 \in Nat /\ t.propagated - 1 <= Len(t.trail)
      /\ t.propagated - 1 <= t.propagated - 1
  BY <1>1
<1>5. WatchOK(t', t.propagated - 1, db[i])
  BY <1>1, <1>2, <1>3, <1>4, WatchGrows
<1>6. CASE conflict' # 0
  BY <1>1, <1>5, <1>6 DEF Bound
<1>7. CASE \E l \in db[i].lits : Val(t', l) = 1
  <2>1. Level(t') > 0 => t'.control[Level(t')].trail < t.propagated
    BY <1>1 DEF Visiting
  <2>2. WatchOK(t', t.propagated, db[i])
    BY <1>1, <1>3, <1>5, <1>7, <2>1, WatchVisited
  <2> QED
    BY <1>1, <1>5, <2>2 DEF Bound
<1> QED
  BY <1>6, <1>7

\* The two watches of a clause that is visited.
LEMMA OtherFacts ==
  ASSUME SearchInv, NEW i \in todo
  PROVE  LET w == PropagatedLit
             other == OtherWatch(db[i])
         IN  /\ db[i].watch = {w, other} /\ other # w /\ w \in db[i].lits /\ other \in db[i].lits
             /\ other \in LitsOf(maxVar) /\ other \in Int
             /\ Val(t, w) = -1 /\ Pos(t, w) = t.propagated
             /\ opts.chrono = 0 => LevelOf(t, w) = Level(t)
             /\ Val(t, other) = -1 => Pos(t, other) # t.propagated
<1> DEFINE w == PropagatedLit
           other == OtherWatch(db[i])
<1>1. /\ IsDatabase(maxVar, db) /\ maxVar \in Nat /\ i \in DOMAIN db /\ Visiting
      /\ w \in db[i].watch
  BY GraphFacts, TodoFacts
<1>2. Watching(db[i]) /\ db[i].lits \subseteq LitsOf(maxVar)
  BY <1>1, ClauseTypes
<1>3. PICK a, b \in db[i].lits : a # b /\ db[i].watch = {a, b}
  BY <1>2 DEF Watching
<1>4. \E l \in db[i].watch : l # w
  BY <1>3
<1>5. other \in db[i].watch /\ other # w
  BY <1>4 DEF OtherWatch
<1>6. db[i].watch = {w, other} /\ w \in db[i].lits /\ other \in db[i].lits
  BY <1>1, <1>3, <1>5
<1>7. other \in LitsOf(maxVar) /\ other \in Int
  BY <1>2, <1>6, LitFacts
<1>8. /\ Val(t, w) = -1 /\ Pos(t, w) = t.propagated
      /\ opts.chrono = 0 => LevelOf(t, w) = Level(t)
      /\ \A l \in Int : Val(t, l) = -1 /\ Pos(t, l) = t.propagated => l = w
  BY <1>1, VisitFacts
<1> HIDE DEF w, other
<1>9. Val(t, other) = -1 => Pos(t, other) # t.propagated
  BY <1>5, <1>7, <1>8
<1> QED
  BY <1>5, <1>6, <1>7, <1>8, <1>9 DEF w, other

\* When all other literals are false the clause forces the other watch.
LEMMA VisitForces ==
  ASSUME SearchInv, NEW i \in todo, NEW other, other = OtherWatch(db[i]), Val(t, other) = 0,
         \A l \in db[i].lits \ {other} : Val(t, l) = -1,
         Cardinality(db[i].lits) > 2 => ~db[i].garbage,
         NEW u, u = SearchAssign(opts.chrono, db, t, other, i)
  PROVE  /\ Founded(opts.chrono, maxVar, db, u) /\ Grows(t, u) /\ Val(u, other) = 1
         /\ ImpliedOnTop(t, u, ForcedEntry(db, t, i, other))
         /\ \A T : Good(T, t, db) => Good(T, u, db)
         /\ \A T : RootHolds(T, u) => RootHolds(T, t)
<1>1. /\ Shape(t) /\ maxVar \in Nat /\ opts.chrono \in Nat /\ i \in DOMAIN db
      /\ Founded(opts.chrono, maxVar, db, t)
  BY GraphFacts, TodoFacts DEF SearchInv, CoreInv, GraphInv
<1>2. /\ other \in db[i].lits /\ other # PropagatedLit /\ PropagatedLit \in db[i].lits
      /\ opts.chrono = 0 => LevelOf(t, PropagatedLit) = Level(t)
  BY OtherFacts
<1>3. Forces(opts.chrono, db, t, i, other)
  BY <1>1, <1>2 DEF Forces
<1> DEFINE e == ForcedEntry(db, t, i, other)
<1>4. /\ Founded(opts.chrono, maxVar, db, u) /\ ImpliedOnTop(t, u, e)
      /\ \A T : AllHold(T, db) /\ RootHolds(T, t) => RootHolds(T, u)
  BY <1>1, <1>3, AssignByClause
<1>5. e.lit = other
  BY DEF ForcedEntry
<1> HIDE DEF e
<1>6. Shape(u)
  BY <1>4 DEF Founded
<1>7. Grows(t, u) /\ Val(u, other) = 1
  BY <1>1, <1>4, <1>5, <1>6, GrowsImplied
<1>8. \A T : RootHolds(T, u) => RootHolds(T, t)
  <2>1. /\ t \in Trails /\ Distinct(t) /\ u \in Trails
    BY <1>1, <1>6 DEF Shape
  <2> QED
    BY <1>1, <1>4, <1>6, <2>1, RootOnTop DEF ImpliedOnTop
<1> QED
  BY <1>4, <1>7, <1>8 DEF Good, e

\* A visit that assigns nothing and changes no clause.
LEMMA VisitLeaves ==
  ASSUME SearchInv, NEW i \in todo, UNCHANGED <<opts, maxVar, original, unsat, unsatConstraint, pc, db, t>>,
         todo' \subseteq todo \ {i}, todo' = todo \ {i} \/ conflict' # 0,
         conflict # 0 => conflict' # 0,
         conflict' = conflict \/ (conflict' = i /\ \A l \in db[i].lits : Val(t, l) = -1),
         conflict' = i /\ Cardinality(db[i].lits) > 2 => ~db[i].garbage,
         conflict' # 0 \/ db[i].garbage \/ \E l \in db[i].lits : Val(t, l) = 1
  PROVE  CoreInv'
<1>1. /\ Shape(t) /\ maxVar \in Nat /\ IsDatabase(maxVar, db)
  BY GraphFacts
<1>2. Grows(t, t')
  BY <1>1, GrowsSelf
<1>3. QuietInv' /\ VisitInv' /\ Visiting'
  BY <1>2, VisitRest
<1>4. GraphInv' /\ FormulaInv'
  BY DEF SearchInv, CoreInv, GraphInv, FormulaInv
<1>5. WatchInv'
  <2>1. ~db[i].garbage => WatchOK(t', Bound(i)', db[i])
    BY <1>2, <1>3, VisitedWatch
  <2> QED
    BY <1>2, <2>1, VisitWatches
<1>6. ConflictInv'
  <2>1. CASE conflict' = conflict
    BY <1>2, <1>3, <2>1, VisitConflict
  <2>2. CASE conflict' = i /\ \A l \in db[i].lits : Val(t, l) = -1
    <3>1. /\ i \in DOMAIN db /\ db[i].lits \subseteq LitsOf(maxVar)
          /\ PropagatedLit \in db[i].lits
          /\ opts.chrono = 0 => LevelOf(t, PropagatedLit) = Level(t)
      BY <1>1, TodoFacts, ClauseTypes, OtherFacts
    <3>2. FalseLits(maxVar, t, db[i].lits)
      BY <2>2, <3>1 DEF FalseLits, FalseLit
    <3> QED
      BY <1>3, <2>2, <3>1, <3>2 DEF ConflictInv
  <2> QED
    BY <2>1, <2>2
<1> QED
  BY <1>3, <1>4, <1>5, <1>6 DEF CoreInv

\* A visit that assigns the other watch.
LEMMA VisitAssigns ==
  ASSUME SearchInv, NEW i \in todo, UNCHANGED <<opts, maxVar, original, unsat, unsatConstraint, pc, db, conflict>>,
         todo' = todo \ {i},
         NEW other, other = OtherWatch(db[i]), Val(t, other) = 0,
         \A l \in db[i].lits \ {other} : Val(t, l) = -1,
         Cardinality(db[i].lits) > 2 => ~db[i].garbage,
         t' = SearchAssign(opts.chrono, db, t, other, i)
  PROVE  CoreInv'
<1>1. /\ Founded(opts.chrono, maxVar, db, t') /\ Grows(t, t') /\ Val(t', other) = 1
      /\ \A T : Good(T, t, db) => Good(T, t', db)
      /\ \A T : RootHolds(T, t') => RootHolds(T, t)
  BY VisitForces
<1>2. QuietInv' /\ VisitInv' /\ Visiting'
  BY <1>1, VisitRest
<1>3. GraphInv'
  BY <1>1 DEF GraphInv
<1>4. FormulaInv'
  BY <1>1, TodoFacts DEF SearchInv, CoreInv, FormulaInv
<1>5. WatchInv'
  <2>1. other \in db[i].lits
    BY OtherFacts
  <2>2. ~db[i].garbage => WatchOK(t', Bound(i)', db[i])
    BY <1>1, <1>2, <2>1, VisitedWatch
  <2> QED
    BY <1>1, <2>2, VisitWatches
<1>6. ConflictInv'
  BY <1>1, <1>2, VisitConflict
<1> QED
  BY <1>2, <1>3, <1>4, <1>5, <1>6 DEF CoreInv

\* The values of the literals of a clause.
LEMMA ValuesIn ==
  ASSUME SearchInv
  PROVE  /\ \A l \in Int : Val(t, l) \in {-1, 0, 1}
         /\ \A i \in DOMAIN db : \A l \in db[i].lits : l \in Int /\ Val(t, l) \in {-1, 0, 1}
<1>1. t \in Trails /\ Distinct(t) /\ maxVar \in Nat /\ IsDatabase(maxVar, db)
  BY GraphFacts DEF Shape
<1>2. \A l \in Int : Val(t, l) \in {-1, 0, 1}
  BY <1>1, Values
<1> QED
  BY <1>1, <1>2, ClauseLits

\* A binary clause.
LEMMA PropagateBinaryStep ==
  ASSUME SearchInv, NEW i \in todo, PropagateBinary(i)
  PROVE  CoreInv'
<1> DEFINE other == OtherWatch(db[i])
<1>1. /\ UNCHANGED <<opts, maxVar, original, unsat, unsatConstraint, pc, db>>
      /\ todo' = todo \ {i}
      /\ Cardinality(db[i].lits) = 2
      /\ conflict' = IF Val(t, other) < 0 THEN i ELSE conflict
      /\ t' = IF Val(t, other) = 0 THEN SearchAssign(opts.chrono, db, t, other, i) ELSE t
  BY DEF PropagateBinary, Visited, apiVars
<1>2. /\ other \in db[i].lits /\ PropagatedLit \in db[i].lits /\ other # PropagatedLit
      /\ Val(t, PropagatedLit) = -1 /\ other \in Int
      /\ i \in DOMAIN db /\ maxVar \in Nat /\ IsDatabase(maxVar, db)
  BY OtherFacts, TodoFacts, GraphFacts
<1>3. Val(t, other) \in {-1, 0, 1}
  BY <1>2, ValuesIn
<1>4. db[i].lits = {other, PropagatedLit}
  <2>1. IsFiniteSet(db[i].lits)
    BY <1>2, ClauseTypes
  <2>2. PICK a, b \in db[i].lits : a # b /\ db[i].lits = {a, b}
    BY <1>1, <2>1, PairElements
  <2> QED
    BY <1>2, <2>2
<1>5. i # 0 /\ ~(Cardinality(db[i].lits) > 2)
  BY <1>1, <1>2, ClauseTypes
<1> HIDE DEF other
<1>6. CASE Val(t, other) = 0
  <2>1. t' = SearchAssign(opts.chrono, db, t, other, i) /\ conflict' = conflict
    BY <1>1, <1>6
  <2> QED
    BY <1>1, <1>2, <1>4, <1>5, <1>6, <2>1, VisitAssigns DEF other
<1>7. CASE Val(t, other) = 1
  <2>1. t' = t /\ conflict' = conflict
    BY <1>1, <1>7
  <2> QED
    BY <1>1, <1>2, <1>5, <1>7, <2>1, VisitLeaves
<1>8. CASE Val(t, other) = -1
  <2>1. t' = t /\ conflict' = i /\ conflict' # 0
    BY <1>1, <1>5, <1>8
  <2> QED
    BY <1>1, <1>2, <1>4, <1>5, <1>8, <2>1, VisitLeaves
<1> QED
  BY <1>3, <1>6, <1>7, <1>8

\* A longer clause that is left as it is, or falsified.
LEMMA VisitLongStep ==
  ASSUME SearchInv, NEW i \in todo, StopAtLong(i) \/ SkipLong(i) \/ FindConflict(i)
  PROVE  CoreInv'
<1>1. UNCHANGED <<opts, maxVar, original, unsat, unsatConstraint, pc, db, t>>
  BY DEF StopAtLong, SkipLong, FindConflict, Visited, apiVars
<1>2. i \in DOMAIN db /\ i # 0
  BY TodoFacts, GraphFacts, ClauseTypes
<1>3. \A l \in db[i].lits : Val(t, l) \in {-1, 0, 1}
  BY <1>2, ValuesIn
<1>4. CASE StopAtLong(i)
  <2>1. todo' = {} /\ conflict' = conflict /\ conflict # 0
    BY <1>4 DEF StopAtLong
  <2>2. CASE conflict = i
    <3>1. Cardinality(db[i].lits) > 2 => ~db[i].garbage
      BY <2>1, <2>2, TodoFacts DEF SearchInv, CoreInv, ConflictInv
    <3> QED
      BY <1>1, <2>1, <3>1, VisitLeaves
  <2>3. CASE conflict # i
    BY <1>1, <2>1, <2>3, VisitLeaves
  <2> QED
    BY <2>2, <2>3
<1>5. CASE SkipLong(i)
  <2>1. todo' = todo \ {i} /\ conflict' = conflict /\ conflict = 0
        /\ (db[i].garbage \/ \E l \in db[i].lits : Val(t, l) = 1)
    BY <1>3, <1>5 DEF SkipLong, Satisfied
  <2> QED
    BY <1>1, <1>2, <2>1, VisitLeaves
<1>6. CASE FindConflict(i)
  <2>1. todo' = {} /\ conflict' = i /\ ~db[i].garbage /\ \A l \in db[i].lits : Val(t, l) = -1
    BY <1>3, <1>6 DEF FindConflict, Falsified
  <2> QED
    BY <1>1, <1>2, <2>1, VisitLeaves
<1> QED
  BY <1>4, <1>5, <1>6

\* A clause watches two other literals of it.
LEMMA RewatchDatabase ==
  ASSUME NEW n \in Nat, NEW d, IsDatabase(n, d), NEW i \in DOMAIN d,
         NEW a \in d[i].lits, NEW b \in d[i].lits, a # b
  PROVE  Rewatched(n, d, [d EXCEPT ![i].watch = {a, b}], i, a, b)
<1> DEFINE s == [d EXCEPT ![i].watch = {a, b}]
<1>1. /\ d = [j \in DOMAIN d |-> d[j]] /\ DOMAIN d \subseteq Nat \ {0} /\ IsFiniteSet(DOMAIN d)
      /\ \A j \in DOMAIN d :
           d[j] \in Clauses(n) /\ Cardinality(d[j].lits) >= 2 /\ Watching(d[j])
  BY DEF IsDatabase
<1>2. DOMAIN s = DOMAIN d /\ s = [j \in DOMAIN s |-> s[j]]
      /\ \A j \in DOMAIN d : j # i => s[j] = d[j]
  BY <1>1
<1>3. s[i] = [d[i] EXCEPT !.watch = {a, b}]
  BY <1>1
<1> HIDE DEF s
<1>4. s[i] = [lits |-> d[i].lits, watch |-> {a, b}, redundant |-> d[i].redundant,
              garbage |-> d[i].garbage]
  BY <1>1, <1>3, ClauseFields
<1>5. s[i] \in Clauses(n)
  <2>1. d[i].lits \subseteq LitsOf(n) /\ d[i].redundant \in BOOLEAN /\ d[i].garbage \in BOOLEAN
    BY <1>1 DEF Clauses
  <2>2. {a, b} \subseteq LitsOf(n)
    BY <2>1
  <2> QED
    BY <1>4, <2>1, <2>2 DEF Clauses
<1>6. Watching(s[i]) /\ Cardinality(s[i].lits) >= 2
  BY <1>1, <1>4 DEF Watching
<1>7. IsDatabase(n, s)
  BY <1>1, <1>2, <1>5, <1>6 DEF IsDatabase
<1>8. \A j \in DOMAIN d :
        /\ s[j].lits = d[j].lits /\ s[j].redundant = d[j].redundant
        /\ s[j].garbage = d[j].garbage
        /\ j # i => s[j].watch = d[j].watch
  BY <1>2, <1>4
<1>9. s[i].watch = {a, b}
  BY <1>4
<1> QED
  BY <1>2, <1>7, <1>8, <1>9 DEF Rewatched, s

\* A visit that moves a watch.
LEMMA VisitMoves ==
  ASSUME SearchInv, NEW i \in todo, UNCHANGED <<opts, maxVar, original, unsat, unsatConstraint, pc, conflict>>,
         todo' = todo \ {i}, conflict = 0,
         NEW a, NEW b, Rewatched(maxVar, db, db', i, a, b),
         Founded(opts.chrono, maxVar, db, t'), Grows(t, t'),
         \A T : Good(T, t, db) => Good(T, t', db),
         \A T : RootHolds(T, t') => RootHolds(T, t),
         WatchOK(t', t.propagated, db'[i])
  PROVE  CoreInv'
<1>1. /\ IsDatabase(maxVar, db') /\ DOMAIN db' = DOMAIN db
      /\ \A j \in DOMAIN db : db'[j].lits = db[j].lits /\ db'[j].redundant = db[j].redundant
                              /\ db'[j].garbage = db[j].garbage
      /\ \A j \in DOMAIN db : j # i => db'[j].watch = db[j].watch
  BY DEF Rewatched
<1>2. IsDatabase(maxVar, db) /\ maxVar \in Nat /\ t'.propagated = t.propagated
  BY GraphFacts DEF Grows, Extends
<1>3. \A j \in DOMAIN db \ {i} : db'[j] = db[j]
  <2> SUFFICES ASSUME NEW j \in DOMAIN db, j # i PROVE db'[j] = db[j]
    OBVIOUS
  <2>1. db[j] \in Clauses(maxVar) /\ db'[j] \in Clauses(maxVar)
    BY <1>1, <1>2, ClauseTypes
  <2>2. /\ db'[j].lits = db[j].lits /\ db'[j].redundant = db[j].redundant
        /\ db'[j].garbage = db[j].garbage /\ db'[j].watch = db[j].watch
    BY <1>1
  <2> QED
    BY <2>1, <2>2 DEF Clauses
<1>4. /\ \A T : AllHold(T, db') <=> AllHold(T, db)
      /\ \A T : CoreHolds(T, db') <=> CoreHolds(T, db)
      /\ \A k \in Positions(t') : Reasoned(db, t', k) => Reasoned(db', t', k)
      /\ \A k \in Positions(t') : Reasoned(db, t', k) /\ Protected(db, t', k) => Protected(db', t', k)
  BY RewatchedFacts
<1>5. GraphInv'
  BY <1>1, <1>4 DEF GraphInv, Founded, Graph
<1>6. QuietInv' /\ VisitInv'
  BY <1>1, <1>3, VisitRest
<1>7. ConflictInv'
  BY DEF ConflictInv
<1>8. FormulaInv'
  BY <1>4, TodoFacts DEF SearchInv, CoreInv, FormulaInv, Good
<1>9. WatchInv'
  <2>1. Bound(i)' = t.propagated
    BY <1>2 DEF Bound
  <2> QED
    BY <1>1, <1>3, <2>1, VisitWatches
<1> QED
  BY <1>5, <1>6, <1>7, <1>8, <1>9 DEF CoreInv

\* An unassigned literal replaces the false watch.
LEMMA ReplaceWatchStep ==
  ASSUME SearchInv, NEW i \in todo, ReplaceWatch(i)
  PROVE  CoreInv'
<1> DEFINE other == OtherWatch(db[i])
<1>1. /\ UNCHANGED <<opts, maxVar, original, unsat, unsatConstraint, pc, conflict, t>>
      /\ todo' = todo \ {i} /\ conflict = 0 /\ ~db[i].garbage
      /\ \E r \in Undefined(t, db[i].lits \ db[i].watch) :
           db' = [db EXCEPT ![i].watch = {other, r}]
  BY DEF ReplaceWatch, Visited, apiVars
<1>2. PICK r \in Undefined(t, db[i].lits \ db[i].watch) :
        db' = [db EXCEPT ![i].watch = {other, r}]
  BY <1>1
<1>3. /\ other \in db[i].lits /\ other \in db[i].watch /\ other \in Int
      /\ Val(t, other) = -1 => Pos(t, other) # t.propagated
      /\ i \in DOMAIN db /\ maxVar \in Nat /\ IsDatabase(maxVar, db) /\ Shape(t)
      /\ Founded(opts.chrono, maxVar, db, t) /\ t.propagated \in Nat /\ t.propagated > 0
  BY OtherFacts, TodoFacts, GraphFacts DEF SearchInv, CoreInv, GraphInv, Visiting
<1> HIDE DEF other
<1>4. r \in db[i].lits /\ r # other /\ Val(t, r) = 0
  BY <1>2, <1>3 DEF Undefined
<1>5. Rewatched(maxVar, db, db', i, other, r)
  BY <1>2, <1>3, <1>4, RewatchDatabase
<1>6. db'[i].lits = db[i].lits /\ db'[i].watch = {other, r}
  BY <1>3, <1>5 DEF Rewatched
<1>7. WatchOK(t, t.propagated - 1, db[i])
  BY <1>1, TodoFacts DEF SearchInv, CoreInv, WatchInv, Bound
<1>8. WatchOK(t, t.propagated, db'[i])
  <2>1. ~DoneTo(t, t.propagated, r)
    BY <1>4 DEF DoneTo
  <2>2. DoneTo(t, t.propagated, other) => DoneTo(t, t.propagated - 1, other)
    <3>1. Val(t, other) = -1 => Pos(t, other) \in Nat
      BY <1>3, AssignedFacts
    <3>2. \A x, y \in Nat : x <= y /\ x # y => x <= y - 1
      OBVIOUS
    <3> QED
      BY <1>3, <3>1, <3>2 DEF DoneTo
  <2>3. ASSUME NEW w \in db'[i].watch, DoneTo(t, t.propagated, w), LevelOf(t, w) = 0
        PROVE  \E l \in db'[i].lits : Val(t, l) = 1 /\ Cover(t, l, w)
    <3>1. w = other
      BY <1>6, <2>1, <2>3
    <3> QED
      BY <1>3, <1>6, <1>7, <2>2, <2>3, <3>1 DEF WatchOK
  <2>4. ~(\A w \in db'[i].watch : DoneTo(t, t.propagated, w))
    BY <1>6, <2>1
  <2> QED
    BY <2>3, <2>4 DEF WatchOK
<1>9. Grows(t, t') /\ t' = t
  BY <1>1, <1>3, GrowsSelf
<1> QED
  BY <1>1, <1>3, <1>5, <1>8, <1>9, VisitMoves

\* The clause is unit.
LEMMA PropagateUnitStep ==
  ASSUME SearchInv, NEW i \in todo, PropagateUnit(i)
  PROVE  CoreInv'
<1> DEFINE other == OtherWatch(db[i])
           lev == LevelOf(t', other)
           high == {l \in db[i].lits \ db[i].watch : LevelOf(t, l) = lev}
<1>1. /\ UNCHANGED <<opts, maxVar, original, unsat, unsatConstraint, pc, conflict>>
      /\ todo' = todo \ {i} /\ conflict = 0 /\ ~db[i].garbage /\ Val(t, other) = 0
      /\ \A l \in db[i].lits \ {other} : Val(t, l) < 0
      /\ t' = SearchAssign(opts.chrono, db, t, other, i)
  BY DEF PropagateUnit, Visited, Falsified, apiVars
<1>2. \/ db' = db
      \/ /\ lev > LevelOf(t, PropagatedLit)
         /\ \E s \in high : db' = [db EXCEPT ![i].watch = {other, s}]
  BY DEF PropagateUnit
<1>3. /\ other \in db[i].lits /\ other \in db[i].watch /\ other \in Int
      /\ i \in DOMAIN db /\ maxVar \in Nat /\ IsDatabase(maxVar, db) /\ Shape(t)
      /\ t.propagated \in Nat /\ t.propagated > 0
      /\ PropagatedLit \in Int /\ Val(t, PropagatedLit) = -1
  BY OtherFacts, TodoFacts, GraphFacts, VisitFacts DEF Visiting
<1>4. \A l \in db[i].lits \ {other} : Val(t, l) = -1
  <2>1. \A l \in db[i].lits : Val(t, l) \in {-1, 0, 1}
    BY <1>3, ValuesIn
  <2> QED
    BY <1>1, <2>1
<1>5. /\ Founded(opts.chrono, maxVar, db, t') /\ Grows(t, t') /\ Val(t', other) = 1
      /\ \A T : Good(T, t, db) => Good(T, t', db)
      /\ \A T : RootHolds(T, t') => RootHolds(T, t)
  BY <1>1, <1>4, VisitForces
<1>6. CASE db' = db
  BY <1>1, <1>4, <1>6, VisitAssigns
<1>7. CASE /\ lev > LevelOf(t, PropagatedLit)
           /\ \E s \in high : db' = [db EXCEPT ![i].watch = {other, s}]
  <2>1. PICK s \in high : db' = [db EXCEPT ![i].watch = {other, s}]
    BY <1>7
  <2>2. s \in db[i].lits /\ s # other /\ LevelOf(t, s) = lev
    BY <1>3, <2>1
  <2> HIDE DEF other, lev, high
  <2>3. Rewatched(maxVar, db, db', i, other, s)
    BY <1>3, <2>1, <2>2, RewatchDatabase
  <2>4. db'[i].lits = db[i].lits /\ db'[i].watch = {other, s}
    BY <1>3, <2>3 DEF Rewatched
  <2>5. lev # 0
    <3>1. LevelOf(t, PropagatedLit) \in Nat
      BY <1>3, AssignedFacts
    <3>2. LevelOf(t, s) \in Nat
      BY <1>3, <1>4, <2>2, AssignedFacts, ValuesIn
    <3> QED
      BY <1>7, <2>2, <3>1, <3>2
  <2>6. LevelOf(t', s) = lev
    <3>1. Val(t, s) = -1 /\ s \in Int
      BY <1>3, <1>4, <2>2, ValuesIn
    <3> QED
      BY <1>5, <2>2, <3>1 DEF Grows, Extends
  <2>7. ~DoneTo(t', t.propagated, other)
    BY <1>5 DEF DoneTo
  <2>8. WatchOK(t', t.propagated, db'[i])
    BY <2>4, <2>5, <2>6, <2>7 DEF WatchOK
  <2> QED
    BY <1>1, <1>5, <2>3, <2>8, VisitMoves
<1> QED
  BY <1>2, <1>6, <1>7

\* Propagation keeps the invariant.
LEMMA PropagateStep ==
  ASSUME SearchInv, Propagate
  PROVE  CoreInv'
<1>1. CASE PropagateLiteral
  BY <1>1, PropagateLiteralStep
<1>2. CASE \E i \in todo : Visit(i)
  <2>1. PICK i \in todo : Visit(i)
    BY <1>2
  <2> QED
    BY <2>1, PropagateBinaryStep, VisitLongStep, ReplaceWatchStep, PropagateUnitStep DEF Visit
<1> QED
  BY <1>1, <1>2 DEF Propagate

-----------------------------------------------------------------------------
(* The loop.                                                               *)

\* Analysis.
LEMMA AnalyzeStepKeeps ==
  ASSUME SearchInv, AnalyzeStep
  PROVE  CoreInv' /\ unsat' \in BOOLEAN /\ Retains(t, t') /\ conflict' \in DOMAIN db' \cup {0}
<1>1. /\ pc = "search" /\ ~unsat /\ todo = {} /\ conflict # 0
      /\ UNCHANGED <<opts, maxVar, original, todo, unsatConstraint, pc>>
      /\ \E r \in AnalyzeConflict(opts, db, t, conflict, Len(assumptions)) :
           /\ db' = r.db /\ t' = r.t /\ unsat' = r.unsat
           /\ conflict' = IF r.unsat THEN conflict ELSE 0
  BY DEF AnalyzeStep, apiVars
<1>2. PICK r \in AnalyzeConflict(opts, db, t, conflict, Len(assumptions)) :
        /\ db' = r.db /\ t' = r.t /\ unsat' = r.unsat
        /\ conflict' = IF r.unsat THEN conflict ELSE 0
  BY <1>1
<1>3. /\ Shape(t) /\ maxVar \in Nat /\ opts.chrono \in Nat /\ IsDatabase(maxVar, db)
      /\ t.propagated \in Nat /\ t.propagated <= Len(t.trail) /\ t \in Trails
      /\ Founded(opts.chrono, maxVar, db, t)
  BY GraphFacts DEF SearchInv, CoreInv, GraphInv
<1>4. /\ Visiting
      /\ conflict \in DOMAIN db /\ FalseLits(maxVar, t, db[conflict].lits)
      /\ opts.chrono = 0 => \E l \in db[conflict].lits : LevelOf(t, l) = Level(t)
      /\ Cardinality(db[conflict].lits) > 2 => ~db[conflict].garbage
  BY <1>1 DEF SearchInv, CoreInv, ConflictInv
<1>5. ASSUME Level(t) > 0 PROVE Watched(t, db)
  <2> SUFFICES ASSUME NEW i \in DOMAIN db, ~db[i].garbage PROVE Settled(t, db[i])
    BY DEF Watched
  <2>1. WatchOK(t, t.propagated - 1, db[i]) /\ db[i] \in Clauses(maxVar)
    BY <1>1, <1>3, ClauseTypes DEF SearchInv, CoreInv, WatchInv, Bound
  <2>2. t.control[Level(t)].trail \in Nat /\ t.propagated - 1 \in Nat
        /\ t.control[Level(t)].trail <= t.propagated - 1
    <3>1. Level(t) \in 1..Level(t) /\ t.control[Level(t)].trail < t.propagated
      BY <1>3, <1>4, <1>5, TrailTypes DEF Visiting
    <3>2. t.control[Level(t)].trail \in Nat
      BY <1>3, <3>1, TrailTypes
    <3> QED
      BY <1>3, <3>1, <3>2
  <2> QED
    BY <1>3, <2>1, <2>2, WatchWeaker DEF Settled
<1>6. Conflicting(opts.chrono, maxVar, db, t, conflict)
  BY <1>3, <1>4, <1>5 DEF Conflicting
<1>7. GoesOn(opts.chrono, maxVar, db, t, r) \/ Ends(opts.chrono, maxVar, db, t, conflict, r)
  BY <1>2, <1>3, <1>4, <1>6, AnalyzeConflictFacts
<1>8. ~unsatConstraint
  BY <1>1 DEF SearchInv, CoreInv, QuietInv, Propagated
<1>9. QuietInv'
  BY <1>1, <1>8 DEF QuietInv
<1>10. VisitInv'
  BY <1>1 DEF VisitInv
<1>11. /\ \A T : SatFormula(T, original) => Good(T, t, db)
       /\ \A T : RootHolds(T, t) /\ CoreHolds(T, db) => SatFormula(T, original)
  BY <1>1 DEF SearchInv, CoreInv, FormulaInv
<1>12. ASSUME GoesOn(opts.chrono, maxVar, db, t, r) PROVE CoreInv'
  <2>1. unsat' = FALSE /\ conflict' = 0 /\ todo' = {}
    BY <1>1, <1>2, <1>12 DEF GoesOn
  <2>2. /\ Founded(opts.chrono, maxVar, db', t') /\ AllWatched(t', db')
        /\ \A T : Good(T, t, db) => Good(T, t', db')
        /\ \A T : RootHolds(T, t') /\ CoreHolds(T, db') => RootHolds(T, t) /\ CoreHolds(T, db)
    BY <1>2, <1>12 DEF GoesOn
  <2>3. GraphInv'
    BY <1>1, <2>2 DEF GraphInv
  <2>4. ConflictInv'
    BY <2>1 DEF ConflictInv
  <2>5. WatchInv'
    BY <2>1, <2>2 DEF WatchInv, AllWatched, Bound
  <2>6. FormulaInv'
    BY <1>1, <1>11, <2>1, <2>2 DEF FormulaInv
  <2> QED
    BY <1>9, <1>10, <2>3, <2>4, <2>5, <2>6 DEF CoreInv
<1>13. ASSUME Ends(opts.chrono, maxVar, db, t, conflict, r) PROVE CoreInv'
  <2>1. unsat' = TRUE
    BY <1>2, <1>13 DEF Ends
  <2>2. Founded(opts.chrono, maxVar, db', t') /\ \A T : ~Good(T, t, db)
    BY <1>2, <1>13 DEF Ends
  <2>3. GraphInv'
    BY <1>1, <2>2 DEF GraphInv
  <2>4. FormulaInv'
    BY <1>1, <1>11, <2>1, <2>2 DEF FormulaInv
  <2> QED
    BY <1>9, <1>10, <2>1, <2>3, <2>4 DEF CoreInv, ConflictInv, WatchInv
<1>14. unsat' \in BOOLEAN /\ Retains(t, t')
  BY <1>2, <1>7 DEF GoesOn, Ends
<1>15. conflict' \in DOMAIN db' \cup {0}
  BY <1>2, <1>7 DEF GoesOn, Ends
<1> QED
  BY <1>7, <1>12, <1>13, <1>14, <1>15

\* A conflict at the root level.
LEMMA LearnEmptyClauseKeeps ==
  ASSUME SearchInv, LearnEmptyClause
  PROVE  CoreInv'
<1>1. /\ pc \in {"ready", "reduce"} /\ ~unsat /\ todo = {} /\ conflict # 0
      /\ unsat' = TRUE /\ pc' \in {pc, "search"}
      /\ pc = "reduce" => pc' = "search"
      /\ UNCHANGED <<opts, maxVar, original, db, t, todo, conflict, unsatConstraint>>
  BY DEF LearnEmptyClause, apiVars
<1>2. Level(t) = 0 /\ Shape(t) /\ maxVar \in Nat
  BY <1>1, GraphFacts DEF SearchInv, CoreInv, QuietInv, Propagated
<1>3. conflict \in DOMAIN db /\ FalseLits(maxVar, t, db[conflict].lits)
  BY <1>1 DEF SearchInv, CoreInv, ConflictInv
<1>4. \A l \in db[conflict].lits : LevelOf(t, l) = 0
  BY <1>2, <1>3, FalseTypes
<1>5. \A T : ~Good(T, t, db)
  BY <1>2, <1>3, <1>4, RootConflict
<1>6. FormulaInv'
  BY <1>1, <1>5 DEF SearchInv, CoreInv, FormulaInv
<1>7. GraphInv' /\ VisitInv' /\ ConflictInv' /\ WatchInv'
  BY <1>1 DEF SearchInv, CoreInv, GraphInv, VisitInv, ConflictInv, WatchInv
<1>8. QuietInv'
  BY <1>1, <1>2 DEF SearchInv, CoreInv, QuietInv
<1> QED
  BY <1>6, <1>7, <1>8 DEF CoreInv

\* Where nothing is left to propagate the trail may be replaced by one that is
\* an implication graph of the same clauses with the same units.
LEMMA Replaced ==
  ASSUME SearchInv, todo = {}, conflict = 0 \/ unsat, UNCHANGED <<opts, original, db, todo, conflict, unsat>>,
         maxVar' \in Nat, maxVar <= maxVar',
         Founded(opts.chrono, maxVar, db, t'),
         AllWatched(t, db) => AllWatched(t', db),
         \A T : RootHolds(T, t') <=> RootHolds(T, t)
  PROVE  GraphInv' /\ VisitInv' /\ ConflictInv' /\ WatchInv' /\ FormulaInv'
<1>1. GraphInv'
  BY GraphFacts, MoreVariables DEF GraphInv
<1>2. VisitInv' /\ ConflictInv'
  BY DEF VisitInv, ConflictInv
<1>3. ~unsat => AllWatched(t, db)
  BY DEF SearchInv, CoreInv, WatchInv, AllWatched, Bound
<1>4. WatchInv'
  BY <1>3 DEF WatchInv, AllWatched, Bound
<1>5. FormulaInv'
  BY DEF SearchInv, CoreInv, FormulaInv, Good
<1> QED
  BY <1>1, <1>2, <1>4, <1>5

\* In particular backtracking may happen.
LEMMA BacktrackKeeps ==
  ASSUME SearchInv, todo = {}, conflict = 0 \/ unsat, UNCHANGED <<opts, original, db, todo, conflict, unsat>>,
         maxVar' \in Nat, maxVar <= maxVar',
         NEW m \in 0..Level(t), t' = Backtrack(t, m)
  PROVE  /\ GraphInv' /\ VisitInv' /\ ConflictInv' /\ WatchInv' /\ FormulaInv'
         /\ Level(t') = m /\ KeepsLevels(t, t', m) /\ Retains(t, t')
<1>1. Founded(opts.chrono, maxVar, db, t) /\ maxVar \in Nat
  BY GraphFacts DEF SearchInv, CoreInv, GraphInv
<1>2. /\ Founded(opts.chrono, maxVar, db, t') /\ KeepsLevels(t, t', m) /\ Level(t') = m
      /\ Retains(t, t')
      /\ \A T : RootHolds(T, t') <=> RootHolds(T, t)
      /\ AllWatched(t, db) => AllWatched(t', db)
  BY <1>1, SearchBacktrack
<1>3. GraphInv' /\ VisitInv' /\ ConflictInv' /\ WatchInv' /\ FormulaInv'
  BY <1>2, Replaced
<1> QED
  BY <1>2, <1>3

\* When the search may stop or go on.
LEMMA SearchingFacts ==
  ASSUME SearchInv, Searching
  PROVE  /\ pc = "search" /\ ~unsat /\ ~unsatConstraint /\ Propagated
         /\ todo = {} /\ conflict = 0 /\ t.propagated = Len(t.trail)
         /\ AllWatched(t, db)
<1>1. /\ pc = "search" /\ ~unsat /\ ~unsatConstraint /\ Propagated
      /\ todo = {} /\ conflict = 0 /\ t.propagated = Len(t.trail)
  BY DEF Searching, Propagated
<1>2. AllWatched(t, db)
  BY <1>1 DEF SearchInv, CoreInv, WatchInv, AllWatched, Bound
<1> QED
  BY <1>1, <1>2

\* The search stops.
LEMMA ReturnKeeps ==
  ASSUME SearchInv, pc = "search",
         Propagated \/ unsat \/ unsatConstraint, pc' = "done",
         UNCHANGED <<opts, maxVar, original, db, t, todo, conflict, unsat>>,
         unsatConstraint' = unsatConstraint \/ Propagated
  PROVE  CoreInv'
<1>1. GraphInv' /\ VisitInv' /\ ConflictInv' /\ WatchInv' /\ FormulaInv'
  BY DEF SearchInv, CoreInv, GraphInv, VisitInv, ConflictInv, WatchInv, FormulaInv, Visiting,
         PropagatedLit, Bound
<1>2. todo = {} /\ (conflict # 0 => unsat)
  BY DEF SearchInv, CoreInv, QuietInv, Propagated
<1>3. unsatConstraint' /\ ~unsat => Propagated
  BY DEF SearchInv, CoreInv, QuietInv
<1>4. Propagated' <=> Propagated
  BY DEF Propagated
<1>5. QuietInv'
  BY <1>2, <1>3, <1>4 DEF QuietInv
<1> QED
  BY <1>1, <1>5 DEF CoreInv

\* It returns.
LEMMA ReturnStep ==
  ASSUME SearchInv, ReturnUnsat \/ ReturnSat \/ ReturnUnknown
  PROVE  CoreInv'
<1>1. /\ pc = "search" /\ pc' = "done"
      /\ UNCHANGED <<opts, maxVar, original, db, t, todo, conflict, unsat, unsatConstraint>>
      /\ (Propagated \/ unsat \/ unsatConstraint)
  BY DEF ReturnUnsat, ReturnSat, ReturnUnknown, Return, Searching, apiVars
<1> QED
  BY <1>1, ReturnKeeps

\* The trail changes while the search goes on.
LEMMA SearchOn ==
  ASSUME SearchInv, Searching, UNCHANGED <<unsat, unsatConstraint, todo, conflict>>,
         pc' = "search"
  PROVE  QuietInv'
BY SearchingFacts DEF QuietInv

\* The levels a restart keeps.
LEMMA ReuseTrailFacts ==
  ASSUME SearchInv, Level(t) >= Len(assumptions) + 2, NEW m \in ReuseTrail
  PROVE  /\ m \in Nat /\ Len(assumptions) <= m /\ m <= Level(t) /\ m \in 0..Level(t)
         /\ t.control[Len(assumptions) + 1].decision = 0 => m > Len(assumptions)
<1> DEFINE k == Len(assumptions)
           trivial == k + (IF t.control[k + 1].decision = 0 THEN 1 ELSE 0)
<1>1. k \in Nat /\ Level(t) \in Nat
  BY GraphFacts DEF SearchInv, ApiTypes
<1>2. /\ trivial \in Nat /\ k <= trivial /\ trivial <= Level(t)
      /\ t.control[k + 1].decision = 0 => trivial > k
  BY <1>1
<1>3. m \in trivial..Level(t)
  BY <1>1, <1>2 DEF ReuseTrail
<1> HIDE DEF trivial
<1> QED
  BY <1>1, <1>2, <1>3

\* A restart.
LEMMA RestartStep ==
  ASSUME SearchInv, Restart
  PROVE  CoreInv'
<1>1. /\ Searching /\ Level(t) >= Len(assumptions) + 2
      /\ \E m \in ReuseTrail : t' = Backtrack(t, m)
      /\ UNCHANGED <<opts, maxVar, original, db, todo, conflict, unsat, unsatConstraint, pc>>
  BY DEF Restart, apiVars
<1>2. PICK m \in ReuseTrail : t' = Backtrack(t, m)
  BY <1>1
<1>3. m \in 0..Level(t)
  BY <1>1, ReuseTrailFacts
<1>4. todo = {} /\ conflict = 0 /\ pc' = "search" /\ maxVar' \in Nat /\ maxVar <= maxVar'
  BY <1>1, SearchingFacts, GraphFacts
<1>5. QuietInv'
  BY <1>1, <1>4, SearchOn
<1>6. GraphInv' /\ VisitInv' /\ ConflictInv' /\ WatchInv' /\ FormulaInv'
  BY <1>1, <1>2, <1>3, <1>4, BacktrackKeeps
<1> QED
  BY <1>5, <1>6 DEF CoreInv

\* A reduction begins.
LEMMA StartReduceStep ==
  ASSUME SearchInv, StartReduce
  PROVE  CoreInv'
<1>1. /\ Searching /\ pc' = "reduce"
      /\ t' = IF OutOfOrderUnits(t) THEN Backtrack(t, 0) ELSE t
      /\ UNCHANGED <<opts, maxVar, original, db, todo, conflict, unsat, unsatConstraint>>
  BY DEF StartReduce, apiVars
<1>2. /\ todo = {} /\ conflict = 0 /\ ~unsat /\ ~unsatConstraint /\ Propagated
      /\ maxVar' \in Nat /\ maxVar <= maxVar' /\ Level(t) \in Nat
      /\ Founded(opts.chrono, maxVar, db, t)
  BY <1>1, SearchingFacts, GraphFacts DEF SearchInv, CoreInv, GraphInv
<1>3. CASE OutOfOrderUnits(t)
  <2>1. 0 \in 0..Level(t) /\ t' = Backtrack(t, 0)
    BY <1>1, <1>2, <1>3
  <2>2. /\ GraphInv' /\ VisitInv' /\ ConflictInv' /\ WatchInv' /\ FormulaInv'
        /\ Level(t') = 0
    BY <1>1, <1>2, <2>1, BacktrackKeeps
  <2>3. QuietInv'
    BY <1>1, <1>2, <2>2 DEF QuietInv
  <2> QED
    BY <2>2, <2>3 DEF CoreInv
<1>4. CASE ~OutOfOrderUnits(t)
  <2>1. t' = t
    BY <1>1, <1>4
  <2>2. GraphInv' /\ VisitInv' /\ ConflictInv' /\ WatchInv' /\ FormulaInv'
    BY <1>1, <1>2, <2>1, Replaced
  <2>3. Propagated' /\ ~OutOfOrderUnits(t')
    BY <1>1, <1>2, <1>4, <2>1 DEF Propagated
  <2>4. QuietInv'
    BY <1>1, <1>2, <2>3 DEF QuietInv
  <2> QED
    BY <2>2, <2>4 DEF CoreInv
<1> QED
  BY <1>3, <1>4

\* A decision, or a level without one.
LEMMA OpensKeeps ==
  ASSUME SearchInv, Searching,
         UNCHANGED <<opts, maxVar, original, db, todo, conflict, unsat, unsatConstraint, pc>>,
         \/ t' = NewTrailLevel(t, 0)
         \/ \E l \in LitsOf(maxVar) : Val(t, l) = 0 /\ t' = AssumeDecision(t, l)
  PROVE  CoreInv'
<1>1. /\ todo = {} /\ conflict = 0 /\ pc' = "search" /\ maxVar' \in Nat /\ maxVar <= maxVar'
      /\ AllWatched(t, db) /\ t.propagated = Len(t.trail) /\ maxVar \in Nat
      /\ Founded(opts.chrono, maxVar, db, t)
  BY SearchingFacts, GraphFacts DEF SearchInv, CoreInv, GraphInv
<1>2. Opens(opts.chrono, maxVar, db, t, t')
  <2>1. CASE t' = NewTrailLevel(t, 0)
    BY <1>1, <2>1, OpensPseudo
  <2>2. CASE \E l \in LitsOf(maxVar) : Val(t, l) = 0 /\ t' = AssumeDecision(t, l)
    <3>1. PICK l \in LitsOf(maxVar) : Val(t, l) = 0 /\ t' = AssumeDecision(t, l)
      BY <2>2
    <3> QED
      BY <1>1, <3>1, OpensDecision
  <2> QED
    BY <2>1, <2>2
<1>3. GraphInv' /\ VisitInv' /\ ConflictInv' /\ WatchInv' /\ FormulaInv'
  BY <1>1, <1>2, Replaced DEF Opens
<1>4. QuietInv'
  BY <1>1, SearchOn
<1> QED
  BY <1>3, <1>4 DEF CoreInv

\* The three decisions.
LEMMA DecideStep ==
  ASSUME SearchInv, DecideAssumption \/ DecideConstraint \/ DecideVariable
  PROVE  CoreInv'
<1>1. \A l \in Int : Val(t, l) \in {-1, 0, 1}
  BY ValuesIn
<1>2. Searching
  BY DEF DecideAssumption, DecideConstraint, DecideVariable
<1>3. pc = "search" /\ Propagated
  BY <1>2, SearchingFacts
<1>4. CASE DecideAssumption
  <2> DEFINE lit == assumptions[Level(t) + 1]
  <2>1. lit \in LitsOf(maxVar) /\ lit \in Int
    <3>1. Level(t) < Len(assumptions) /\ Level(t) \in Nat /\ assumptions \in Seq(LitsOf(maxVar))
      BY <1>4, GraphFacts DEF DecideAssumption, SearchInv, ApiTypes
    <3>2. Len(assumptions) \in Nat /\ Level(t) + 1 \in 1..Len(assumptions)
      BY <3>1
    <3> QED
      BY <3>1, <3>2, LitFacts
  <2>2. CASE Val(t, lit) < 0
    <3>1. /\ pc' = "done" /\ unsatConstraint' = unsatConstraint
          /\ UNCHANGED <<opts, maxVar, original, db, t, todo, conflict, unsat>>
      BY <1>4, <2>2 DEF DecideAssumption, Return, apiVars
    <3> QED
      BY <1>3, <3>1, ReturnKeeps
  <2>3. CASE ~(Val(t, lit) < 0)
    <3>1. /\ UNCHANGED <<opts, maxVar, original, db, todo, conflict, unsat, unsatConstraint, pc>>
          /\ t' = IF Val(t, lit) > 0 THEN NewTrailLevel(t, 0) ELSE AssumeDecision(t, lit)
      BY <1>4, <2>3 DEF DecideAssumption, apiVars
    <3>2. \/ t' = NewTrailLevel(t, 0)
          \/ Val(t, lit) = 0 /\ t' = AssumeDecision(t, lit)
      BY <1>1, <2>1, <2>3, <3>1
    <3> HIDE DEF lit
    <3> QED
      BY <1>2, <2>1, <3>1, <3>2, OpensKeeps
  <2> QED
    BY <2>2, <2>3
<1>5. CASE DecideConstraint
  <2>1. constraint \subseteq LitsOf(maxVar)
    BY DEF SearchInv, ApiTypes
  <2>2. CASE Falsified(t, constraint)
    <3>1. /\ pc' = "done"
          /\ UNCHANGED <<opts, maxVar, original, db, t, todo, conflict, unsat>>
      BY <1>5, <2>2 DEF DecideConstraint, Return, apiVars
    <3> QED
      BY <1>3, <3>1, ReturnKeeps
  <2>3. CASE ~Falsified(t, constraint)
    <3>1. /\ UNCHANGED <<opts, maxVar, original, db, todo, conflict, unsat, unsatConstraint, pc>>
          /\ \/ t' = NewTrailLevel(t, 0)
             \/ \E l \in Undefined(t, constraint) : t' = AssumeDecision(t, l)
      BY <1>5, <2>3 DEF DecideConstraint, apiVars
    <3>2. \A l \in Undefined(t, constraint) : l \in LitsOf(maxVar) /\ Val(t, l) = 0
      BY <2>1 DEF Undefined
    <3> QED
      BY <1>2, <3>1, <3>2, OpensKeeps
  <2> QED
    BY <2>2, <2>3
<1>6. CASE DecideVariable
  <2>1. /\ UNCHANGED <<opts, maxVar, original, db, todo, conflict, unsat, unsatConstraint, pc>>
        /\ \E l \in Undefined(t, LitsOf(maxVar)) : t' = AssumeDecision(t, l)
    BY <1>6 DEF DecideVariable, apiVars
  <2>2. \A l \in Undefined(t, LitsOf(maxVar)) : l \in LitsOf(maxVar) /\ Val(t, l) = 0
    BY DEF Undefined
  <2> QED
    BY <1>2, <2>1, <2>2, OpensKeeps
<1> QED
  BY <1>4, <1>5, <1>6

-----------------------------------------------------------------------------
(* Reductions.                                                             *)

\* The values of the root level.
LEMMA FixedFacts ==
  ASSUME NEW tr, Shape(tr), NEW l \in Int
  PROVE  /\ Fixed(tr, l) \in {-1, 0, 1}
         /\ Fixed(tr, l) > 0 <=> Val(tr, l) = 1 /\ LevelOf(tr, l) = 0
         /\ Fixed(tr, l) < 0 <=> Val(tr, l) = -1 /\ LevelOf(tr, l) = 0
<1>1. Val(tr, l) \in {-1, 0, 1}
  BY Values DEF Shape
<1> QED
  BY <1>1 DEF Fixed

\* When a reduction collects clauses.
Reducing ==
  /\ ~unsat /\ Propagated
  /\ Level(t) = 0 \/ ~OutOfOrderUnits(t)

\* No clause that is not satisfied at the root level watches a literal that is
\* false there.
LEMMA WatchSurvives ==
  ASSUME SearchInv, Reducing, NEW i \in DOMAIN db, ~db[i].garbage,
         \A l \in db[i].lits : ~(Fixed(t, l) > 0),
         NEW w \in db[i].watch
  PROVE  ~(Fixed(t, w) < 0)
<1>1. /\ Shape(t) /\ maxVar \in Nat /\ IsDatabase(maxVar, db) /\ Level(t) \in Nat
      /\ t.propagated = Len(t.trail) /\ ~unsat /\ todo = {} /\ conflict = 0
      /\ Len(t.trail) \in Nat /\ t \in Trails
  BY GraphFacts DEF Reducing, Propagated
<1>2. WatchOK(t, t.propagated, db[i]) /\ db[i] \in Clauses(maxVar) /\ db[i].watch \subseteq db[i].lits
  BY <1>1, ClauseTypes DEF SearchInv, CoreInv, WatchInv, Bound
<1>3. \A l \in db[i].lits : l \in Int /\ l \in LitsOf(maxVar)
  BY <1>2, <1>1, ClauseLits
<1> SUFFICES ASSUME Fixed(t, w) < 0 PROVE FALSE
  OBVIOUS
<1>4. w \in Int /\ Val(t, w) = -1 /\ LevelOf(t, w) = 0
  BY <1>1, <1>2, <1>3, FixedFacts
<1>5. Pos(t, w) \in Nat /\ Pos(t, w) <= Len(t.trail) /\ Pos(t, w) \in Positions(t)
      /\ t.trail[Pos(t, w)].level = 0
  BY <1>1, <1>4, AssignedFacts
<1>6. PICK l \in db[i].lits : Val(t, l) = 1 /\ Cover(t, l, w)
  BY <1>1, <1>2, <1>4, <1>5 DEF WatchOK, DoneTo
<1>7. LevelOf(t, l) \in Nat /\ LevelOf(t, l) <= Level(t) /\ LevelOf(t, l) # 0
  BY <1>1, <1>3, <1>6, AssignedFacts, FixedFacts
<1>8. t.control[LevelOf(t, l)].trail < Pos(t, w)
  BY <1>4, <1>6, <1>7 DEF Cover
<1>9. 1 \in 1..Level(t) /\ LevelOf(t, l) \in 1..Level(t)
  BY <1>1, <1>7
<1>10. t.control[1].trail <= t.control[LevelOf(t, l)].trail
       /\ t.control[1].trail \in Nat /\ t.control[LevelOf(t, l)].trail \in Nat
  BY <1>1, <1>9, TrailTypes DEF Shape, Heights
<1>11. Pos(t, w) \in t.control[1].trail + 1..Len(t.trail)
  BY <1>1, <1>5, <1>8, <1>10
<1>12. OutOfOrderUnits(t) /\ Level(t) > 0
  BY <1>1, <1>5, <1>9, <1>11 DEF OutOfOrderUnits
<1> QED
  BY <1>12 DEF Reducing

\* A clause that was reduced.
Reduced(tr, c, r) ==
  /\ r.watch = c.watch /\ r.redundant = c.redundant /\ r.lits \subseteq c.lits
  /\ \A l \in c.lits \ r.lits : Fixed(tr, l) < 0
  /\ c.garbage => r.garbage
  /\ r.garbage /\ ~c.garbage => \E l \in c.lits : Fixed(tr, l) > 0

\* What is left of a clause.
LEMMA RemoveFixedFacts ==
  ASSUME SearchInv, Reducing, NEW i \in DOMAIN db
  PROVE  GoodClause(maxVar, RemoveFixed(db[i])) /\ Reduced(t, db[i], RemoveFixed(db[i]))
<1> DEFINE c == db[i]
           r == RemoveFixed(c)
           false == {l \in c.lits : Fixed(t, l) < 0}
           good == \E l \in c.lits : Fixed(t, l) > 0
<1>1. /\ maxVar \in Nat /\ IsDatabase(maxVar, db)
  BY GraphFacts
<1>2. /\ c \in Clauses(maxVar) /\ Cardinality(c.lits) >= 2 /\ Watching(c)
      /\ c.lits \subseteq LitsOf(maxVar) /\ IsFiniteSet(c.lits) /\ c.watch \subseteq c.lits
      /\ c.redundant \in BOOLEAN /\ c.garbage \in BOOLEAN
  BY <1>1, ClauseTypes
<1>3. r = IF c.garbage THEN c
          ELSE IF good THEN [c EXCEPT !.garbage = TRUE]
          ELSE IF Cardinality(c.lits \ false) < 2 THEN c
          ELSE [c EXCEPT !.lits = @ \ false, !.watch = @ \ false]
  BY DEF RemoveFixed
<1>4. good <=> \E l \in c.lits : Fixed(t, l) > 0
  OBVIOUS
<1>5. \A l \in false : l \in c.lits /\ Fixed(t, l) < 0
  OBVIOUS
<1>6. ~c.garbage /\ ~good => c.watch \ false = c.watch
  BY <1>2, WatchSurvives
<1> HIDE DEF c, r, false, good
<1>7. CASE r = c
  BY <1>2, <1>4, <1>7 DEF GoodClause, Reduced, c, r
<1>8. CASE ~c.garbage /\ good /\ r = [c EXCEPT !.garbage = TRUE]
  <2>1. r = [lits |-> c.lits, watch |-> c.watch, redundant |-> c.redundant, garbage |-> TRUE]
    BY <1>2, <1>8, ClauseFields
  <2>2. r \in Clauses(maxVar)
    BY <1>2, <2>1 DEF Clauses
  <2>3. r.lits = c.lits /\ r.watch = c.watch /\ r.redundant = c.redundant
    BY <2>1
  <2>4. GoodClause(maxVar, r)
    BY <1>2, <2>2, <2>3 DEF GoodClause, Watching
  <2>5. Reduced(t, c, r)
    BY <1>4, <1>8, <2>1, <2>3 DEF Reduced
  <2> QED
    BY <2>4, <2>5 DEF c, r
<1>9. CASE /\ ~c.garbage /\ ~good /\ ~(Cardinality(c.lits \ false) < 2)
           /\ r = [c EXCEPT !.lits = @ \ false, !.watch = @ \ false]
  <2>1. r = [lits |-> c.lits \ false, watch |-> c.watch \ false,
             redundant |-> c.redundant, garbage |-> c.garbage]
    <3>1. c = [lits |-> c.lits, watch |-> c.watch, redundant |-> c.redundant,
               garbage |-> c.garbage]
      BY <1>2 DEF Clauses
    <3> QED
      BY <1>9, <3>1
  <2>2. r = [lits |-> c.lits \ false, watch |-> c.watch,
             redundant |-> c.redundant, garbage |-> c.garbage]
    BY <1>6, <1>9, <2>1
  <2>3. /\ r.lits = c.lits \ false /\ r.watch = c.watch /\ r.redundant = c.redundant
        /\ r.garbage = c.garbage
    BY <2>2
  <2>4. r \in Clauses(maxVar)
    <3>1. c.lits \ false \subseteq LitsOf(maxVar) /\ c.watch \subseteq LitsOf(maxVar)
      BY <1>2
    <3> QED
      BY <1>2, <2>2, <3>1 DEF Clauses
  <2>5. Watching(r)
    <3>1. PICK a, b \in c.lits : a # b /\ c.watch = {a, b}
      BY <1>2 DEF Watching
    <3>2. c.watch \cap false = {}
      BY <1>6, <1>9
    <3>3. a \in r.lits /\ b \in r.lits
      BY <2>3, <3>1, <3>2
    <3> QED
      BY <2>3, <3>1, <3>3 DEF Watching
  <2>6. Cardinality(r.lits) >= 2
    <3>1. IsFiniteSet(c.lits \ false)
      BY <1>2, FS_Difference
    <3>2. Cardinality(c.lits \ false) \in Nat
      BY <3>1, FS_CardinalityType
    <3> QED
      BY <1>9, <2>3, <3>2
  <2>7. Reduced(t, c, r)
    BY <1>5, <1>9, <2>3 DEF Reduced
  <2> QED
    BY <2>4, <2>5, <2>6, <2>7 DEF GoodClause, c, r
<1> QED
  BY <1>3, <1>7, <1>8, <1>9

\* What is left of a clause says what the clause says, given the units.
LEMMA ReducedSays ==
  ASSUME SearchInv, NEW i \in DOMAIN db, NEW r, Reduced(t, db[i], r),
         NEW T, RootHolds(T, t)
  PROVE  /\ SatClause(T, db[i].lits) <=> SatClause(T, r.lits)
         /\ r.garbage /\ ~db[i].garbage => SatClause(T, db[i].lits)
<1>1. Shape(t) /\ maxVar \in Nat /\ IsDatabase(maxVar, db)
  BY GraphFacts
<1>2. \A l \in db[i].lits : l \in Int /\ l \in LitsOf(maxVar)
  BY <1>1, ClauseLits
<1>3. ASSUME NEW l \in db[i].lits, Fixed(t, l) < 0 PROVE ~SatLit(T, l)
  <2>1. Val(t, l) = -1 /\ LevelOf(t, l) = 0
    BY <1>1, <1>2, <1>3, FixedFacts
  <2> QED
    BY <1>1, <1>2, <2>1, RootValue
<1>4. ASSUME NEW l \in db[i].lits, Fixed(t, l) > 0 PROVE SatLit(T, l)
  <2>1. Val(t, l) = 1 /\ LevelOf(t, l) = 0
    BY <1>1, <1>2, <1>4, FixedFacts
  <2> QED
    BY <1>1, <1>2, <2>1, RootValue
<1>5. SatClause(T, db[i].lits) => SatClause(T, r.lits)
  BY <1>3 DEF SatClause, Reduced
<1>6. SatClause(T, r.lits) => SatClause(T, db[i].lits)
  BY DEF SatClause, Reduced
<1>7. r.garbage /\ ~db[i].garbage => SatClause(T, db[i].lits)
  BY <1>4 DEF SatClause, Reduced
<1> QED
  BY <1>5, <1>6, <1>7

\* What a reduction leaves of the clauses: the reasons and the irredundant
\* clauses that are no garbage, at least.
Collected(s) ==
  /\ s = [i \in DOMAIN s |-> s[i]] /\ DOMAIN s \subseteq DOMAIN db
  /\ \A i \in DOMAIN s : GoodClause(maxVar, s[i]) /\ Reduced(t, db[i], s[i])
  /\ \A i \in DOMAIN db \ DOMAIN s :
       /\ i \notin Reasons
       /\ ~db[i].redundant /\ ~db[i].garbage => \E l \in db[i].lits : Fixed(t, l) > 0

\* The graph stays.
LEMMA CollectedGraph ==
  ASSUME SearchInv, NEW s, Collected(s)
  PROVE  Founded(opts.chrono, maxVar, s, t)
<1>1. /\ Founded(opts.chrono, maxVar, db, t) /\ Shape(t) /\ maxVar \in Nat /\ IsDatabase(maxVar, db)
      /\ Graph(db, t) /\ t \in Trails /\ Distinct(t) /\ Over(maxVar, t)
  BY GraphFacts DEF SearchInv, CoreInv, GraphInv, Shape
<1>2. IsDatabase(maxVar, s)
  <2>1. DOMAIN s \subseteq Nat \ {0} /\ IsFiniteSet(DOMAIN s)
    BY <1>1, FS_Subset DEF Collected, IsDatabase
  <2> QED
    BY <2>1 DEF Collected, IsDatabase, GoodClause
<1>3. ASSUME NEW k \in Positions(t) PROVE Reasoned(s, t, k) /\ Protected(s, t, k)
  <2> DEFINE e == t.trail[k]
             i == e.reason
  <2> SUFFICES ASSUME i # NoReason PROVE Reasoned(s, t, k) /\ Protected(s, t, k)
    BY DEF Reasoned, Protected
  <2>1. /\ i \in DOMAIN db /\ e.level > 0 /\ e.lit \in db[i].lits
        /\ \A l \in db[i].lits \ {e.lit} : Val(t, l) = -1 /\ Pos(t, l) < k /\ LevelOf(t, l) <= e.level
        /\ \E l \in db[i].lits \ {e.lit} : LevelOf(t, l) = e.level
        /\ Cardinality(db[i].lits) > 2 => ~db[i].garbage
    BY <1>1 DEF Graph, Reasoned, Protected
  <2>2. i \in DOMAIN s
    BY <2>1 DEF Collected, Reasons
  <2>3. Reduced(t, db[i], s[i]) /\ IsFiniteSet(db[i].lits)
    BY <1>1, <2>1, <2>2, ClauseTypes DEF Collected
  <2>4. \A l \in db[i].lits : l \in Int
    BY <1>1, <2>1, ClauseLits
  <2>5. \A l \in db[i].lits : Fixed(t, l) < 0 => Val(t, l) = -1 /\ LevelOf(t, l) = 0
    BY <1>1, <2>4, FixedFacts
  <2>6. Val(t, e.lit) = 1 /\ LevelOf(t, e.lit) = e.level
    BY <1>1, AtPosition
  <2>7. \A l \in db[i].lits : ~(Fixed(t, l) > 0)
    <3> SUFFICES ASSUME NEW l \in db[i].lits, Fixed(t, l) > 0 PROVE FALSE
      OBVIOUS
    <3>1. Val(t, l) = 1 /\ LevelOf(t, l) = 0
      BY <1>1, <2>4, FixedFacts
    <3> QED
      BY <2>1, <2>6, <3>1
  <2> HIDE DEF e
  <2>8. s[i].lits \subseteq db[i].lits
    BY <2>3 DEF Reduced
  <2>9. e.lit \in s[i].lits
    BY <2>1, <2>3, <2>5, <2>6 DEF Reduced
  <2>10. \E l \in s[i].lits \ {e.lit} : LevelOf(t, l) = e.level
    <3>1. PICK l \in db[i].lits \ {e.lit} : LevelOf(t, l) = e.level
      BY <2>1
    <3>2. ~(Fixed(t, l) < 0)
      BY <2>1, <2>5, <3>1
    <3>3. l \in s[i].lits
      BY <2>3, <3>1, <3>2 DEF Reduced
    <3> QED
      BY <3>1, <3>3
  <2>11. Reasoned(s, t, k)
    BY <2>1, <2>2, <2>8, <2>9, <2>10 DEF Reasoned, e
  <2>12. Protected(s, t, k)
    <3> SUFFICES ASSUME Cardinality(s[i].lits) > 2 PROVE ~s[i].garbage
      BY DEF Protected, e
    <3>1. /\ Cardinality(s[i].lits) <= Cardinality(db[i].lits)
          /\ Cardinality(s[i].lits) \in Nat /\ Cardinality(db[i].lits) \in Nat
      BY <2>3, <2>8, FS_Subset, FS_CardinalityType
    <3>2. ~db[i].garbage
      BY <2>1, <3>1
    <3> QED
      BY <2>3, <2>7, <3>2 DEF Reduced
  <2> QED
    BY <2>11, <2>12
<1> QED
  BY <1>1, <1>2, <1>3 DEF Founded, Graph

\* So do the watches.
LEMMA CollectedWatches ==
  ASSUME SearchInv, Reducing, NEW s, Collected(s), NEW i \in DOMAIN s, ~s[i].garbage
  PROVE  WatchOK(t, t.propagated, s[i])
<1>1. /\ Shape(t) /\ maxVar \in Nat /\ IsDatabase(maxVar, db)
      /\ ~unsat /\ todo = {} /\ conflict = 0
  BY GraphFacts DEF Reducing, Propagated
<1>2. i \in DOMAIN db /\ Reduced(t, db[i], s[i])
  BY DEF Collected
<1>3. ~db[i].garbage
  BY <1>2 DEF Reduced
<1>4. WatchOK(t, t.propagated, db[i])
  BY <1>1, <1>2, <1>3 DEF SearchInv, CoreInv, WatchInv, Bound
<1>5. \A l \in db[i].lits : l \in Int
  BY <1>1, <1>2, ClauseLits
<1>6. \A l \in db[i].lits : Val(t, l) = 1 => l \in s[i].lits
  <2> SUFFICES ASSUME NEW l \in db[i].lits, Val(t, l) = 1, l \notin s[i].lits PROVE FALSE
    OBVIOUS
  <2>1. Fixed(t, l) < 0
    BY <1>2 DEF Reduced
  <2> QED
    BY <1>1, <1>5, <2>1, FixedFacts
<1>7. s[i].watch = db[i].watch
  BY <1>2 DEF Reduced
<1> QED
  BY <1>4, <1>6, <1>7 DEF WatchOK

\* And what the clauses say.
LEMMA CollectedSays ==
  ASSUME SearchInv, NEW s, Collected(s), NEW T, RootHolds(T, t)
  PROVE  /\ AllHold(T, db) => AllHold(T, s)
         /\ CoreHolds(T, s) => CoreHolds(T, db)
<1>1. ASSUME AllHold(T, db) PROVE AllHold(T, s)
  <2> SUFFICES ASSUME NEW i \in DOMAIN s PROVE SatClause(T, s[i].lits)
    BY DEF AllHold
  <2>1. i \in DOMAIN db /\ Reduced(t, db[i], s[i]) /\ SatClause(T, db[i].lits)
    BY <1>1 DEF Collected, AllHold
  <2> QED
    BY <2>1, ReducedSays
<1>2. ASSUME CoreHolds(T, s) PROVE CoreHolds(T, db)
  <2> SUFFICES ASSUME NEW i \in DOMAIN db, ~db[i].redundant, ~db[i].garbage
               PROVE  SatClause(T, db[i].lits)
    BY DEF CoreHolds
  <2>1. CASE i \in DOMAIN s
    <3>1. Reduced(t, db[i], s[i]) /\ s[i].redundant = db[i].redundant
      BY <2>1 DEF Collected, Reduced
    <3>2. CASE s[i].garbage
      BY <3>1, <3>2, ReducedSays
    <3>3. CASE ~s[i].garbage
      BY <1>2, <2>1, <3>1, <3>3, ReducedSays DEF CoreHolds
    <3> QED
      BY <3>2, <3>3
  <2>2. CASE i \notin DOMAIN s
    <3>1. PICK l \in db[i].lits : Fixed(t, l) > 0
      BY <2>2 DEF Collected
    <3>2. Shape(t) /\ l \in Int /\ l \in LitsOf(maxVar)
      BY GraphFacts, ClauseLits
    <3>3. Val(t, l) = 1 /\ LevelOf(t, l) = 0
      BY <3>1, <3>2, FixedFacts
    <3>4. SatLit(T, l)
      BY <3>2, <3>3, RootValue
    <3> QED
      BY <3>4 DEF SatClause
  <2> QED
    BY <2>1, <2>2
<1> QED
  BY <1>1, <1>2

\* A reduction.
LEMMA ReduceStep ==
  ASSUME SearchInv, Reduce
  PROVE  CoreInv'
<1> DEFINE marked == [i \in DOMAIN db |-> RemoveFixed(db[i])]
           garbage == {i \in DOMAIN db \ Reasons : marked[i].garbage}
           candidates == {i \in DOMAIN db \ (Reasons \cup garbage) : marked[i].redundant}
<1>1. /\ pc = "reduce" /\ ~unsat /\ Propagated /\ pc' = "search"
      /\ UNCHANGED <<opts, maxVar, original, t, todo, conflict, unsat, unsatConstraint>>
      /\ \E useless \in SUBSET candidates :
           db' = [i \in DOMAIN db \ (garbage \cup useless) |-> marked[i]]
  BY DEF Reduce, apiVars
<1>2. Reducing
  BY <1>1 DEF Reducing, SearchInv, CoreInv, QuietInv
<1>3. PICK useless \in SUBSET candidates :
        db' = [i \in DOMAIN db \ (garbage \cup useless) |-> marked[i]]
  BY <1>1
<1>4. todo = {} /\ conflict = 0
  BY <1>1 DEF Propagated
<1>5. Collected(db')
  <2>1. \A i \in DOMAIN db : marked[i] = RemoveFixed(db[i])
    OBVIOUS
  <2>2. \A i \in DOMAIN db : GoodClause(maxVar, marked[i]) /\ Reduced(t, db[i], marked[i])
    BY <1>2, <2>1, RemoveFixedFacts
  <2> HIDE DEF marked
  <2>3. /\ DOMAIN db' = DOMAIN db \ (garbage \cup useless)
        /\ \A i \in DOMAIN db' : db'[i] = marked[i]
        /\ db' = [i \in DOMAIN db' |-> db'[i]]
    BY <1>3
  <2>4. ASSUME NEW i \in DOMAIN db \ DOMAIN db'
        PROVE  /\ i \notin Reasons
               /\ ~db[i].redundant /\ ~db[i].garbage => \E l \in db[i].lits : Fixed(t, l) > 0
    <3>1. i \in garbage \/ i \in candidates
      BY <2>3, <2>4
    <3>2. CASE i \in garbage
      BY <2>2, <3>2 DEF Reduced
    <3>3. CASE i \in candidates
      BY <2>2, <3>3 DEF Reduced
    <3> QED
      BY <3>1, <3>2, <3>3
  <2> QED
    BY <2>2, <2>3, <2>4 DEF Collected
<1>6. GraphInv'
  BY <1>1, <1>5, CollectedGraph DEF GraphInv
<1>7. QuietInv'
  BY <1>1, <1>4 DEF SearchInv, CoreInv, QuietInv, Propagated
<1>8. VisitInv' /\ ConflictInv'
  BY <1>1, <1>4 DEF VisitInv, ConflictInv
<1>9. WatchInv'
  BY <1>1, <1>2, <1>4, <1>5, CollectedWatches DEF WatchInv, Bound
<1>10. FormulaInv'
  <2>1. \A T : RootHolds(T, t) /\ AllHold(T, db) => AllHold(T, db')
    BY <1>5, CollectedSays
  <2>2. \A T : RootHolds(T, t) /\ CoreHolds(T, db') => CoreHolds(T, db)
    BY <1>5, CollectedSays
  <2> QED
    BY <1>1, <2>1, <2>2 DEF SearchInv, CoreInv, FormulaInv, Good
<1> QED
  BY <1>6, <1>7, <1>8, <1>9, <1>10 DEF CoreInv

-----------------------------------------------------------------------------
(* The calls of the user.                                                  *)

\* One of two numbers, the second one lower by one but not negative.
LEMMA MaxOfZero ==
  ASSUME NEW x \in Nat
  PROVE  Max({0, x - 1}) \in 0..x
<1> DEFINE S == {0, x - 1}
<1>1. S \subseteq Int
  OBVIOUS
<1>2. \E y \in S : \A z \in S : y >= z
  <2>1. CASE x = 0
    <3>1. 0 >= 0 /\ 0 >= x - 1
      BY <2>1
    <3> QED
      BY <3>1
  <2>2. CASE x # 0
    <3>1. x - 1 >= 0 /\ x - 1 >= x - 1
      BY <2>2
    <3> QED
      BY <3>1
  <2> QED
    BY <2>1, <2>2
<1>3. Max(S) \in S /\ \A z \in S : Max(S) >= z
  <2> HIDE DEF S
  <2> QED
    BY <1>2 DEF Max
<1>4. Max(S) \in Int /\ Max(S) >= 0 /\ (Max(S) = 0 \/ Max(S) = x - 1)
  BY <1>1, <1>3
<1> QED
  BY <1>4

\* Unknown variables extend the range.
LEMMA InternalizeFacts ==
  ASSUME ApiTypes, NEW lits, lits \subseteq LitsOf(MaxVar), Internalize(lits)
  PROVE  /\ maxVar' \in Nat /\ maxVar <= maxVar' /\ maxVar' <= MaxVar
         /\ lits \subseteq LitsOf(maxVar') /\ LitsOf(maxVar) \subseteq LitsOf(maxVar')
<1> DEFINE S == {maxVar} \cup {VarOf(l) : l \in lits}
<1>1. maxVar \in Nat /\ maxVar <= MaxVar /\ MaxVar \in Nat
  BY ConstantTypes DEF ApiTypes
<1>2. \A l \in lits : VarOf(l) \in 1..MaxVar
  BY LitFacts
<1>3. S \subseteq Nat /\ S # {} /\ \A x \in S : x <= MaxVar
  BY <1>1, <1>2
<1>4. Max(S) \in S /\ \A x \in S : x <= Max(S)
  BY <1>1, <1>3, MaxIsGreatest
<1>5. maxVar' = Max(S)
  BY DEF Internalize
<1>6. maxVar' \in Nat /\ maxVar <= maxVar' /\ maxVar' <= MaxVar
  BY <1>1, <1>3, <1>4, <1>5
<1>7. lits \subseteq LitsOf(maxVar')
  <2> SUFFICES ASSUME NEW l \in lits PROVE l \in LitsOf(maxVar')
    OBVIOUS
  <2>1. VarOf(l) \in S
    OBVIOUS
  <2>2. VarOf(l) <= maxVar' /\ VarOf(l) \in 1..MaxVar
    BY <1>2, <1>4, <1>5, <2>1
  <2>3. l \in Int
    BY LitFacts
  <2> QED
    BY <1>6, <2>2, <2>3 DEF VarOf, LitsOf
<1>8. LitsOf(maxVar) \subseteq LitsOf(maxVar')
  BY <1>1, <1>6, MoreLits
<1> QED
  BY <1>6, <1>7, <1>8

\* When the user may call.
LEMMA ReadyFacts ==
  ASSUME SearchInv, Ready
  PROVE  /\ pc = "ready" /\ todo = {} /\ (conflict = 0 \/ unsat)
         /\ (~unsat => AllWatched(t, db))
         /\ (Level(t) = 0 => unsat \/ Propagated)
<1>1. pc = "ready" /\ todo = {} /\ (conflict = 0 \/ unsat)
  BY GraphFacts DEF SearchInv, CoreInv, QuietInv, Ready, Propagated
<1>2. ~unsat => AllWatched(t, db)
  BY <1>1 DEF SearchInv, CoreInv, WatchInv, AllWatched, Bound
<1>3. Level(t) = 0 => unsat \/ Propagated
  BY GraphFacts DEF Ready
<1> QED
  BY <1>1, <1>2, <1>3

\* Between the calls the trail may be backtracked.
LEMMA ReadyBacktrack ==
  ASSUME SearchInv, Ready, UNCHANGED <<opts, original, db, todo, conflict, unsat, pc>>,
         unsatConstraint' = unsatConstraint \/ Level(t') = 0,
         maxVar' \in Nat, maxVar <= maxVar',
         NEW m \in 0..Level(t), t' = Backtrack(t, m)
  PROVE  CoreInv'
<1>1. pc = "ready" /\ todo = {} /\ (conflict = 0 \/ unsat)
  BY ReadyFacts
<1>2. /\ GraphInv' /\ VisitInv' /\ ConflictInv' /\ WatchInv' /\ FormulaInv'
      /\ Level(t') = m
  BY <1>1, BacktrackKeeps
<1>3. unsatConstraint' => Level(t') = 0
  <2>1. unsatConstraint => Level(t) = 0
    BY <1>1 DEF SearchInv, CoreInv, QuietInv
  <2>2. Level(t) = 0 => m = 0
    OBVIOUS
  <2> QED
    BY <1>2, <2>1, <2>2
<1>4. QuietInv'
  BY <1>1, <1>3 DEF QuietInv
<1> QED
  BY <1>2, <1>4 DEF CoreInv

\* The next round.
LEMMA NextRoundStep ==
  ASSUME SearchInv, NextRound
  PROVE  CoreInv'
<1>1. /\ pc = "done" /\ pc' = "ready" /\ unsatConstraint' = FALSE
      /\ UNCHANGED <<opts, maxVar, original, db, t, todo, conflict, unsat>>
  BY DEF NextRound, searchVars
<1>2. GraphInv' /\ VisitInv' /\ ConflictInv' /\ WatchInv' /\ FormulaInv'
  BY <1>1 DEF SearchInv, CoreInv, GraphInv, VisitInv, ConflictInv, WatchInv, FormulaInv, Visiting,
         PropagatedLit, Bound
<1>3. QuietInv'
  BY <1>1 DEF SearchInv, CoreInv, QuietInv
<1> QED
  BY <1>2, <1>3 DEF CoreInv

\* The failed assumptions.
LEMMA MarkFailedStep ==
  ASSUME SearchInv, MarkFailed
  PROVE  CoreInv'
<1>1. UNCHANGED <<opts, maxVar, original, db, t, todo, conflict, unsat, unsatConstraint, pc>>
  BY DEF MarkFailed, apiVars, searchVars
<1> QED
  BY <1>1 DEF SearchInv, CoreInv, GraphInv, VisitInv, ConflictInv, WatchInv, FormulaInv, Visiting,
         PropagatedLit, Bound, QuietInv, Propagated

\* What the user will do.
LEMMA InputTypes ==
  ASSUME SearchInv, input # <<>>
  PROVE  /\ input[1] \in RoundType
         /\ input[1].add \in Seq(ClausesAdded) /\ input[1].assume \in Seq(LitsOf(MaxVar))
         /\ input[1].constrain \subseteq SUBSET LitsOf(MaxVar)
         /\ Len(input) \in Nat /\ Len(input) > 0 /\ Tail(input) \in Seq(RoundType)
         /\ DOMAIN input = 1..Len(input)
<1>1. input \in Seq(RoundType)
  BY DEF SearchInv, ApiTypes
<1>2. input[1] \in RoundType /\ Len(input) \in Nat /\ Len(input) > 0 /\ Tail(input) \in Seq(RoundType)
      /\ DOMAIN input = 1..Len(input)
  BY <1>1
<1> QED
  BY <1>1, <1>2 DEF RoundType

\* A field of what is left of a round changes.
LEMMA RoundFields ==
  ASSUME SearchInv, input # <<>>
  PROVE  /\ \A x \in Seq(ClausesAdded) : [input EXCEPT ![1].add = x] \in Seq(RoundType)
         /\ \A x \in Seq(LitsOf(MaxVar)) : [input EXCEPT ![1].assume = x] \in Seq(RoundType)
         /\ [input EXCEPT ![1].constrain = {}] \in Seq(RoundType)
<1>1. /\ input[1] \in RoundType /\ Len(input) \in Nat /\ Len(input) > 0
      /\ DOMAIN input = 1..Len(input) /\ input \in Seq(RoundType)
  BY InputTypes DEF SearchInv, ApiTypes
<1>2. ASSUME NEW r \in RoundType PROVE [input EXCEPT ![1] = r] \in Seq(RoundType)
  BY <1>1
<1>3. \A x \in Seq(ClausesAdded) : [input[1] EXCEPT !.add = x] \in RoundType
  BY <1>1 DEF RoundType
<1>4. \A x \in Seq(LitsOf(MaxVar)) : [input[1] EXCEPT !.assume = x] \in RoundType
  BY <1>1 DEF RoundType
<1>5. [input[1] EXCEPT !.constrain = {}] \in RoundType
  BY <1>1 DEF RoundType
<1> QED
  BY <1>2, <1>3, <1>4, <1>5

\* An assumption.
LEMMA AssumeStep ==
  ASSUME SearchInv, Assume
  PROVE  ApiTypes' /\ CoreInv' /\ \E m \in 0..Level(t) : t' = Backtrack(t, m)
<1> DEFINE l == Head(input[1].assume)
<1>1. /\ Ready /\ input # <<>> /\ input[1].assume # <<>>
      /\ t' = IF ~opts.ilbassumptions THEN Backtrack(t, 0)
              ELSE IF Val(t, l) < 0 THEN Backtrack(t, Max({0, LevelOf(t, l) - 1})) ELSE t
      /\ assumptions' = IF l \in Rng(assumptions) THEN assumptions ELSE Append(assumptions, l)
      /\ input' = [input EXCEPT ![1].assume = Tail(@)] /\ Internalize({l})
      /\ UNCHANGED <<opts, original, constrained, constraint, db, todo, conflict, unsat,
                     unsatConstraint, pc>>
  BY DEF Assume
<1>2. input[1].assume \in Seq(LitsOf(MaxVar))
  BY <1>1, InputTypes
<1>3. l \in LitsOf(MaxVar) /\ Tail(input[1].assume) \in Seq(LitsOf(MaxVar))
  BY <1>1, <1>2
<1>4. /\ maxVar' \in Nat /\ maxVar <= maxVar' /\ maxVar' <= MaxVar
      /\ l \in LitsOf(maxVar') /\ LitsOf(maxVar) \subseteq LitsOf(maxVar')
  BY <1>1, <1>3, InternalizeFacts DEF SearchInv
<1>5. /\ ApiTypes /\ Level(t) \in Nat /\ Shape(t) /\ t \in Trails
  BY GraphFacts DEF SearchInv
<1>6. ApiTypes'
  <2>1. input' \in Seq(RoundType)
    BY <1>1, <1>3, RoundFields
  <2>2. assumptions' \in Seq(LitsOf(maxVar'))
    <3>1. assumptions \in Seq(LitsOf(maxVar'))
      BY <1>4, <1>5 DEF ApiTypes
    <3> QED
      BY <1>1, <1>4, <3>1
  <2> QED
    BY <1>1, <1>4, <1>5, <2>1, <2>2 DEF ApiTypes
<1>7. \E m \in 0..Level(t) : t' = Backtrack(t, m)
  <2>1. CASE t' = t
    <3>1. Backtrack(t, Level(t)) = t /\ Level(t) \in 0..Level(t)
      BY <1>5 DEF Backtrack
    <3> QED
      BY <2>1, <3>1
  <2>2. CASE t' = Backtrack(t, 0)
    BY <1>5, <2>2
  <2>3. CASE Val(t, l) < 0 /\ t' = Backtrack(t, Max({0, LevelOf(t, l) - 1}))
    <3>1. l \in Int
      BY <1>3, LitFacts
    <3>2. LevelOf(t, l) \in Nat /\ LevelOf(t, l) <= Level(t)
      BY <1>5, <2>3, <3>1, AssignedFacts
    <3>3. Max({0, LevelOf(t, l) - 1}) \in 0..LevelOf(t, l)
      BY <3>2, MaxOfZero
    <3>4. Max({0, LevelOf(t, l) - 1}) \in 0..Level(t)
      BY <1>5, <3>2, <3>3
    <3> QED
      BY <2>3, <3>4
  <2> QED
    BY <1>1, <2>1, <2>2, <2>3
<1>8. CoreInv'
  BY <1>1, <1>4, <1>7, ReadyBacktrack
<1> QED
  BY <1>6, <1>7, <1>8

\* A constraint.
LEMMA ConstrainStep ==
  ASSUME SearchInv, Constrain
  PROVE  ApiTypes' /\ CoreInv' /\ Level(t') = 0
<1> DEFINE c == CHOOSE x \in input[1].constrain : TRUE
<1>1. /\ Ready /\ input # <<>> /\ input[1].constrain # {}
      /\ input' = [input EXCEPT ![1].constrain = {}]
      /\ constrained' = {c} /\ Internalize(c)
      /\ t' = Backtrack(t, 0)
      /\ constraint' \subseteq c
      /\ UNCHANGED <<opts, original, assumptions, db, todo, conflict, unsat, pc>>
  BY DEF Constrain
<1>2. c \subseteq LitsOf(MaxVar)
  BY <1>1, InputTypes
<1>3. /\ maxVar' \in Nat /\ maxVar <= maxVar' /\ maxVar' <= MaxVar
      /\ c \subseteq LitsOf(maxVar') /\ LitsOf(maxVar) \subseteq LitsOf(maxVar')
  BY <1>1, <1>2, InternalizeFacts DEF SearchInv
<1>4. ApiTypes /\ Level(t) \in Nat /\ 0 \in 0..Level(t) /\ todo = {} /\ (conflict = 0 \/ unsat)
  BY <1>1, GraphFacts, ReadyFacts DEF SearchInv
<1>5. ApiTypes'
  <2>1. input' \in Seq(RoundType)
    BY <1>1, RoundFields
  <2>2. assumptions \in Seq(LitsOf(maxVar'))
    BY <1>3, <1>4 DEF ApiTypes
  <2> QED
    BY <1>1, <1>3, <1>4, <2>1, <2>2 DEF ApiTypes
<1>6. Level(t') = 0
  BY <1>1, <1>3, <1>4, BacktrackKeeps
<1>7. CoreInv'
  BY <1>1, <1>3, <1>4, <1>6, ReadyBacktrack
<1> QED
  BY <1>5, <1>6, <1>7

\* One step of ReuseAssumptions: the next level decides the next assumption,
\* or the assumption holds below it, or the trail is reused up to here.
ReuseTop(s) ==
  Min({Level(t), Max({0} \cup {LevelOf(t, s[k]) : k \in {j \in DOMAIN s : Val(t, s[j]) # 0}})})

\* A step of the loop that looks how many levels can be kept.
ReuseStep(s, a) ==
  LET i == a.i
      j == a.j
      lit == t.control[i].decision
  IN IF a.stop \/ i > ReuseTop(s) THEN a
     ELSE IF Val(t, s[j]) # 0 /\ LevelOf(t, s[j]) < i
     THEN [a EXCEPT !.j = j + 1, !.target = i]
     ELSE IF lit # 0 /\ lit = s[j] THEN [a EXCEPT !.i = i + 1, !.j = j + 1, !.target = i]
     ELSE [a EXCEPT !.target = i - 1, !.stop = TRUE]

\* The start of that loop.
ReuseStart == [i |-> 1, j |-> 1, target |-> 0, stop |-> FALSE]

\* The steps are taken one after the other.
LEMMA ReuseUnfolds ==
  ASSUME NEW s, Level(t) + Len(s) \in Nat
  PROVE  \E after : /\ after[0] = ReuseStart
                    /\ \A m \in 1..Level(t) + Len(s) : after[m] = ReuseStep(s, after[m - 1])
                    /\ ReuseAssumptions(s) = after[Level(t) + Len(s)].target
<1> DEFINE N == Level(t) + Len(s)
           start == ReuseStart
           top == Min({Level(t), Max({0} \cup {LevelOf(t, s[k]) : k \in {j \in DOMAIN s : Val(t, s[j]) # 0}})})
           Next1(a) ==
             ByValue(LAMBDA x : LET i == x.i
                                    j == x.j
                                    lit == t.control[i].decision
                                IN IF x.stop \/ i > top THEN x
                                   ELSE IF Val(t, s[j]) # 0 /\ LevelOf(t, s[j]) < i
                                   THEN [x EXCEPT !.j = j + 1, !.target = i]
                                   ELSE IF lit # 0 /\ lit = s[j]
                                   THEN [x EXCEPT !.i = i + 1, !.j = j + 1, !.target = i]
                                   ELSE [x EXCEPT !.target = i - 1, !.stop = TRUE], a)
           Def(f, m) == f = [k \in 0..m |-> IF k = 0 THEN start ELSE Next1(f[k - 1])]
           S == {m \in Nat : \E f : Def(f, m)}
<1>3. \A a : Next1(a) = ReuseStep(s, a)
  BY DEF ByValue, ReuseStep, ReuseTop
<1> HIDE DEF Next1, start
<1>4. 0 \in S
  <2>1. Def([k \in 0..0 |-> start], 0)
    OBVIOUS
  <2> QED
    BY <2>1
<1>5. ASSUME NEW m \in Nat, m \in S PROVE m + 1 \in S
  <2>1. PICK f : Def(f, m)
    BY <1>5
  <2> DEFINE g == [k \in 0..m + 1 |-> IF k = m + 1 THEN Next1(f[m]) ELSE f[k]]
  <2>2. \A k \in 0..m + 1 : g[k] = IF k = 0 THEN start ELSE Next1(g[k - 1])
    <3> SUFFICES ASSUME NEW k \in 0..m + 1
                 PROVE  g[k] = IF k = 0 THEN start ELSE Next1(g[k - 1])
      OBVIOUS
    <3>1. CASE k = m + 1
      <4>1. g[k] = Next1(f[m]) /\ k # 0
        BY <3>1
      <4>2. k - 1 = m /\ m \in 0..m + 1 /\ m # m + 1
        BY <3>1
      <4>3. g[k - 1] = f[m]
        BY <4>2
      <4> HIDE DEF g
      <4> QED
        BY <3>1, <4>1, <4>3
    <3>2. CASE k # m + 1
      <4>1. k \in 0..m /\ g[k] = f[k]
        BY <3>2
      <4>2. k # 0 => k - 1 \in 0..m + 1 /\ k - 1 # m + 1 /\ g[k - 1] = f[k - 1]
        BY <3>2
      <4>3. f[k] = IF k = 0 THEN start ELSE Next1(f[k - 1])
        BY <2>1, <4>1
      <4> HIDE DEF g, Def
      <4> QED
        BY <4>1, <4>2, <4>3
    <3> QED
      BY <3>1, <3>2
  <2>3. Def(g, m + 1)
    <3>1. g = [k \in 0..m + 1 |-> g[k]]
      OBVIOUS
    <3> HIDE DEF g
    <3> QED
      BY <2>2, <3>1
  <2> HIDE DEF g, Def
  <2> QED
    BY <2>3
<1>6. N \in S
  <2> HIDE DEF S
  <2> QED
    BY <1>4, <1>5, NatSetInduction
<1> DEFINE after[k \in 0..N] == IF k = 0 THEN start ELSE Next1(after[k - 1])
<1>7. Def(after, N)
  <2>1. after = CHOOSE f : Def(f, N)
    OBVIOUS
  <2>2. \E f : Def(f, N)
    BY <1>6
  <2> HIDE DEF after, Def
  <2> QED
    BY <2>1, <2>2
<1>8. ReuseAssumptions(s) = after[N].target
  BY DEF ReuseAssumptions, ReuseStart, start, Next1
<1> HIDE DEF after
<1>9. after[0] = start /\ \A m \in 1..N : after[m] = ReuseStep(s, after[m - 1])
  <2>1. 0 \in 0..N /\ \A m \in 1..N : m \in 0..N /\ m # 0
    OBVIOUS
  <2> QED
    BY <2>1, <1>3, <1>7
<1> QED
  BY <1>8, <1>9 DEF start

\* The state of the reuse.
IsReuse(a) ==
  /\ a = [i |-> a.i, j |-> a.j, target |-> a.target, stop |-> a.stop]
  /\ a.i \in Nat \ {0} /\ a.j \in Nat \ {0} /\ a.target \in Nat /\ a.stop \in BOOLEAN

\* The two fields of it that change, or three.
LEMMA ReuseFields ==
  ASSUME NEW a, a = [i |-> a.i, j |-> a.j, target |-> a.target, stop |-> a.stop]
  PROVE  /\ [a EXCEPT !.j = a.j + 1, !.target = a.i] =
              [i |-> a.i, j |-> a.j + 1, target |-> a.i, stop |-> a.stop]
         /\ [a EXCEPT !.i = a.i + 1, !.j = a.j + 1, !.target = a.i] =
              [i |-> a.i + 1, j |-> a.j + 1, target |-> a.i, stop |-> a.stop]
         /\ [a EXCEPT !.target = a.i - 1, !.stop = TRUE] =
              [i |-> a.i, j |-> a.j, target |-> a.i - 1, stop |-> TRUE]
<1> DEFINE d == a.j + 1
           e == a.i + 1
           f == a.i - 1
           n == a.i
           stopped == TRUE
<1> HIDE DEF d, e, f, n, stopped
<1> DEFINE R(i1, j1, t1, s1) == [i |-> i1, j |-> j1, target |-> t1, stop |-> s1]
           r == R(n, a.j, a.target, a.stop)
           rj == R(n, d, a.target, a.stop)
           ri == R(e, a.j, a.target, a.stop)
           rij == R(e, d, a.target, a.stop)
           rt == R(n, a.j, f, a.stop)
<1>1. [r EXCEPT !.j = d] = rj /\ [rj EXCEPT !.target = n] = R(n, d, n, a.stop)
  OBVIOUS
<1>2. [r EXCEPT !.i = e] = ri /\ [ri EXCEPT !.j = d] = rij /\ [rij EXCEPT !.target = n] = R(e, d, n, a.stop)
  OBVIOUS
<1>3. [r EXCEPT !.target = f] = rt /\ [rt EXCEPT !.stop = stopped] = R(n, a.j, f, stopped)
  OBVIOUS
<1>4. a = r
  BY DEF n
<1> HIDE DEF r, rj, ri, rij, rt
<1>5. /\ [r EXCEPT !.j = d, !.target = n] = [[r EXCEPT !.j = d] EXCEPT !.target = n]
      /\ [r EXCEPT !.i = e, !.j = d, !.target = n] = [[[r EXCEPT !.i = e] EXCEPT !.j = d] EXCEPT !.target = n]
      /\ [r EXCEPT !.target = f, !.stop = stopped] = [[r EXCEPT !.target = f] EXCEPT !.stop = stopped]
  OBVIOUS
<1>6. /\ [r EXCEPT !.j = d, !.target = n] = R(n, d, n, a.stop)
      /\ [r EXCEPT !.i = e, !.j = d, !.target = n] = R(e, d, n, a.stop)
      /\ [r EXCEPT !.target = f, !.stop = stopped] = R(n, a.j, f, stopped)
  BY <1>1, <1>2, <1>3, <1>5
<1>7. /\ [a EXCEPT !.j = d, !.target = n] = R(n, d, n, a.stop)
      /\ [a EXCEPT !.i = e, !.j = d, !.target = n] = R(e, d, n, a.stop)
      /\ [a EXCEPT !.target = f, !.stop = stopped] = R(n, a.j, f, stopped)
  BY <1>4, <1>6
<1> HIDE DEF R
<1> QED
  BY <1>7 DEF d, e, f, n, stopped, R

\* Its start and its steps.
LEMMA ReuseTypes ==
  /\ IsReuse(ReuseStart)
  /\ \A s, a : IsReuse(a) => IsReuse(ReuseStep(s, a))
<1>1. IsReuse(ReuseStart)
  BY DEF IsReuse, ReuseStart
<1>2. ASSUME NEW s, NEW a, IsReuse(a) PROVE IsReuse(ReuseStep(s, a))
  <2>1. /\ a = [i |-> a.i, j |-> a.j, target |-> a.target, stop |-> a.stop]
        /\ a.i \in Nat \ {0} /\ a.j \in Nat \ {0} /\ a.target \in Nat /\ a.stop \in BOOLEAN
    BY <1>2 DEF IsReuse
  <2>2. \/ ReuseStep(s, a) = a
        \/ ReuseStep(s, a) = [a EXCEPT !.j = a.j + 1, !.target = a.i]
        \/ ReuseStep(s, a) = [a EXCEPT !.i = a.i + 1, !.j = a.j + 1, !.target = a.i]
        \/ ReuseStep(s, a) = [a EXCEPT !.target = a.i - 1, !.stop = TRUE]
    BY DEF ReuseStep
  <2>3. a.i + 1 \in Nat \ {0} /\ a.j + 1 \in Nat \ {0} /\ a.i \in Nat /\ a.i - 1 \in Nat
    BY <2>1
  <2>4. \/ ReuseStep(s, a) = a
        \/ ReuseStep(s, a) = [i |-> a.i, j |-> a.j + 1, target |-> a.i, stop |-> a.stop]
        \/ ReuseStep(s, a) = [i |-> a.i + 1, j |-> a.j + 1, target |-> a.i, stop |-> a.stop]
        \/ ReuseStep(s, a) = [i |-> a.i, j |-> a.j, target |-> a.i - 1, stop |-> TRUE]
    <3>1. a = [i |-> a.i, j |-> a.j, target |-> a.target, stop |-> a.stop]
      BY <2>1
    <3> QED
      BY <2>2, <3>1, ReuseFields, Zenon
  <2>5. \A x, y \in Nat \ {0}, z \in Nat, b \in BOOLEAN :
          IsReuse([i |-> x, j |-> y, target |-> z, stop |-> b])
    BY DEF IsReuse
  <2>6. /\ IsReuse([i |-> a.i, j |-> a.j + 1, target |-> a.i, stop |-> a.stop])
        /\ IsReuse([i |-> a.i + 1, j |-> a.j + 1, target |-> a.i, stop |-> a.stop])
        /\ IsReuse([i |-> a.i, j |-> a.j, target |-> a.i - 1, stop |-> TRUE])
    BY <2>1, <2>3, <2>5
  <2> QED
    BY <1>2, <2>4, <2>6, Zenon
<1> QED
  BY <1>1, <1>2

\* The level up to which the trail is reused.
LEMMA ReuseNat ==
  ASSUME NEW s, Level(t) + Len(s) \in Nat
  PROVE  ReuseAssumptions(s) \in Nat
<1> DEFINE N == Level(t) + Len(s)
<1>1. PICK after : /\ after[0] = ReuseStart
                   /\ \A m \in 1..N : after[m] = ReuseStep(s, after[m - 1])
                   /\ ReuseAssumptions(s) = after[N].target
  BY ReuseUnfolds
<1> DEFINE G == {m \in Nat : m <= N => IsReuse(after[m])}
<1>2. 0 \in G
  BY <1>1, ReuseTypes
<1>3. ASSUME NEW m \in Nat, m \in G PROVE m + 1 \in G
  <2> SUFFICES ASSUME m + 1 <= N PROVE IsReuse(after[m + 1])
    OBVIOUS
  <2>1. IsReuse(after[m]) /\ m + 1 \in 1..N /\ (m + 1) - 1 = m
    BY <1>3
  <2>2. after[m + 1] = ReuseStep(s, after[m])
    BY <1>1, <2>1
  <2> QED
    BY <2>1, <2>2, ReuseTypes
<1>4. N \in G
  <2> HIDE DEF G, N
  <2> QED
    BY <1>2, <1>3, NatSetInduction DEF N
<1>5. IsReuse(after[N])
  BY <1>4
<1> QED
  BY <1>1, <1>5 DEF IsReuse

\* solve () starts.
LEMMA SolveStep ==
  ASSUME SearchInv, Solve
  PROVE  ApiTypes' /\ CoreInv' /\ \E m \in 0..Level(t) : t' = Backtrack(t, m)
<1>1. /\ Ready /\ input # <<>> /\ input' = Tail(input) /\ pc' = "search"
      /\ UNCHANGED <<opts, maxVar, original, constrained, constraint, db, todo, conflict,
                     unsat, unsatConstraint>>
      /\ \/ \E s \in SortedAssumptions :
              assumptions' = s /\ t' = Backtrack(t, Min({Level(t), ReuseAssumptions(s)}))
         \/ assumptions' = assumptions /\ (t' = t \/ t' = Backtrack(t, 0))
  BY DEF Solve
<1>2. /\ ApiTypes /\ Level(t) \in Nat /\ Shape(t) /\ t \in Trails /\ maxVar \in Nat
      /\ pc = "ready" /\ todo = {} /\ (conflict = 0 \/ unsat)
      /\ (Level(t) = 0 => unsat \/ Propagated)
  BY <1>1, GraphFacts, ReadyFacts DEF SearchInv
<1>3. \A s \in SortedAssumptions : s \in Seq(LitsOf(maxVar))
  <2> SUFFICES ASSUME NEW s \in SortedAssumptions PROVE s \in Seq(LitsOf(maxVar))
    OBVIOUS
  <2>1. assumptions \in Seq(LitsOf(maxVar)) /\ DOMAIN assumptions = 1..Len(assumptions)
        /\ Len(assumptions) \in Nat
    BY <1>2 DEF ApiTypes
  <2>2. Rng(assumptions) \subseteq LitsOf(maxVar)
    BY <2>1 DEF Rng
  <2>3. s \in [1..Len(assumptions) -> Rng(assumptions)]
    BY <2>1 DEF SortedAssumptions
  <2>4. s \in [1..Len(assumptions) -> LitsOf(maxVar)]
    BY <2>2, <2>3
  <2> QED
    BY <2>1, <2>4
<1>4. \E m \in 0..Level(t) : t' = Backtrack(t, m)
  <2>1. CASE t' = t
    <3>1. Backtrack(t, Level(t)) = t /\ Level(t) \in 0..Level(t)
      BY <1>2 DEF Backtrack
    <3> QED
      BY <2>1, <3>1
  <2>2. CASE t' = Backtrack(t, 0)
    BY <1>2, <2>2
  <2>3. ASSUME NEW s \in SortedAssumptions, t' = Backtrack(t, Min({Level(t), ReuseAssumptions(s)}))
        PROVE  \E m \in 0..Level(t) : t' = Backtrack(t, m)
    <3>1. Len(s) \in Nat
      BY <1>3
    <3>2. ReuseAssumptions(s) \in Nat
      BY <1>2, <3>1, ReuseNat
    <3>3. Min({Level(t), ReuseAssumptions(s)}) \in 0..Level(t)
      BY <1>2, <3>2, MinOfTwo
    <3> QED
      BY <2>3, <3>3
  <2> QED
    BY <1>1, <2>1, <2>2, <2>3
<1>5. ApiTypes'
  <2>1. input' \in Seq(RoundType)
    BY <1>1, InputTypes
  <2>2. assumptions' \in Seq(LitsOf(maxVar))
    BY <1>1, <1>2, <1>3 DEF ApiTypes
  <2> QED
    BY <1>1, <1>2, <2>1, <2>2 DEF ApiTypes
<1>6. CoreInv'
  <2>1. PICK m \in 0..Level(t) : t' = Backtrack(t, m)
    BY <1>4
  <2>2. /\ GraphInv' /\ VisitInv' /\ ConflictInv' /\ WatchInv' /\ FormulaInv'
        /\ KeepsLevels(t, t', m)
    BY <1>1, <1>2, <2>1, BacktrackKeeps
  <2>3. ASSUME unsatConstraint, ~unsat PROVE Propagated'
    <3>1. Level(t) = 0 /\ m = 0
      BY <1>2, <2>3 DEF SearchInv, CoreInv, QuietInv
    <3>2. t' = t
      BY <2>2, <3>1 DEF KeepsLevels
    <3> QED
      BY <1>1, <1>2, <2>3, <3>1, <3>2 DEF Propagated
  <2>4. QuietInv'
    BY <1>1, <1>2, <2>3 DEF QuietInv
  <2> QED
    BY <2>2, <2>4 DEF CoreInv
<1> QED
  BY <1>4, <1>5, <1>6

\* A clause that is added leaves the graph, and the watches when its own are
\* right.
LEMMA AddedFounded ==
  ASSUME NEW n \in Nat, NEW chrono, NEW d, NEW tr, Founded(chrono, n, d, tr),
         NEW c, NEW s, NEW i, Added(n, d, c, s, i)
  PROVE  /\ Founded(chrono, n, s, tr)
         /\ AllWatched(tr, d) /\ WatchOK(tr, tr.propagated, c) => AllWatched(tr, s)
<1>1. /\ IsDatabase(n, s) /\ DOMAIN s = DOMAIN d \cup {i} /\ s[i] = c
      /\ \A j \in DOMAIN d : s[j] = d[j] /\ j # i
  BY DEF Added
<1>2. Shape(tr) /\ Over(n, tr) /\ Graph(d, tr) /\ (chrono = 0 => Ordered(tr))
  BY DEF Founded
<1>3. Graph(s, tr)
  BY <1>1, <1>2 DEF Graph, Reasoned, Protected
<1>4. AllWatched(tr, d) /\ WatchOK(tr, tr.propagated, c) => AllWatched(tr, s)
  BY <1>1 DEF AllWatched
<1> QED
  BY <1>1, <1>2, <1>3, <1>4 DEF Founded

\* How good a literal is to watch.
LEMMA RankFacts ==
  ASSUME NEW tr, Shape(tr), NEW l \in Int
  PROVE  /\ Level(tr) \in Nat /\ WatchRank(tr, l) \in Nat /\ Val(tr, l) \in {-1, 0, 1}
         /\ Val(tr, l) = 1 => WatchRank(tr, l) >= Level(tr) + 2
         /\ Val(tr, l) = 0 => WatchRank(tr, l) = Level(tr) + 1
         /\ Val(tr, l) = -1 => /\ WatchRank(tr, l) = LevelOf(tr, l)
                               /\ LevelOf(tr, l) \in Nat /\ LevelOf(tr, l) <= Level(tr)
<1>1. Level(tr) \in Nat /\ Val(tr, l) \in {-1, 0, 1}
  BY TrailTypes, Values DEF Shape
<1>2. Val(tr, l) # 0 => LevelOf(tr, l) \in Nat /\ LevelOf(tr, l) <= Level(tr)
  BY AssignedFacts
<1>3. CASE Val(tr, l) = 1
  <2>1. WatchRank(tr, l) = 2 * Level(tr) + 2 - LevelOf(tr, l)
    BY <1>3 DEF WatchRank
  <2>2. \A x, y \in Nat : y <= x => 2 * x + 2 - y \in Nat /\ 2 * x + 2 - y >= x + 2
    OBVIOUS
  <2>3. LevelOf(tr, l) \in Nat /\ LevelOf(tr, l) <= Level(tr)
    BY <1>2, <1>3
  <2> QED
    BY <1>1, <1>3, <2>1, <2>2, <2>3
<1>4. CASE Val(tr, l) = 0
  <2>1. WatchRank(tr, l) = Level(tr) + 1
    BY <1>4 DEF WatchRank
  <2> QED
    BY <1>1, <1>4, <2>1
<1>5. CASE Val(tr, l) = -1
  <2>1. WatchRank(tr, l) = LevelOf(tr, l)
    BY <1>5 DEF WatchRank
  <2> QED
    BY <1>1, <1>2, <1>5, <2>1
<1> QED
  BY <1>1, <1>3, <1>4, <1>5

\* The better one of two watches and the other one.
FirstWatch(tr, w) == CHOOSE l \in w : \A y \in w : WatchRank(tr, l) >= WatchRank(tr, y)
\* The other watch.
SecondWatch(tr, w) == CHOOSE l \in w : l # FirstWatch(tr, w)

\* The best two literals of a clause that is added.
LEMMA BestWatches ==
  ASSUME NEW n, NEW tr, Shape(tr), NEW lits, lits \subseteq LitsOf(n), IsFiniteSet(lits),
         NEW clause, NEW w \in MoveLiteralsToWatch(tr, clause, lits),
         NEW p, p = FirstWatch(tr, w), NEW q, q = SecondWatch(tr, w)
  PROVE  /\ w = {p, q} /\ p # q /\ p \in lits /\ q \in lits
         /\ WatchRank(tr, p) >= WatchRank(tr, q)
         /\ Level(tr) # 0 => \A k \in lits \ w : WatchRank(tr, q) >= WatchRank(tr, k)
<1>1. /\ w \in SUBSET lits /\ Cardinality(w) = 2
      /\ Level(tr) # 0 => \A l \in w, k \in lits \ w : WatchRank(tr, l) >= WatchRank(tr, k)
  BY DEF MoveLiteralsToWatch, Pairs
<1>2. IsFiniteSet(w)
  BY <1>1, FS_Subset
<1>3. PICK a, b \in w : a # b /\ w = {a, b}
  BY <1>1, <1>2, PairElements
<1>4. a \in Int /\ b \in Int
  BY <1>1, LitFacts
<1>5. WatchRank(tr, a) \in Nat /\ WatchRank(tr, b) \in Nat
  BY <1>4, RankFacts
<1>6. \E l \in w : \A y \in w : WatchRank(tr, l) >= WatchRank(tr, y)
  <2>1. \A x, y \in Nat : x >= x /\ (x >= y \/ y >= x)
    OBVIOUS
  <2> DEFINE R(x) == WatchRank(tr, x)
  <2>2. \E l \in {a, b} : R(l) >= R(a) /\ R(l) >= R(b)
    <3>1. R(a) >= R(a) /\ R(b) >= R(b) /\ (R(a) >= R(b) \/ R(b) >= R(a))
      BY <1>5, <2>1
    <3> QED
      BY <3>1
  <2> QED
    BY <1>3, <2>2
<1>7. p \in w /\ \A y \in w : WatchRank(tr, p) >= WatchRank(tr, y)
  BY <1>6 DEF FirstWatch
<1>8. q \in w /\ q # p
  BY <1>3, <1>7 DEF SecondWatch
<1>9. w = {p, q}
  BY <1>3, <1>7, <1>8
<1> QED
  BY <1>1, <1>7, <1>8, <1>9

\* A clause with no false unit and not only false watches is watched well.
LEMMA WatchFree ==
  ASSUME NEW tr, NEW b, NEW c,
         \A x \in c.watch : Val(tr, x) = -1 => LevelOf(tr, x) # 0,
         \E x \in c.watch : Val(tr, x) # -1
  PROVE  WatchOK(tr, b, c)
BY DEF WatchOK, DoneTo

\* Backtracking makes no units.
LEMMA KeptUnits ==
  ASSUME NEW tr, NEW u, NEW m, KeepsLevels(tr, u, m), NEW l \in Int, Val(u, l) # 0
  PROVE  Val(u, l) = Val(tr, l) /\ LevelOf(u, l) = LevelOf(tr, l)
BY DEF KeepsLevels, Kept

\* How the trail is made to fit clause i of s, whose watches are w.
HandledTrail(chrono, s, tr, w, i) ==
  LET p == FirstWatch(tr, w)
      q == SecondWatch(tr, w)
      down == IF chrono = 0 THEN Backtrack(tr, LevelOf(tr, q)) ELSE tr IN
  IF Level(tr) = 0 \/ Val(tr, q) >= 0 \/ Val(tr, p) > 0 THEN tr
  ELSE IF Val(down, p) < 0 THEN Backtrack(down, LevelOf(tr, q) - 1)
  ELSE SearchAssign(chrono, s, down, p, i)

\* The trail fits the clauses s.
Fits(chrono, n, s, tr, u) ==
  /\ Founded(chrono, n, s, u) /\ AllWatched(u, s)
  /\ Level(tr) = 0 => Level(u) = 0
  /\ \A T : AllHold(T, s) /\ RootHolds(T, tr) => RootHolds(T, u)
  /\ \A T : RootHolds(T, u) => RootHolds(T, tr)

\* A clause c that is added to d, whose literals are no units of the trail.
Adding(chrono, n, d, tr, c, s, i) ==
  /\ Founded(chrono, n, d, tr) /\ AllWatched(tr, d)
  /\ Added(n, d, c, s, i) /\ GoodClause(n, c) /\ ~c.garbage
  /\ \A l \in c.lits : Val(tr, l) # 0 => LevelOf(tr, l) > 0

\* Its types.
LEMMA AddingFacts ==
  ASSUME NEW n \in Nat, NEW chrono, NEW d, NEW tr, NEW c, NEW s, NEW i, Adding(chrono, n, d, tr, c, s, i)
  PROVE  /\ Shape(tr) /\ Level(tr) \in Nat /\ IsDatabase(n, d) /\ IsDatabase(n, s)
         /\ DOMAIN s = DOMAIN d \cup {i} /\ s[i] = c /\ \A j \in DOMAIN d : s[j] = d[j]
         /\ c \in Clauses(n) /\ c.lits \subseteq LitsOf(n) /\ IsFiniteSet(c.lits) /\ c.watch \subseteq c.lits
         /\ \A l \in c.lits : /\ l \in Int /\ Val(tr, l) \in {-1, 0, 1} /\ -l \in Int
                              /\ Val(tr, l) # 0 => LevelOf(tr, l) \in 1..Level(tr)
<1>1. Shape(tr) /\ IsDatabase(n, d) /\ IsDatabase(n, s) /\ c \in Clauses(n)
  BY DEF Adding, Founded, Added, GoodClause
<1>2. DOMAIN s = DOMAIN d \cup {i} /\ s[i] = c /\ \A j \in DOMAIN d : s[j] = d[j]
  BY DEF Adding, Added
<1>3. Level(tr) \in Nat
  BY <1>1, TrailTypes DEF Shape
<1>4. c.lits \subseteq LitsOf(n) /\ IsFiniteSet(c.lits) /\ c.watch \subseteq c.lits
  BY <1>1, <1>2, ClauseTypes
<1>5. ASSUME NEW l \in c.lits
      PROVE  /\ l \in Int /\ Val(tr, l) \in {-1, 0, 1} /\ -l \in Int
             /\ Val(tr, l) # 0 => LevelOf(tr, l) \in 1..Level(tr)
  <2>1. l \in Int /\ -l \in Int
    BY <1>4, LitFacts
  <2>2. Val(tr, l) \in {-1, 0, 1}
    BY <1>1, <2>1, RankFacts
  <2>3. Val(tr, l) # 0 => LevelOf(tr, l) \in Nat /\ LevelOf(tr, l) <= Level(tr)
    BY <1>1, <2>1, AssignedFacts
  <2>4. Val(tr, l) # 0 => LevelOf(tr, l) > 0
    BY DEF Adding
  <2> QED
    BY <1>3, <2>1, <2>2, <2>3, <2>4
<1> QED
  BY <1>1, <1>2, <1>3, <1>4, <1>5

\* A trail on which one of the watches is not false.
LEMMA AddedKept ==
  ASSUME NEW n \in Nat, NEW chrono \in Nat, NEW d, NEW tr, NEW c, NEW s, NEW i,
         Adding(chrono, n, d, tr, c, s, i),
         NEW u, Founded(chrono, n, d, u), AllWatched(u, d),
         \A T : RootHolds(T, u) <=> RootHolds(T, tr), Level(tr) = 0 => Level(u) = 0,
         NEW m, KeepsLevels(tr, u, m) \/ u = tr,
         \E x \in c.watch : Val(u, x) # -1
  PROVE  Fits(chrono, n, s, tr, u)
<1>1. \A l \in c.lits : l \in Int /\ (Val(tr, l) # 0 => LevelOf(tr, l) \in 1..Level(tr))
  BY AddingFacts
<1>2. ASSUME NEW x \in c.watch, Val(u, x) = -1 PROVE LevelOf(u, x) # 0
  <2>1. x \in c.lits /\ x \in Int
    BY AddingFacts
  <2>2. Val(u, x) = Val(tr, x) /\ LevelOf(u, x) = LevelOf(tr, x)
    BY <1>2, <2>1, KeptUnits
  <2>3. LevelOf(tr, x) \in 1..Level(tr)
    BY <1>1, <1>2, <2>1, <2>2
  <2>4. Level(tr) \in Nat
    BY AddingFacts
  <2> QED
    BY <2>2, <2>3, <2>4
<1>3. WatchOK(u, u.propagated, c)
  BY <1>2, WatchFree
<1>4. Added(n, d, c, s, i)
  BY DEF Adding
<1>5. Founded(chrono, n, s, u) /\ AllWatched(u, s)
  BY <1>3, <1>4, AddedFounded
<1> QED
  BY <1>5 DEF Fits

\* The trail fits the clauses after one was added.
LEMMA HandledFacts ==
  ASSUME NEW n \in Nat, NEW chrono \in Nat, NEW d, NEW tr, NEW c, NEW s, NEW i,
         Adding(chrono, n, d, tr, c, s, i),
         NEW clause, c.watch \in MoveLiteralsToWatch(tr, clause, c.lits)
  PROVE  Fits(chrono, n, s, tr, HandledTrail(chrono, s, tr, c.watch, i))
<1> DEFINE p == FirstWatch(tr, c.watch)
           q == SecondWatch(tr, c.watch)
           lq == LevelOf(tr, q)
           down == IF chrono = 0 THEN Backtrack(tr, lq) ELSE tr
           u == HandledTrail(chrono, s, tr, c.watch, i)
<1>0. /\ Shape(tr) /\ Level(tr) \in Nat /\ IsDatabase(n, d) /\ IsDatabase(n, s)
      /\ DOMAIN s = DOMAIN d \cup {i} /\ s[i] = c /\ \A j \in DOMAIN d : s[j] = d[j]
      /\ c \in Clauses(n) /\ c.lits \subseteq LitsOf(n) /\ IsFiniteSet(c.lits) /\ c.watch \subseteq c.lits
      /\ \A l \in c.lits : /\ l \in Int /\ Val(tr, l) \in {-1, 0, 1} /\ -l \in Int
                           /\ Val(tr, l) # 0 => LevelOf(tr, l) \in 1..Level(tr)
  BY AddingFacts, Zenon
<1>1. /\ Shape(tr) /\ Level(tr) \in Nat /\ IsDatabase(n, d) /\ IsDatabase(n, s)
      /\ i \in DOMAIN s /\ s[i] = c /\ \A j \in DOMAIN d : s[j] = d[j]
      /\ c \in Clauses(n) /\ c.lits \subseteq LitsOf(n) /\ IsFiniteSet(c.lits)
      /\ \A l \in c.lits : /\ l \in Int /\ Val(tr, l) \in {-1, 0, 1} /\ -l \in Int
                           /\ Val(tr, l) # 0 => LevelOf(tr, l) \in 1..Level(tr)
  BY <1>0
<1>2. /\ c.watch = {p, q} /\ p # q /\ p \in c.lits /\ q \in c.lits
      /\ WatchRank(tr, p) >= WatchRank(tr, q)
      /\ Level(tr) # 0 => \A k \in c.lits \ c.watch : WatchRank(tr, q) >= WatchRank(tr, k)
  BY <1>1, BestWatches
<1>3. u = IF Level(tr) = 0 \/ Val(tr, q) >= 0 \/ Val(tr, p) > 0 THEN tr
          ELSE IF Val(down, p) < 0 THEN Backtrack(down, lq - 1)
          ELSE SearchAssign(chrono, s, down, p, i)
  BY DEF HandledTrail
<1>4. Founded(chrono, n, d, tr) /\ AllWatched(tr, d) /\ Added(n, d, c, s, i) /\ ~c.garbage
  BY DEF Adding
<1> HIDE DEF p, q, u
<1>5. CASE Level(tr) = 0 \/ Val(tr, q) >= 0 \/ Val(tr, p) > 0
  <2>1. \E x \in c.watch : Val(tr, x) # -1
    <3>1. CASE Level(tr) = 0
      <4>1. Val(tr, q) = 0
        BY <1>1, <1>2, <3>1
      <4> QED
        BY <1>2, <4>1
    <3>2. CASE Val(tr, q) >= 0 \/ Val(tr, p) > 0
      <4>1. Val(tr, q) # -1 \/ Val(tr, p) # -1
        BY <3>2
      <4> QED
        BY <1>2, <4>1
    <3> QED
      BY <1>5, <3>1, <3>2
  <2>2. Fits(chrono, n, s, tr, tr)
    BY <1>4, <2>1, AddedKept
  <2> QED
    BY <1>3, <1>5, <2>2 DEF u
<1>6. CASE Level(tr) # 0 /\ Val(tr, q) = -1 /\ Val(tr, p) \in {-1, 0}
  <2>1. lq \in 1..Level(tr) /\ WatchRank(tr, q) = lq
    BY <1>1, <1>2, <1>6, RankFacts
  <2>2. ASSUME NEW k \in c.lits \ {p} PROVE Val(tr, k) = -1 /\ LevelOf(tr, k) <= lq
    <3>1. k \in Int /\ Val(tr, k) \in {-1, 0, 1}
      BY <1>1
    <3>2. WatchRank(tr, q) >= WatchRank(tr, k)
      <4>1. CASE k = q
        BY <2>1, <4>1, <1>1
      <4>2. CASE k # q
        BY <1>2, <1>6, <4>2
      <4> QED
        BY <4>1, <4>2
    <3>3. /\ WatchRank(tr, k) \in Nat
          /\ Val(tr, k) = 1 => WatchRank(tr, k) >= Level(tr) + 2
          /\ Val(tr, k) = 0 => WatchRank(tr, k) = Level(tr) + 1
          /\ Val(tr, k) = -1 => WatchRank(tr, k) = LevelOf(tr, k)
      BY <1>1, <3>1, RankFacts
    <3>4. \A x, y, z \in Nat : z >= y /\ z <= x => ~(y >= x + 2) /\ y # x + 1 /\ y <= z
      OBVIOUS
    <3>5. /\ ~(WatchRank(tr, k) >= Level(tr) + 2) /\ WatchRank(tr, k) # Level(tr) + 1
          /\ WatchRank(tr, k) <= lq
      BY <1>1, <2>1, <3>2, <3>3, <3>4
    <3> QED
      BY <3>1, <3>3, <3>5
  <2>3. PICK m \in 0..Level(tr) : m = IF chrono = 0 THEN lq ELSE Level(tr)
    BY <1>1, <2>1
  <2>4. down = Backtrack(tr, m)
    <3>1. tr = Backtrack(tr, Level(tr))
      BY DEF Backtrack
    <3> QED
      BY <2>3, <3>1
  <2>5. /\ Founded(chrono, n, d, down) /\ KeepsLevels(tr, down, m) /\ Level(down) = m
        /\ \A T : RootHolds(T, down) <=> RootHolds(T, tr)
        /\ AllWatched(down, d)
    BY <1>4, <2>4, SearchBacktrack
  <2>6. m \in Nat /\ lq <= m /\ m <= Level(tr) /\ lq \in Nat /\ lq > 0
    BY <1>1, <2>1, <2>3
  <2>7. Shape(down)
    BY <2>5 DEF Founded
  <2> HIDE DEF down, lq
  <2>8. \A k \in c.lits \ {p} : Val(down, k) = -1 /\ LevelOf(down, k) = LevelOf(tr, k)
    <3> SUFFICES ASSUME NEW k \in c.lits \ {p}
                 PROVE  Val(down, k) = -1 /\ LevelOf(down, k) = LevelOf(tr, k)
      OBVIOUS
    <3>1. k \in Int /\ Val(tr, k) = -1 /\ LevelOf(tr, k) <= lq /\ LevelOf(tr, k) \in 1..Level(tr)
      BY <1>1, <2>2
    <3>2. LevelOf(tr, k) <= m /\ Val(tr, k) # 0
      BY <2>6, <3>1, <1>1
    <3> QED
      BY <2>5, <3>1, <3>2 DEF KeepsLevels, Kept
  <2>9. LevelOf(down, q) = lq /\ Val(down, q) = -1 /\ q \in Int /\ p \in Int
    BY <1>1, <1>2, <2>8 DEF lq
  <2>10. Val(down, p) \in {-1, 0}
    <3>1. Val(down, p) # 0 => Val(down, p) = Val(tr, p)
      BY <2>5, <2>9, KeptUnits
    <3> QED
      BY <1>6, <3>1
  <2>11. CASE Val(down, p) = -1
    <3>1. lq - 1 \in 0..Level(down) /\ lq - 1 \in Nat /\ ~(lq <= lq - 1)
      BY <2>5, <2>6
    <3> DEFINE v == Backtrack(down, lq - 1)
    <3>2. /\ Founded(chrono, n, d, v) /\ KeepsLevels(down, v, lq - 1)
          /\ \A T : RootHolds(T, v) <=> RootHolds(T, down)
          /\ AllWatched(v, d)
      BY <2>5, <3>1, SearchBacktrack
    <3> HIDE DEF v
    <3>3. Val(v, q) = 0
      BY <3>1, <3>2, <2>9 DEF KeepsLevels, Kept
    <3>4. \A x \in c.watch : Val(v, x) = -1 => LevelOf(v, x) # 0
      <4> SUFFICES ASSUME NEW x \in c.watch, Val(v, x) = -1 PROVE LevelOf(v, x) # 0
        OBVIOUS
      <4>1. x \in c.lits /\ x \in Int
        BY <1>1, <1>2
      <4>2. Val(v, x) # 0
        OBVIOUS
      <4>3. Val(down, x) = Val(v, x) /\ LevelOf(v, x) = LevelOf(down, x)
        BY <3>2, <4>1, <4>2, KeptUnits
      <4>4. Val(tr, x) = Val(v, x) /\ LevelOf(v, x) = LevelOf(tr, x)
        BY <2>5, <4>1, <4>2, <4>3, KeptUnits
      <4>5. LevelOf(tr, x) \in 1..Level(tr)
        BY <1>1, <4>1, <4>2, <4>4
      <4> QED
        BY <1>1, <4>4, <4>5
    <3>5. WatchOK(v, v.propagated, c)
      BY <1>2, <3>3, <3>4, WatchFree
    <3>6. Founded(chrono, n, s, v) /\ AllWatched(v, s)
      BY <1>4, <3>2, <3>5, AddedFounded
    <3>7. Fits(chrono, n, s, tr, v)
      BY <1>6, <2>5, <3>2, <3>6 DEF Fits
    <3>8. u = v
      BY <1>3, <1>6, <2>11 DEF v
    <3> QED
      BY <3>7, <3>8 DEF u
  <2>12. CASE Val(down, p) = 0
    <3> DEFINE v == SearchAssign(chrono, s, down, p, i)
               e == ForcedEntry(s, down, i, p)
    <3>1. Founded(chrono, n, s, down)
      BY <1>4, <2>5, AddedFounded
    <3>2. Forces(chrono, s, down, i, p)
      <4>1. chrono = 0 => \E k \in s[i].lits \ {p} : LevelOf(down, k) = Level(down)
        BY <1>1, <1>2, <2>3, <2>5, <2>9 DEF lq
      <4>2. \A k \in s[i].lits \ {p} : Val(down, k) = -1
        BY <1>1, <2>8
      <4> QED
        BY <1>1, <1>2, <1>4, <2>12, <4>1, <4>2 DEF Forces
    <3>3. /\ Founded(chrono, n, s, v) /\ ImpliedOnTop(down, v, e)
          /\ \A T : AllHold(T, s) /\ RootHolds(T, down) => RootHolds(T, v)
      BY <3>1, <3>2, AssignByClause
    <3>4. e.lit = p
      BY DEF ForcedEntry
    <3> HIDE DEF v, e
    <3>5. Shape(v)
      BY <3>3 DEF Founded
    <3>6. Grows(down, v) /\ Val(v, p) = 1
      BY <2>7, <3>3, <3>4, <3>5, GrowsImplied
    <3>7. Val(v, q) = -1 /\ LevelOf(v, q) = lq
      BY <2>9, <3>6 DEF Grows, Extends
    <3>8. WatchOK(v, v.propagated, c)
      <4>1. \A x \in c.watch : Val(v, x) = -1 => LevelOf(v, x) # 0
        BY <1>2, <2>6, <3>6, <3>7
      <4>2. \E x \in c.watch : Val(v, x) # -1
        BY <1>2, <3>6
      <4> QED
        BY <4>1, <4>2, WatchFree
    <3>9. AllWatched(v, s)
      <4> SUFFICES ASSUME NEW j \in DOMAIN s, ~s[j].garbage
                   PROVE  WatchOK(v, v.propagated, s[j])
        BY DEF AllWatched
      <4>1. CASE j = i
        BY <1>1, <3>8, <4>1
      <4>2. CASE j # i
        <5>1. j \in DOMAIN d /\ s[j] = d[j]
          BY <1>0, <4>2
        <5>2. s[j] \in Clauses(n)
          BY <1>1, ClauseTypes
        <5>3. WatchOK(down, down.propagated, s[j])
          BY <2>5, <5>1 DEF AllWatched
        <5> QED
          BY <2>7, <3>3, <3>5, <5>2, <5>3, WatchedOnTop
      <4> QED
        BY <4>1, <4>2
    <3>10. \A T : RootHolds(T, v) => RootHolds(T, down)
      <4> SUFFICES ASSUME NEW T, RootHolds(T, v) PROVE RootHolds(T, down)
        OBVIOUS
      <4>1. \A k \in Positions(down) : k \in Positions(v) /\ v.trail[k] = down.trail[k]
        BY <3>6 DEF Grows
      <4> QED
        BY <4>1 DEF RootHolds
    <3>11. Fits(chrono, n, s, tr, v)
      BY <1>6, <2>5, <3>3, <3>9, <3>10 DEF Fits
    <3>12. u = v
      BY <1>3, <1>6, <2>12 DEF v
    <3> QED
      BY <3>11, <3>12 DEF u
  <2> QED
    BY <2>10, <2>11, <2>12
<1>7. Val(tr, q) \in {-1, 0, 1} /\ Val(tr, p) \in {-1, 0, 1}
  BY <1>1, <1>2
<1>8. \/ Level(tr) = 0 \/ Val(tr, q) >= 0 \/ Val(tr, p) > 0
      \/ Level(tr) # 0 /\ Val(tr, q) = -1 /\ Val(tr, p) \in {-1, 0}
  BY <1>7
<1> QED
  BY <1>5, <1>6, <1>8

\* Where the trail goes when a clause is added.
LEMMA LazyFacts ==
  ASSUME SearchInv, NEW n \in Nat, maxVar <= n
  PROVE  /\ \E m \in 0..Level(t) : Lazy = Backtrack(t, m)
         /\ Founded(opts.chrono, n, db, Lazy)
         /\ \A T : RootHolds(T, Lazy) <=> RootHolds(T, t)
         /\ AllWatched(t, db) => AllWatched(Lazy, db)
         /\ Level(t) = 0 => Level(Lazy) = 0
         /\ Level(Lazy) \in Nat /\ Shape(Lazy)
<1>1. /\ Founded(opts.chrono, maxVar, db, t) /\ maxVar \in Nat /\ Level(t) \in Nat
  BY GraphFacts DEF SearchInv, CoreInv, GraphInv
<1>2. PICK m \in 0..Level(t) : Lazy = Backtrack(t, m)
  <2>1. t = Backtrack(t, Level(t))
    BY DEF Backtrack
  <2> QED
    BY <1>1, <2>1 DEF Lazy
<1>3. /\ Founded(opts.chrono, maxVar, db, Lazy) /\ Level(Lazy) = m
      /\ \A T : RootHolds(T, Lazy) <=> RootHolds(T, t)
      /\ AllWatched(t, db) => AllWatched(Lazy, db)
  BY <1>1, <1>2, SearchBacktrack
<1>4. Founded(opts.chrono, n, db, Lazy)
  BY <1>1, <1>3, MoreVariables
<1>5. m \in Nat /\ (Level(t) = 0 => m = 0)
  BY <1>1
<1>6. Shape(Lazy)
  BY <1>4 DEF Founded
<1> QED
  BY <1>2, <1>3, <1>4, <1>5, <1>6

\* What a new clause has to leave.
LEMMA ClauseFits ==
  ASSUME SearchInv, Ready, UNCHANGED <<opts, todo, conflict, unsat, unsatConstraint, pc>>,
         NEW c, original' = original \cup {c},
         maxVar' \in Nat, maxVar <= maxVar',
         Founded(opts.chrono, maxVar', db', t'),
         ~unsat => AllWatched(t', db'),
         Level(t) = 0 => Level(t') = 0,
         ~unsat => \A T : Good(T, t, db) /\ SatClause(T, c) => Good(T, t', db'),
         ~unsat => \A T : RootHolds(T, t') /\ CoreHolds(T, db') =>
                            RootHolds(T, t) /\ CoreHolds(T, db) /\ SatClause(T, c)
  PROVE  CoreInv'
<1>1. pc = "ready" /\ todo = {} /\ (conflict = 0 \/ unsat)
  BY ReadyFacts
<1>2. GraphInv'
  BY DEF GraphInv
<1>3. QuietInv'
  BY <1>1 DEF SearchInv, CoreInv, QuietInv
<1>4. VisitInv'
  BY <1>1 DEF VisitInv
<1>5. ConflictInv'
  BY <1>1 DEF ConflictInv
<1>6. WatchInv'
  BY <1>1 DEF WatchInv, Bound, AllWatched
<1>7. FormulaInv'
  <2>1. FormulaInv
    BY DEF SearchInv, CoreInv
  <2>2. \A T : SatFormula(T, original') <=> SatFormula(T, original) /\ SatClause(T, c)
    BY DEF SatFormula
  <2>3. CASE unsat
    BY <2>1, <2>2, <2>3 DEF FormulaInv
  <2>4. CASE ~unsat
    BY <2>1, <2>2, <2>4 DEF FormulaInv
  <2> QED
    BY <2>3, <2>4
<1> QED
  BY <1>2, <1>3, <1>4, <1>5, <1>6, <1>7 DEF CoreInv

\* A clause is added that the trail satisfies at the root level or that is not
\* needed any more.
LEMMA AddSkipped ==
  ASSUME SearchInv, Ready, UNCHANGED <<opts, todo, conflict, unsat, unsatConstraint, pc, db>>,
         NEW c, original' = original \cup {c}, c \subseteq LitsOf(maxVar'),
         maxVar' \in Nat, maxVar <= maxVar', t' = Lazy,
         unsat \/ \E l \in c : -l \in c \/ Fixed(Lazy, l) > 0
  PROVE  CoreInv'
<1>1. /\ Founded(opts.chrono, maxVar', db, Lazy)
      /\ \A T : RootHolds(T, Lazy) <=> RootHolds(T, t)
      /\ AllWatched(t, db) => AllWatched(Lazy, db)
      /\ Level(t) = 0 => Level(Lazy) = 0
      /\ Shape(Lazy)
  BY LazyFacts
<1>2. ~unsat => AllWatched(t, db)
  BY ReadyFacts
<1>3. ASSUME ~unsat, NEW T, RootHolds(T, Lazy) PROVE SatClause(T, c)
  <2>1. PICK l \in c : -l \in c \/ Fixed(Lazy, l) > 0
    BY <1>3
  <2>2. l \in LitsOf(maxVar') /\ l \in Int
    BY <2>1, LitFacts
  <2>3. CASE -l \in c
    <3>1. SatLit(T, l) \/ SatLit(T, -l)
      BY <2>2, SatNegation
    <3> QED
      BY <2>1, <2>3, <3>1 DEF SatClause
  <2>4. CASE Fixed(Lazy, l) > 0
    <3>1. Val(Lazy, l) = 1 /\ LevelOf(Lazy, l) = 0
      BY <1>1, <2>2, <2>4, FixedFacts
    <3>2. SatLit(T, l)
      BY <1>1, <1>3, <2>2, <3>1, RootValue
    <3> QED
      BY <2>1, <3>2 DEF SatClause
  <2> QED
    BY <2>1, <2>3, <2>4
<1>4. \A T : Good(T, t, db) => Good(T, Lazy, db)
  BY <1>1 DEF Good
<1> QED
  BY <1>1, <1>2, <1>3, <1>4, ClauseFits

\* What the root level leaves of a clause.
LEMMA AddedSays ==
  ASSUME NEW n \in Nat, NEW tr, Shape(tr), NEW c, c \subseteq LitsOf(n),
         \A l \in c : ~(Fixed(tr, l) > 0),
         NEW lits, lits = {l \in c : Fixed(tr, l) >= 0}
  PROVE  /\ \A T : RootHolds(T, tr) => (SatClause(T, c) <=> SatClause(T, lits))
         /\ lits \subseteq LitsOf(n)
         /\ \A l \in lits : Val(tr, l) # 0 => LevelOf(tr, l) > 0
<1>1. \A l \in c : /\ l \in Int /\ Fixed(tr, l) \in {-1, 0, 1}
                   /\ Fixed(tr, l) > 0 <=> Val(tr, l) = 1 /\ LevelOf(tr, l) = 0
                   /\ Fixed(tr, l) < 0 <=> Val(tr, l) = -1 /\ LevelOf(tr, l) = 0
                   /\ Val(tr, l) \in {-1, 0, 1}
                   /\ Val(tr, l) # 0 => LevelOf(tr, l) \in Nat
  <2> SUFFICES ASSUME NEW l \in c
               PROVE  /\ l \in Int /\ Fixed(tr, l) \in {-1, 0, 1}
                      /\ Fixed(tr, l) > 0 <=> Val(tr, l) = 1 /\ LevelOf(tr, l) = 0
                      /\ Fixed(tr, l) < 0 <=> Val(tr, l) = -1 /\ LevelOf(tr, l) = 0
                      /\ Val(tr, l) \in {-1, 0, 1}
                      /\ Val(tr, l) # 0 => LevelOf(tr, l) \in Nat
    OBVIOUS
  <2>1. l \in Int
    BY LitFacts
  <2> QED
    BY <2>1, FixedFacts, RankFacts, AssignedFacts
<1>2. ASSUME NEW l \in lits, Val(tr, l) # 0 PROVE LevelOf(tr, l) > 0
  <2>1. l \in c /\ Fixed(tr, l) >= 0 /\ ~(Fixed(tr, l) > 0)
    OBVIOUS
  <2>2. ~(LevelOf(tr, l) = 0)
    BY <1>1, <1>2, <2>1
  <2> QED
    BY <1>1, <1>2, <2>1, <2>2
<1>3. ASSUME NEW T, RootHolds(T, tr), NEW l \in c, l \notin lits PROVE ~SatLit(T, l)
  <2>1. ~(Fixed(tr, l) >= 0)
    BY <1>3
  <2>2. Val(tr, l) = -1 /\ LevelOf(tr, l) = 0
    BY <1>1, <2>1
  <2>3. l \in LitsOf(n)
    OBVIOUS
  <2> QED
    BY <1>3, <2>2, <2>3, RootValue
<1>4. \A T : RootHolds(T, tr) => (SatClause(T, c) <=> SatClause(T, lits))
  BY <1>3 DEF SatClause
<1> QED
  BY <1>2, <1>4

\* A clause whose literals are all false at the root level.
LEMMA AddEmpty ==
  ASSUME SearchInv, Ready, UNCHANGED <<opts, todo, conflict, unsatConstraint, pc, db>>,
         ~unsat, unsat' = TRUE,
         NEW c, original' = original \cup {c},
         maxVar' \in Nat, maxVar <= maxVar', t' = Lazy,
         \A T : RootHolds(T, Lazy) => (SatClause(T, c) <=> SatClause(T, {}))
  PROVE  CoreInv'
<1>1. /\ Founded(opts.chrono, maxVar', db, Lazy)
      /\ \A T : RootHolds(T, Lazy) <=> RootHolds(T, t)
      /\ Level(t) = 0 => Level(Lazy) = 0
  BY LazyFacts
<1>2. pc = "ready" /\ todo = {} /\ (conflict = 0 \/ unsat)
  BY ReadyFacts
<1>3. GraphInv'
  BY <1>1 DEF GraphInv
<1>4. QuietInv'
  BY <1>1, <1>2 DEF SearchInv, CoreInv, QuietInv
<1>5. VisitInv' /\ ConflictInv' /\ WatchInv'
  BY <1>2 DEF VisitInv, ConflictInv, WatchInv
<1>6. FormulaInv'
  <2>1. FormulaInv
    BY DEF SearchInv, CoreInv
  <2>2. \A T : SatFormula(T, original') => SatFormula(T, original) /\ SatClause(T, c)
    BY DEF SatFormula
  <2>3. \A T : ~SatClause(T, {})
    BY DEF SatClause
  <2>4. \A T : SatFormula(T, original) => RootHolds(T, Lazy)
    BY <1>1, <2>1 DEF FormulaInv, Good
  <2> QED
    BY <2>2, <2>3, <2>4 DEF FormulaInv
<1> QED
  BY <1>3, <1>4, <1>5, <1>6 DEF CoreInv

\* A unit.
LEMMA AddUnit ==
  ASSUME SearchInv, Ready, UNCHANGED <<opts, todo, conflict, unsat, unsatConstraint, pc, db>>,
         ~unsat, NEW c, original' = original \cup {c},
         maxVar' \in Nat, maxVar <= maxVar',
         NEW l \in LitsOf(maxVar'), Val(Lazy, l) # 0 => LevelOf(Lazy, l) > 0,
         t' = SearchAssign(0, db, Backtrack(Lazy, 0), l, NoReason),
         \A T : RootHolds(T, Lazy) => (SatClause(T, c) <=> SatClause(T, {l}))
  PROVE  CoreInv'
<1> DEFINE down == Backtrack(Lazy, 0)
           e == [lit |-> l, level |-> 0, reason |-> NoReason]
<1>1. /\ Founded(opts.chrono, maxVar', db, Lazy)
      /\ \A T : RootHolds(T, Lazy) <=> RootHolds(T, t)
      /\ AllWatched(t, db) => AllWatched(Lazy, db)
      /\ Level(Lazy) \in Nat /\ Shape(Lazy)
  BY LazyFacts
<1>2. AllWatched(t, db)
  BY ReadyFacts
<1>3. 0 \in 0..Level(Lazy) /\ opts.chrono \in Nat
  BY <1>1, GraphFacts
<1>4. /\ Founded(opts.chrono, maxVar', db, down) /\ KeepsLevels(Lazy, down, 0) /\ Level(down) = 0
      /\ \A T : RootHolds(T, down) <=> RootHolds(T, Lazy)
      /\ AllWatched(down, db)
  BY <1>1, <1>2, <1>3, SearchBacktrack
<1>5. l \in Int
  BY LitFacts
<1>6. Val(down, l) = 0
  <2>1. Val(Lazy, l) # 0 => ~(LevelOf(Lazy, l) <= 0)
    BY <1>1, <1>5, AssignedFacts
  <2> QED
    BY <1>4, <1>5, <2>1 DEF KeepsLevels, Kept
<1> HIDE DEF down
<1>7. /\ Founded(opts.chrono, maxVar', db, t') /\ ImpliedOnTop(down, t', e)
      /\ \A T : RootHolds(T, t') <=> RootHolds(T, down) /\ SatLit(T, l)
  <2>1. t' = SearchAssign(0, db, down, l, NoReason)
    BY DEF down
  <2> QED
    BY <1>3, <1>4, <1>6, <2>1, AssignUnit
<1> HIDE DEF e
<1>8. Shape(down) /\ Shape(t') /\ IsDatabase(maxVar', db)
  BY <1>4, <1>7 DEF Founded
<1>9. AllWatched(t', db)
  <2> SUFFICES ASSUME NEW j \in DOMAIN db, ~db[j].garbage PROVE WatchOK(t', t'.propagated, db[j])
    BY DEF AllWatched
  <2>1. db[j] \in Clauses(maxVar')
    BY <1>8, ClauseTypes
  <2>2. WatchOK(down, down.propagated, db[j])
    BY <1>4 DEF AllWatched
  <2> QED
    BY <1>7, <1>8, <2>1, <2>2, WatchedOnTop
<1>10. Level(t') = 0
  BY <1>4, <1>7 DEF ImpliedOnTop, Level
<1>11. \A T : SatClause(T, {l}) <=> SatLit(T, l)
  BY DEF SatClause
<1>12. /\ \A T : Good(T, t, db) /\ SatClause(T, c) => Good(T, t', db)
       /\ \A T : RootHolds(T, t') => RootHolds(T, t) /\ SatClause(T, c)
  BY <1>1, <1>4, <1>7, <1>11 DEF Good
<1> QED
  BY <1>7, <1>9, <1>10, <1>12, ClauseFits

\* A clause with at least two literals that are no units.
LEMMA AddLong ==
  ASSUME SearchInv, Ready, UNCHANGED <<opts, todo, conflict, unsat, unsatConstraint, pc>>,
         ~unsat, NEW c, original' = original \cup {c},
         maxVar' \in Nat, maxVar <= maxVar',
         NEW lits, lits \subseteq LitsOf(maxVar'), IsFiniteSet(lits), Cardinality(lits) >= 2,
         \A l \in lits : Val(Lazy, l) # 0 => LevelOf(Lazy, l) > 0,
         NEW clause, NEW w \in MoveLiteralsToWatch(Lazy, clause, lits),
         db' = AddTo(db, Clause(lits, w, FALSE)),
         t' = HandledTrail(opts.chrono, db', Lazy, w, FreshId(db)),
         \A T : RootHolds(T, Lazy) => (SatClause(T, c) <=> SatClause(T, lits))
  PROVE  CoreInv'
<1> DEFINE r == Clause(lits, w, FALSE)
           i == FreshId(db)
<1>1. /\ Founded(opts.chrono, maxVar', db, Lazy)
      /\ \A T : RootHolds(T, Lazy) <=> RootHolds(T, t)
      /\ AllWatched(t, db) => AllWatched(Lazy, db)
      /\ Level(t) = 0 => Level(Lazy) = 0
      /\ Shape(Lazy)
  BY LazyFacts
<1>2. AllWatched(t, db) /\ opts.chrono \in Nat
  BY ReadyFacts, GraphFacts
<1>3. w \in SUBSET lits /\ \E a, b \in lits : a # b /\ w = {a, b}
  <2>1. w = {FirstWatch(Lazy, w), SecondWatch(Lazy, w)} /\ FirstWatch(Lazy, w) # SecondWatch(Lazy, w)
        /\ FirstWatch(Lazy, w) \in lits /\ SecondWatch(Lazy, w) \in lits
    BY <1>1, BestWatches
  <2> QED
    BY <2>1
<1>4. /\ r.lits = lits /\ r.watch = w /\ r.redundant = FALSE /\ r.garbage = FALSE
      /\ r \in Clauses(maxVar')
  <2>1. r = [lits |-> lits, watch |-> w, redundant |-> FALSE, garbage |-> FALSE]
    BY DEF Clause
  <2> HIDE DEF r
  <2>2. r.lits = lits /\ r.watch = w /\ r.redundant = FALSE /\ r.garbage = FALSE
    BY ONLY <2>1
  <2>3. w \subseteq LitsOf(maxVar')
    BY <1>3
  <2> QED
    BY <2>1, <2>2, <2>3 DEF Clauses
<1>5. GoodClause(maxVar', r)
  BY <1>3, <1>4 DEF GoodClause, Watching
<1>6. Added(maxVar', db, r, db', i)
  BY <1>1, <1>5, AddToAdds DEF Founded
<1> HIDE DEF r, i
<1>7. Adding(opts.chrono, maxVar', db, Lazy, r, db', i)
  BY <1>1, <1>2, <1>4, <1>5, <1>6 DEF Adding
<1>8. Fits(opts.chrono, maxVar', db', Lazy, t')
  <2>1. t' = HandledTrail(opts.chrono, db', Lazy, r.watch, i)
    BY <1>4 DEF i
  <2> QED
    BY <1>2, <1>4, <1>7, <2>1, HandledFacts
<1>9. DOMAIN db' = DOMAIN db \cup {i} /\ db'[i] = r /\ \A j \in DOMAIN db : db'[j] = db[j]
  BY <1>6 DEF Added
<1>10. ASSUME NEW T, Good(T, t, db), SatClause(T, c) PROVE Good(T, t', db')
  <2>1. RootHolds(T, t) /\ AllHold(T, db) /\ RootHolds(T, Lazy)
    BY <1>1, <1>10 DEF Good
  <2>2. SatClause(T, r.lits)
    BY <1>4, <1>10, <2>1
  <2>3. AllHold(T, db')
    BY <1>9, <2>1, <2>2 DEF AllHold
  <2>4. RootHolds(T, t')
    BY <1>8, <2>1, <2>3 DEF Fits
  <2> QED
    BY <2>3, <2>4 DEF Good
<1>11. ASSUME NEW T, RootHolds(T, t'), CoreHolds(T, db')
       PROVE  RootHolds(T, t) /\ CoreHolds(T, db) /\ SatClause(T, c)
  <2>1. RootHolds(T, Lazy)
    BY <1>8, <1>11 DEF Fits
  <2>2. i \in DOMAIN db' /\ ~db'[i].redundant /\ ~db'[i].garbage /\ db'[i].lits = lits
    BY <1>4, <1>9
  <2>3. SatClause(T, lits)
    BY <1>11, <2>2 DEF CoreHolds
  <2>4. CoreHolds(T, db)
    BY <1>9, <1>11 DEF CoreHolds
  <2> QED
    BY <1>1, <2>1, <2>3, <2>4
<1>12. Founded(opts.chrono, maxVar', db', t') /\ AllWatched(t', db')
       /\ (Level(t) = 0 => Level(t') = 0)
  BY <1>1, <1>8 DEF Fits
<1> QED
  BY <1>10, <1>11, <1>12, ClauseFits

\* A clause.
LEMMA AddClauseStep ==
  ASSUME SearchInv, AddClause
  PROVE  /\ ApiTypes' /\ CoreInv'
         /\ Level(t) = 0 \/ ~opts.ilb => Level(t') = 0
<1> DEFINE clause == Head(input[1].add)
           c == Rng(clause)
           lits == {l \in c : Fixed(Lazy, l) >= 0}
           skip == unsat \/ \E l \in c : -l \in c \/ Fixed(Lazy, l) > 0
           unit == CHOOSE l \in lits : TRUE
<1>1. /\ Ready /\ input # <<>> /\ input[1].add # <<>>
      /\ original' = original \cup {c} /\ Internalize(c)
      /\ input' = [input EXCEPT ![1].add = Tail(@)]
      /\ UNCHANGED <<opts, assumptions, constrained, constraint, todo, conflict, unsatConstraint, pc>>
  BY DEF AddClause
<1>2. \/ skip /\ t' = Lazy /\ UNCHANGED <<db, unsat>>
      \/ ~skip /\ lits = {} /\ t' = Lazy /\ unsat' = TRUE /\ UNCHANGED db
      \/ /\ ~skip /\ lits # {} /\ Cardinality(lits) = 1
         /\ t' = SearchAssign(0, db, Backtrack(Lazy, 0), unit, NoReason)
         /\ UNCHANGED <<db, unsat>>
      \/ /\ ~skip /\ lits # {} /\ Cardinality(lits) # 1
         /\ \E w \in MoveLiteralsToWatch(Lazy, clause, lits) :
              /\ db' = AddTo(db, Clause(lits, w, FALSE))
              /\ t' = HandledTrail(opts.chrono, db', Lazy, w, FreshId(db))
         /\ UNCHANGED unsat
  BY DEF AddClause, HandledTrail, FirstWatch, SecondWatch
<1>3. clause \in ClausesAdded /\ Tail(input[1].add) \in Seq(ClausesAdded)
  <2>1. input[1].add \in Seq(ClausesAdded)
    BY <1>1, InputTypes
  <2> QED
    BY <1>1, <2>1
<1>4. c \subseteq LitsOf(MaxVar) /\ IsFiniteSet(c)
  <2>1. clause \in Seq(LitsOf(MaxVar))
    BY <1>3 DEF ClausesAdded
  <2>2. c = {clause[k] : k \in 1..Len(clause)}
    BY <2>1 DEF Rng
  <2>3. c \subseteq LitsOf(MaxVar)
    BY <2>1, <2>2
  <2>4. MaxVar \in Nat
    BY ConstantTypes
  <2> QED
    BY <2>3, <2>4, LitsFinite
<1> HIDE DEF c, lits, skip, unit, clause
<1>5. /\ maxVar' \in Nat /\ maxVar <= maxVar' /\ maxVar' <= MaxVar
      /\ c \subseteq LitsOf(maxVar') /\ LitsOf(maxVar) \subseteq LitsOf(maxVar')
  BY <1>1, <1>4, InternalizeFacts DEF SearchInv
<1>6. ApiTypes'
  <2>1. input' \in Seq(RoundType)
    BY <1>1, <1>3, RoundFields DEF clause
  <2>2. ApiTypes
    BY DEF SearchInv
  <2>3. assumptions' \in Seq(LitsOf(maxVar'))
    BY <1>1, <1>5, <2>2 DEF ApiTypes
  <2> QED
    BY <1>1, <1>5, <2>1, <2>2, <2>3 DEF ApiTypes
<1>7. /\ Level(t) = 0 => Level(Lazy) = 0
      /\ Level(Lazy) \in Nat /\ Shape(Lazy)
  BY <1>5, LazyFacts
<1>8. lits = {l \in c : Fixed(Lazy, l) >= 0} /\ lits \subseteq c /\ IsFiniteSet(lits)
  BY <1>4, FS_Subset DEF lits
<1>9. ~skip => ~unsat /\ (\A l \in c : ~(Fixed(Lazy, l) > 0))
  BY DEF skip
<1>10. ~skip =>
         /\ \A T : RootHolds(T, Lazy) => (SatClause(T, c) <=> SatClause(T, lits))
         /\ lits \subseteq LitsOf(maxVar')
         /\ \A l \in lits : Val(Lazy, l) # 0 => LevelOf(Lazy, l) > 0
  BY <1>5, <1>7, <1>8, <1>9, AddedSays
<1>11. CoreInv'
  <2>1. CASE skip /\ t' = Lazy /\ UNCHANGED <<db, unsat>>
    BY <1>1, <1>5, <2>1, AddSkipped DEF skip
  <2>2. CASE ~skip /\ lits = {} /\ t' = Lazy /\ unsat' = TRUE /\ UNCHANGED db
    BY <1>1, <1>5, <1>9, <1>10, <2>2, AddEmpty
  <2>3. CASE /\ ~skip /\ lits # {} /\ Cardinality(lits) = 1
             /\ t' = SearchAssign(0, db, Backtrack(Lazy, 0), unit, NoReason)
             /\ UNCHANGED <<db, unsat>>
    <3>1. unit \in lits
      BY <2>3 DEF unit
    <3>2. lits = {unit}
      <4>1. PICK x : lits = {x}
        BY <1>8, <2>3, FS_Singleton
      <4> QED
        BY <3>1, <4>1
    <3> QED
      BY <1>1, <1>5, <1>9, <1>10, <2>3, <3>1, <3>2, AddUnit
  <2>4. CASE /\ ~skip /\ lits # {} /\ Cardinality(lits) # 1
             /\ \E w \in MoveLiteralsToWatch(Lazy, clause, lits) :
                  /\ db' = AddTo(db, Clause(lits, w, FALSE))
                  /\ t' = HandledTrail(opts.chrono, db', Lazy, w, FreshId(db))
             /\ UNCHANGED unsat
    <3>1. PICK w \in MoveLiteralsToWatch(Lazy, clause, lits) :
            /\ db' = AddTo(db, Clause(lits, w, FALSE))
            /\ t' = HandledTrail(opts.chrono, db', Lazy, w, FreshId(db))
      BY <2>4
    <3>2. Cardinality(lits) \in Nat /\ Cardinality(lits) # 0
      BY <1>8, <2>4, FS_CardinalityType, FS_EmptySet
    <3>3. Cardinality(lits) >= 2
      BY <2>4, <3>2
    <3> QED
      BY <1>1, <1>5, <1>8, <1>9, <1>10, <2>4, <3>1, <3>3, AddLong
  <2> QED
    BY <1>2, <2>1, <2>2, <2>3, <2>4
<1>12. Level(t) = 0 \/ ~opts.ilb => Level(t') = 0
  <2> SUFFICES ASSUME Level(t) = 0 \/ ~opts.ilb PROVE Level(t') = 0
    OBVIOUS
  <2>1. Level(Lazy) = 0
    <3>1. CASE ~opts.ilb
      <4>1. Founded(opts.chrono, maxVar, db, t) /\ maxVar \in Nat /\ 0 \in 0..Level(t)
        BY GraphFacts DEF SearchInv, CoreInv, GraphInv
      <4>2. Level(Backtrack(t, 0)) = 0
        BY <4>1, SearchBacktrack
      <4> QED
        BY <3>1, <4>2 DEF Lazy
    <3> QED
      BY <3>1, <1>7
  <2>2. Backtrack(Lazy, 0) = Lazy
    BY <2>1 DEF Backtrack
  <2>3. \A l : Level(SearchAssign(0, db, Lazy, l, NoReason)) = 0
    <3> SUFFICES ASSUME NEW l PROVE Level(SearchAssign(0, db, Lazy, l, NoReason)) = 0
      OBVIOUS
    <3>1. \A x : [Lazy EXCEPT !.trail = x].control = Lazy.control
      BY <1>7, TrailFields DEF Shape
    <3> QED
      BY <2>1, <3>1 DEF SearchAssign, Level
  <2>4. \A s, w, i : HandledTrail(opts.chrono, s, Lazy, w, i) = Lazy
    BY <2>1 DEF HandledTrail
  <2>5. t' = Lazy \/ t' = SearchAssign(0, db, Backtrack(Lazy, 0), unit, NoReason)
    BY ONLY <1>2, <2>4
  <2> QED
    BY ONLY <2>1, <2>2, <2>3, <2>5
<1> QED
  BY <1>6, <1>11, <1>12

-----------------------------------------------------------------------------
(* Every step.                                                             *)

\* The types of what the search keeps beside the trail and the clauses.
LEMMA SolvingTypes ==
  ASSUME SearchInv, Solving
  PROVE  ApiTypes' /\ FlowTypes'
<1>1. ApiTypes /\ FlowTypes
  BY DEF SearchInv
<1>2. UNCHANGED <<apiVars, input>>
  BY DEF Solving, Propagate, PropagateLiteral, Visit, PropagateBinary, StopAtLong, SkipLong,
         ReplaceWatch, PropagateUnit, FindConflict, Visited, AnalyzeStep, LearnEmptyClause,
         ReturnUnsat, ReturnSat, ReturnUnknown, Return, Restart, StartReduce, Reduce,
         DecideAssumption, DecideConstraint, DecideVariable
<1>3. ApiTypes'
  BY <1>1, <1>2 DEF ApiTypes, apiVars
<1>4. CASE Propagate
  <2>1. UNCHANGED <<pc, result, unsat, unsatConstraint, fresh, reductions>>
    BY <1>4 DEF Propagate, PropagateLiteral, Visit, PropagateBinary, StopAtLong, SkipLong,
                ReplaceWatch, PropagateUnit, FindConflict, Visited
  <2> QED
    BY <1>1, <1>3, <2>1 DEF FlowTypes
<1>5. CASE AnalyzeStep
  <2>1. unsat' \in BOOLEAN
    BY <1>5, AnalyzeStepKeeps
  <2>2. UNCHANGED <<pc, result, unsatConstraint, reductions>> /\ fresh' = TRUE
    BY <1>5 DEF AnalyzeStep
  <2> QED
    BY <1>1, <1>3, <2>1, <2>2 DEF FlowTypes
<1>6. CASE LearnEmptyClause
  <2>1. UNCHANGED <<result, unsatConstraint, reductions, fresh>> /\ unsat' = TRUE /\ pc' \in {pc, "search"}
    BY <1>6 DEF LearnEmptyClause
  <2> QED
    BY <1>1, <1>3, <2>1 DEF FlowTypes
<1>7. CASE ReturnUnsat \/ ReturnSat \/ ReturnUnknown
  <2>1. UNCHANGED <<unsat, unsatConstraint, reductions, fresh>> /\ pc' = "done" /\ result' \in {0, 10, 20}
    BY <1>7 DEF ReturnUnsat, ReturnSat, ReturnUnknown, Return
  <2> QED
    BY <1>1, <1>3, <2>1 DEF FlowTypes
<1>8. CASE Restart
  <2>1. UNCHANGED <<unsat, unsatConstraint, reductions, pc, result>> /\ fresh' = FALSE
    BY <1>8 DEF Restart
  <2> QED
    BY <1>1, <1>3, <2>1 DEF FlowTypes
<1>9. CASE StartReduce
  <2>1. /\ UNCHANGED <<unsat, unsatConstraint, fresh, result>> /\ pc' = "reduce"
        /\ reductions < MaxReductions /\ reductions' = reductions + 1
    BY <1>9 DEF StartReduce
  <2>2. reductions \in Nat /\ MaxReductions \in Nat
    BY <1>1, ConstantTypes DEF FlowTypes
  <2>3. reductions' \in Nat /\ reductions' <= MaxReductions
    BY <2>1, <2>2
  <2> QED
    BY <1>1, <1>3, <2>1, <2>3 DEF FlowTypes
<1>10. CASE Reduce
  <2>1. UNCHANGED <<unsat, unsatConstraint, fresh, result, reductions>> /\ pc' = "search"
    BY <1>10 DEF Reduce
  <2> QED
    BY <1>1, <1>3, <2>1 DEF FlowTypes
<1>11. CASE DecideAssumption \/ DecideConstraint \/ DecideVariable
  <2>1. /\ UNCHANGED <<unsat, fresh, reductions>> /\ unsatConstraint' \in {unsatConstraint, TRUE}
        /\ \/ UNCHANGED <<pc, result>>
           \/ pc' = "done" /\ result' = 20
    BY <1>11 DEF DecideAssumption, DecideConstraint, DecideVariable, Return
  <2> QED
    BY <1>1, <1>3, <2>1 DEF FlowTypes
<1> QED
  BY <1>4, <1>5, <1>6, <1>7, <1>8, <1>9, <1>10, <1>11 DEF Solving

\* The invariant through a step of the search.
LEMMA SolvingStep ==
  ASSUME SearchInv, Solving
  PROVE  SearchInv'
<1>1. ApiTypes' /\ FlowTypes'
  BY SolvingTypes
<1>2. CoreInv'
  <2>1. CASE Propagate
    BY <2>1, PropagateStep
  <2>2. CASE AnalyzeStep
    BY <2>2, AnalyzeStepKeeps
  <2>3. CASE LearnEmptyClause
    BY <2>3, LearnEmptyClauseKeeps
  <2>4. CASE ReturnUnsat \/ ReturnSat \/ ReturnUnknown
    BY <2>4, ReturnStep
  <2>5. CASE Restart
    BY <2>5, RestartStep
  <2>6. CASE StartReduce
    BY <2>6, StartReduceStep
  <2>7. CASE Reduce
    BY <2>7, ReduceStep
  <2>8. CASE DecideAssumption \/ DecideConstraint \/ DecideVariable
    BY <2>8, DecideStep
  <2> QED
    BY <2>1, <2>2, <2>3, <2>4, <2>5, <2>6, <2>7, <2>8 DEF Solving
<1> QED
  BY <1>1, <1>2 DEF SearchInv

\* And through a call.
LEMMA UserStep ==
  ASSUME SearchInv, User
  PROVE  SearchInv'
<1>1. ApiTypes /\ FlowTypes
  BY DEF SearchInv
<1>2. CASE NextRound
  <2>1. CoreInv'
    BY <1>2, NextRoundStep
  <2>2. /\ UNCHANGED <<opts, maxVar, original, unsat, input, fresh, reductions>>
        /\ pc' = "ready" /\ assumptions' = <<>> /\ constrained' = {} /\ constraint' = {}
        /\ unsatConstraint' = FALSE /\ result' = 0
    BY <1>2 DEF NextRound, searchVars
  <2>3. ApiTypes'
    BY <1>1, <2>2 DEF ApiTypes
  <2>4. FlowTypes'
    BY <1>1, <2>2 DEF FlowTypes
  <2> QED
    BY <2>1, <2>3, <2>4 DEF SearchInv
<1>3. CASE AddClause
  <2>1. CoreInv' /\ ApiTypes'
    BY <1>3, AddClauseStep
  <2>2. UNCHANGED <<unsatConstraint, pc, result, fresh, reductions>> /\ unsat' \in {unsat, TRUE}
    BY <1>3 DEF AddClause
  <2>3. FlowTypes'
    BY <1>1, <2>2 DEF FlowTypes
  <2> QED
    BY <2>1, <2>3 DEF SearchInv
<1>4. CASE Assume
  <2>1. CoreInv' /\ ApiTypes'
    BY <1>4, AssumeStep
  <2>2. UNCHANGED <<unsatConstraint, pc, result, fresh, reductions, unsat>>
    BY <1>4 DEF Assume
  <2>3. FlowTypes'
    BY <1>1, <2>2 DEF FlowTypes
  <2> QED
    BY <2>1, <2>3 DEF SearchInv
<1>5. CASE Constrain
  <2>1. CoreInv' /\ ApiTypes'
    BY <1>5, ConstrainStep
  <2>2. UNCHANGED <<pc, result, fresh, reductions, unsat>> /\ unsatConstraint' \in BOOLEAN
    BY <1>5 DEF Constrain
  <2>3. FlowTypes'
    BY <1>1, <2>2 DEF FlowTypes
  <2> QED
    BY <2>1, <2>3 DEF SearchInv
<1>6. CASE Solve
  <2>1. CoreInv' /\ ApiTypes'
    BY <1>6, SolveStep
  <2>2. UNCHANGED <<result, unsat, unsatConstraint>> /\ pc' = "search" /\ fresh' = FALSE /\ reductions' = 0
    BY <1>6 DEF Solve
  <2>3. reductions' \in Nat /\ reductions' <= MaxReductions
    BY <2>2, ConstantTypes
  <2>4. FlowTypes'
    BY <1>1, <2>2, <2>3 DEF FlowTypes
  <2> QED
    BY <2>1, <2>4 DEF SearchInv
<1>7. CASE MarkFailed
  <2>1. CoreInv'
    BY <1>7, MarkFailedStep
  <2>2. UNCHANGED <<apiVars, input, unsatConstraint, pc, result, fresh, reductions, unsat>>
    BY <1>7 DEF MarkFailed, searchVars
  <2>3. ApiTypes'
    BY <1>1, <2>2 DEF ApiTypes, apiVars
  <2>4. FlowTypes'
    BY <1>1, <2>2 DEF FlowTypes
  <2> QED
    BY <2>1, <2>3, <2>4 DEF SearchInv
<1> QED
  BY <1>2, <1>3, <1>4, <1>5, <1>6, <1>7 DEF User

\* The invariant is inductive.
LEMMA SearchInvStep ==
  ASSUME SearchInv, [Next]_vars
  PROVE  SearchInv'
<1>1. CASE Next
  BY <1>1, SolvingStep, UserStep DEF Next
<1>2. CASE UNCHANGED vars
  BY <1>2 DEF vars, apiVars, searchVars, SearchInv, ApiTypes, FlowTypes, CoreInv, GraphInv,
              QuietInv, VisitInv, ConflictInv, WatchInv, FormulaInv, Visiting, Bound, PropagatedLit,
              Propagated
<1> QED
  BY <1>1, <1>2

\* In every state of the search its trail is an implication graph of its
\* clauses, its watches are right up to where it propagated, a conflict is a
\* falsified clause, and the clauses say what the user said.
THEOREM SearchInvariant == Spec => []SearchInv
<1>1. Init => SearchInv
  BY SearchInvInit
<1>2. SearchInv /\ [Next]_vars => SearchInv'
  BY SearchInvStep
<1> QED
  BY <1>1, <1>2, PTL DEF Spec

-----------------------------------------------------------------------------
(* What the invariant says of the properties.                              *)

\* The units of the trail, the irredundant clauses and all clauses as formulas.
LEMMA KeptFormulas ==
  ASSUME NEW T
  PROVE  /\ SatFormula(T, Units) <=> RootHolds(T, t)
         /\ SatFormula(T, {db[i].lits : i \in {j \in Ids : ~db[j].redundant /\ ~db[j].garbage}}) <=>
              CoreHolds(T, db)
         /\ SatFormula(T, {db[i].lits : i \in Ids}) <=> AllHold(T, db)
<1>1. \A l : SatClause(T, {l}) <=> SatLit(T, l)
  BY DEF SatClause
<1>2. SatFormula(T, Units) <=> RootHolds(T, t)
  <2> DEFINE roots == {j \in Positions(t) : t.trail[j].level = 0}
  <2>1. Units = {{t.trail[k].lit} : k \in roots}
    BY DEF Units
  <2>2. SatFormula(T, Units) <=> \A k \in roots : SatClause(T, {t.trail[k].lit})
    BY <2>1 DEF SatFormula
  <2> QED
    BY <2>2, <1>1 DEF RootHolds
<1>3. SatFormula(T, {db[i].lits : i \in {j \in Ids : ~db[j].redundant /\ ~db[j].garbage}}) <=>
        CoreHolds(T, db)
  BY DEF SatFormula, CoreHolds, Ids
<1>4. SatFormula(T, {db[i].lits : i \in Ids}) <=> AllHold(T, db)
  BY DEF SatFormula, AllHold, Ids
<1> QED
  BY <1>2, <1>3, <1>4

\* Two formulas are satisfied together when each one is.
LEMMA SatUnion ==
  ASSUME NEW T, NEW F, NEW G
  PROVE  SatFormula(T, F \cup G) <=> SatFormula(T, F) /\ SatFormula(T, G)
BY DEF SatFormula

\* The clauses say what the user said.
LEMMA FormulaFacts ==
  ASSUME SearchInv
  PROVE  FormulaKept
<1> DEFINE core == {db[i].lits : i \in {j \in Ids : ~db[j].redundant /\ ~db[j].garbage}}
           every == {db[i].lits : i \in Ids}
           kept == Units \cup core
<1> SUFFICES ASSUME ~unsat PROVE Equivalent(kept, original) /\ Equivalent(kept \cup every, original)
  BY DEF FormulaKept
<1>1. \A T : SatFormula(T, original) => RootHolds(T, t) /\ AllHold(T, db)
  BY DEF SearchInv, CoreInv, FormulaInv, Good
<1>2. \A T : RootHolds(T, t) /\ CoreHolds(T, db) => SatFormula(T, original)
  BY DEF SearchInv, CoreInv, FormulaInv
<1>3. \A T : AllHold(T, db) => CoreHolds(T, db)
  BY DEF AllHold, CoreHolds
<1>4. \A T : /\ SatFormula(T, Units) <=> RootHolds(T, t)
             /\ SatFormula(T, core) <=> CoreHolds(T, db)
             /\ SatFormula(T, every) <=> AllHold(T, db)
  BY KeptFormulas
<1> HIDE DEF core, every
<1>5. \A T : SatFormula(T, kept) <=> SatFormula(T, original)
  BY <1>1, <1>2, <1>3, <1>4, SatUnion
<1>6. \A T : SatFormula(T, kept \cup every) <=> SatFormula(T, original)
  BY <1>1, <1>4, <1>5, SatUnion
<1> QED
  BY <1>5, <1>6 DEF Equivalent

\* Learning, strengthening, subsumption and collection never lose a clause of
\* the user's and never add a wrong one.
THEOREM FormulaIsKept == Spec => []FormulaKept
<1>1. SearchInv => FormulaKept
  BY FormulaFacts
<1> QED
  BY <1>1, SearchInvariant, PTL

\* The trail is an implication graph.
LEMMA GraphIsImplication ==
  ASSUME SearchInv
  PROVE  TrailIsImplicationGraph
<1>1. /\ IsDatabase(maxVar, db) /\ Shape(t) /\ Graph(db, t) /\ maxVar \in Nat
      /\ t \in Trails /\ Distinct(t) /\ Heights(t) /\ Level(t) \in Nat
  BY GraphFacts DEF Shape
<1>2. \A k \in Positions(t) : t.trail[k].lit \in Int /\ t.trail[k].reason \in Nat /\ t.trail[k].level \in Nat
  BY <1>1, TrailTypes
<1>3. \A j, k \in Positions(t) : j # k => VarOf(t.trail[j].lit) # VarOf(t.trail[k].lit)
  <2>1. \A x, y \in Int : x # y /\ x # -y => VarOf(x) # VarOf(y)
    BY DEF VarOf
  <2> QED
    BY <1>1, <1>2, <2>1 DEF Distinct
<1>4. ASSUME NEW k \in Positions(t), t.trail[k].reason # NoReason
      PROVE  LET e == t.trail[k]
                 others == db[e.reason].lits \ {e.lit}
             IN  /\ e.lit \in db[e.reason].lits
                 /\ \A l \in others : Val(t, l) < 0 /\ Pos(t, l) < k
                 /\ e.level = MaxLevel(t, others)
  <2> DEFINE e == t.trail[k]
             others == db[e.reason].lits \ {e.lit}
  <2>1. /\ e.reason \in DOMAIN db /\ e.level > 0 /\ e.lit \in db[e.reason].lits
        /\ \A l \in others : Val(t, l) = -1 /\ Pos(t, l) < k /\ LevelOf(t, l) <= e.level
        /\ \E l \in others : LevelOf(t, l) = e.level
    BY <1>1, <1>4 DEF Graph, Reasoned
  <2>2. others \subseteq Int /\ \A l \in others : Val(t, l) # 0
    <3>1. \A l \in db[e.reason].lits : l \in Int
      BY <1>1, <2>1, ClauseLits
    <3>2. \A l \in others : Val(t, l) # 0
      BY <2>1
    <3> QED
      BY <3>1, <3>2
  <2>3. /\ MaxLevel(t, others) \in Nat
        /\ \A l \in others : LevelOf(t, l) <= MaxLevel(t, others)
        /\ MaxLevel(t, others) # 0 => \E l \in others : LevelOf(t, l) = MaxLevel(t, others)
    BY <1>1, <2>2, MaxLevelFacts
  <2>4. e.level \in Nat
    BY <1>2
  <2>5. e.level <= MaxLevel(t, others)
    BY <2>1, <2>3
  <2>6. MaxLevel(t, others) <= e.level
    BY <2>1, <2>3, <2>4
  <2>7. e.level = MaxLevel(t, others)
    BY <2>3, <2>4, <2>5, <2>6
  <2>8. \A l \in others : Val(t, l) < 0 /\ Pos(t, l) < k
    BY <2>1
  <2> QED
    BY <2>1, <2>7, <2>8
<1>5. \A i \in 1..Level(t) : t.control[i].decision # 0 =>
        t.trail[t.control[i].trail + 1] =
          [lit |-> t.control[i].decision, level |-> i, reason |-> NoReason]
  BY <1>1 DEF Heights
<1> QED
  BY <1>3, <1>4, <1>5 DEF TrailIsImplicationGraph

\* Backtracking that keeps out-of-order literals, reuse of the trail and
\* strengthening of clauses that are reasons leave an implication graph the
\* analysis can use.
THEOREM TrailIsGraph == Spec => []TrailIsImplicationGraph
<1>1. SearchInv => TrailIsImplicationGraph
  BY GraphIsImplication
<1> QED
  BY <1>1, SearchInvariant, PTL

-----------------------------------------------------------------------------
(* Propagation is complete, also once the clauses are refuted.             *)

\* An empty clause that was added leaves the watches.
UnsatInv == unsat /\ conflict = 0 => AllWatched(t, db)

\* Where the watches are right, backtracking keeps them so.
LEMMA BacktrackWatched ==
  ASSUME SearchInv, UnsatInv, UNCHANGED <<opts, db, conflict>>, unsat,
         NEW m \in 0..Level(t), t' = Backtrack(t, m)
  PROVE  conflict' = 0 => AllWatched(t', db')
<1>1. Founded(opts.chrono, maxVar, db, t) /\ maxVar \in Nat
  BY GraphFacts DEF SearchInv, CoreInv, GraphInv
<1>2. AllWatched(t, db) => AllWatched(Backtrack(t, m), db)
  BY <1>1, SearchBacktrack
<1> QED
  BY <1>2 DEF UnsatInv

\* The watches through every step.
LEMMA UnsatStep ==
  ASSUME SearchInv, UnsatInv, [Next]_vars
  PROVE  UnsatInv'
<1> SUFFICES ASSUME unsat', conflict' = 0 PROVE AllWatched(t', db')
  BY DEF UnsatInv
<1>0. /\ Level(t) \in Nat /\ maxVar \in Nat /\ unsat \in BOOLEAN
      /\ todo # {} => ~unsat
  BY GraphFacts DEF SearchInv, FlowTypes, CoreInv, QuietInv
<1>1. CASE UNCHANGED <<t, db, conflict, unsat>>
  BY <1>1 DEF UnsatInv
<1>2. CASE Propagate
  <2>1. CASE PropagateLiteral
    BY <2>1 DEF PropagateLiteral
  <2>2. CASE \E i \in todo : Visit(i)
    <3>1. PICK i \in todo : Visit(i)
      BY <2>2
    <3>2. unsat' = unsat
      BY <3>1 DEF Visit, Visited, PropagateBinary, StopAtLong, SkipLong, ReplaceWatch, PropagateUnit,
                  FindConflict
    <3>3. ~unsat
      BY ONLY <1>0, todo # {}, Zenon
    <3> QED
      BY <3>2, <3>3, Zenon
  <2> QED
    BY <1>2, <2>1, <2>2 DEF Propagate
<1>3. CASE AnalyzeStep
  BY <1>3 DEF AnalyzeStep
<1>4. CASE LearnEmptyClause
  BY <1>4 DEF LearnEmptyClause
<1>5. CASE Restart \/ StartReduce \/ Reduce \/ DecideAssumption \/ DecideConstraint \/ DecideVariable
  BY <1>5, <1>0 DEF Restart, StartReduce, Reduce, DecideAssumption, DecideConstraint, DecideVariable, Searching,
     Return
<1>6. CASE ReturnUnsat \/ ReturnSat \/ ReturnUnknown \/ MarkFailed \/ NextRound \/ UNCHANGED vars
  BY <1>6, <1>1 DEF ReturnUnsat, ReturnSat, ReturnUnknown, Return, MarkFailed, NextRound, searchVars, vars
<1>7. CASE AddClause
  <2>1. UNCHANGED conflict /\ Ready
    BY <1>7 DEF AddClause
  <2>2. unsat => t' = Lazy /\ db' = db
    BY <1>7 DEF AddClause
  <2>3. ~unsat => t' = Lazy /\ db' = db
    BY <1>7 DEF AddClause
  <2>4. ~unsat => AllWatched(t, db)
    BY <2>1, ReadyFacts
  <2>5. AllWatched(t, db)
    BY <1>0, <2>1, <2>4 DEF UnsatInv
  <2>6. AllWatched(Lazy, db)
    <3>1. maxVar \in Nat /\ maxVar <= maxVar
      BY <1>0
    <3> QED
      BY <2>5, <3>1, LazyFacts, Zenon
  <2>7. t' = Lazy /\ db' = db
    BY <2>2, <2>3
  <2> QED
    BY <2>6, <2>7
<1>8. CASE Assume \/ Constrain \/ Solve
  <2>1. UNCHANGED <<opts, db, conflict, unsat>>
    BY <1>8 DEF Assume, Constrain, Solve
  <2>2. \E m \in 0..Level(t) : t' = Backtrack(t, m)
    <3>1. CASE Constrain
      <4>1. t' = Backtrack(t, 0)
        BY <3>1, Zenon DEF Constrain
      <4>2. 0 \in 0..Level(t)
        BY ONLY <1>0
      <4> QED
        BY <4>1, <4>2
    <3> QED
      BY <1>8, <3>1, AssumeStep, SolveStep
  <2> QED
    BY <2>1, <2>2, BacktrackWatched
<1> QED
  BY <1>2, <1>3, <1>4, <1>5, <1>6, <1>7, <1>8 DEF Next, Solving, User

\* No clause is falsified when propagation ended without a conflict.
NoneFalsified == Propagated => \A i \in Ids : db[i].garbage \/ ~Falsified(t, db[i].lits)

\* A clause with watches that are right is not falsified.
LEMMA NoneFalsifiedFacts ==
  ASSUME SearchInv, UnsatInv
  PROVE  NoneFalsified
<1> SUFFICES ASSUME Propagated, NEW i \in DOMAIN db, ~db[i].garbage, Falsified(t, db[i].lits) PROVE FALSE
  BY DEF NoneFalsified, Ids
<1>1. /\ Shape(t) /\ maxVar \in Nat /\ IsDatabase(maxVar, db)
      /\ t.propagated = Len(t.trail) /\ todo = {} /\ conflict = 0
  BY GraphFacts DEF Propagated
<1>2. WatchOK(t, t.propagated, db[i])
  <2>1. CASE unsat
    BY <1>1, <2>1 DEF UnsatInv, AllWatched
  <2>2. CASE ~unsat
    BY <1>1, <2>2 DEF SearchInv, CoreInv, WatchInv, Bound
  <2> QED
    BY <2>1, <2>2
<1>3. \A l \in db[i].lits : l \in Int /\ Val(t, l) = -1
  BY ValuesIn DEF Falsified
<1>4. db[i].watch \subseteq db[i].lits
  BY <1>1, ClauseTypes
<1>5. \A w \in db[i].watch : Val(t, w) = -1 /\ Pos(t, w) <= t.propagated
  BY <1>1, <1>3, <1>4, AssignedFacts
<1>6. \E l \in db[i].lits : Val(t, l) = 1
  BY <1>2, <1>5 DEF WatchOK, DoneTo
<1> QED
  BY <1>3, <1>6

\* Assertion 'FW1' of flush_watches.
LEMMA WatchesSurviveFacts ==
  ASSUME SearchInv
  PROVE  WatchesSurviveReduce
<1> SUFFICES ASSUME pc = "reduce", ~unsat, Propagated, NEW i \in DOMAIN db
             PROVE  RemoveFixed(db[i]).watch = db[i].watch
  BY DEF WatchesSurviveReduce, Ids
<1>1. Reducing
  BY DEF SearchInv, CoreInv, QuietInv, Reducing
<1> QED
  BY <1>1, RemoveFixedFacts DEF Reduced

\* Where units may be missed, a clause that is neither satisfied nor falsified
\* has an unassigned literal.
LEMMA LazyPropagationFacts ==
  ASSUME SearchInv, NoneFalsified, MayMissUnits
  PROVE  PropagationComplete
<1> SUFFICES ASSUME Propagated, NEW i \in DOMAIN db, ~db[i].garbage, ~Satisfied(t, db[i].lits)
             PROVE  Cardinality(Undefined(t, db[i].lits)) > 0
  BY DEF PropagationComplete, Ids
<1>1. \A l \in db[i].lits : l \in Int /\ Val(t, l) \in {-1, 0, 1}
  BY ValuesIn
<1>2. PICK l \in db[i].lits : Val(t, l) = 0
  BY <1>1 DEF NoneFalsified, Falsified, Satisfied, Ids
<1>3. IsFiniteSet(db[i].lits) /\ maxVar \in Nat
  BY GraphFacts, ClauseTypes
<1>4. Undefined(t, db[i].lits) \subseteq db[i].lits /\ l \in Undefined(t, db[i].lits)
  BY <1>2 DEF Undefined
<1>5. IsFiniteSet(Undefined(t, db[i].lits))
  BY <1>3, <1>4, FS_Subset
<1> QED
  BY <1>4, <1>5, FS_EmptySet, FS_CardinalityType

\* When propagation ends without a conflict no clause is falsified, and no
\* clause that a reduction keeps watches a literal it removes; where units may
\* be missed this is all that the watches promise.
THEOREM PropagationHolds ==
  Spec => [](NoneFalsified /\ WatchesSurviveReduce /\ (MayMissUnits => PropagationInv))
<1>1. Init => SearchInv /\ UnsatInv
  BY SearchInvInit DEF Init, InitWith, UnsatInv
<1>2. SearchInv /\ UnsatInv /\ [Next]_vars => (SearchInv /\ UnsatInv)'
  BY SearchInvStep, UnsatStep
<1>3. SearchInv /\ UnsatInv => NoneFalsified /\ WatchesSurviveReduce /\ (MayMissUnits => PropagationInv)
  BY NoneFalsifiedFacts, WatchesSurviveFacts, LazyPropagationFacts DEF PropagationInv
<1> QED
  BY <1>1, <1>2, <1>3, PTL DEF Spec

-----------------------------------------------------------------------------
(* The levels of the assumptions.                                          *)

\* The first levels of trail u, one for each of the assumptions s, decide
\* assumptions or nothing, and the assumption of a level is true there.
FirstLevels(s, u) ==
  \A i \in 1..Len(s) : i <= Level(u) =>
    /\ u.control[i].decision \in {0} \cup Rng(s)
    /\ Val(u, s[i]) = 1 /\ LevelOf(u, s[i]) <= i

\* The level after them is that of the constraint c.
ChosenLevel(s, c, u) ==
  c # {} /\ Level(u) > Len(s) => \E l \in c : Val(u, l) = 1 /\ LevelOf(u, l) <= Len(s) + 1

\* The root level has decided the literals of the constraints C that are not
\* in c; f says that it falsifies all of them.
RootDecides(C, c, f, u) ==
  \A d \in C :
    IF c # {} THEN c \subseteq d /\ \A l \in d \ c : Fixed(u, l) < 0
    ELSE IF f THEN \A l \in d : Fixed(u, l) < 0
    ELSE \E l \in d : -l \in d \/ Fixed(u, l) > 0

\* What a trail retains of a trail with a level of the same number or lower.
LEMMA RetainsLevels ==
  ASSUME NEW n \in Nat, NEW tr, Shape(tr), NEW u, Shape(u), Retains(tr, u),
         NEW s \in Seq(LitsOf(n)), NEW c, c \subseteq LitsOf(n), NEW C, C \subseteq SUBSET LitsOf(n), NEW f
  PROVE  /\ FirstLevels(s, tr) => FirstLevels(s, u)
         /\ ChosenLevel(s, c, tr) => ChosenLevel(s, c, u)
         /\ RootDecides(C, c, f, tr) => RootDecides(C, c, f, u)
<1>1. Level(tr) \in Nat /\ Level(u) \in Nat /\ Level(u) <= Level(tr) /\ Len(s) \in Nat
  BY TrailTypes DEF Shape, Retains
<1>2. \A l \in LitsOf(n) : l \in Int
  BY LitFacts
<1>3. \A i \in 1..Len(s) : s[i] \in Int
  BY <1>2
<1>4. \A l \in Int : Val(tr, l) # 0 /\ LevelOf(tr, l) <= Level(u) =>
        Val(u, l) = Val(tr, l) /\ LevelOf(u, l) = LevelOf(tr, l)
  BY DEF Retains
<1>5. \A l \in Int : Val(tr, l) # 0 => LevelOf(tr, l) \in Nat
  BY AssignedFacts
<1>6. ASSUME FirstLevels(s, tr) PROVE FirstLevels(s, u)
  <2> SUFFICES ASSUME NEW i \in 1..Len(s), i <= Level(u)
               PROVE  /\ u.control[i].decision \in {0} \cup Rng(s)
                      /\ Val(u, s[i]) = 1 /\ LevelOf(u, s[i]) <= i
    BY DEF FirstLevels
  <2>1. /\ tr.control[i].decision \in {0} \cup Rng(s)
        /\ Val(tr, s[i]) = 1 /\ LevelOf(tr, s[i]) <= i
    BY <1>1, <1>6 DEF FirstLevels
  <2>2. u.control[i].decision = tr.control[i].decision
    BY <1>1 DEF Retains
  <2>3. LevelOf(tr, s[i]) <= Level(u)
    BY <1>1, <1>3, <1>5, <2>1
  <2> QED
    BY <1>3, <1>4, <2>1, <2>2, <2>3
<1>7. ASSUME ChosenLevel(s, c, tr) PROVE ChosenLevel(s, c, u)
  <2> SUFFICES ASSUME c # {}, Level(u) > Len(s)
               PROVE  \E l \in c : Val(u, l) = 1 /\ LevelOf(u, l) <= Len(s) + 1
    BY DEF ChosenLevel
  <2>1. PICK l \in c : Val(tr, l) = 1 /\ LevelOf(tr, l) <= Len(s) + 1
    BY <1>1, <1>7 DEF ChosenLevel
  <2>2. l \in Int /\ LevelOf(tr, l) \in Nat
    BY <1>2, <1>5, <2>1
  <2>3. LevelOf(tr, l) <= Level(u)
    BY <1>1, <2>1, <2>2
  <2> QED
    BY <1>4, <2>1, <2>2, <2>3
<1>8. \A l \in LitsOf(n) : /\ Fixed(tr, l) < 0 => Fixed(u, l) < 0
                           /\ Fixed(tr, l) > 0 => Fixed(u, l) > 0
  <2> SUFFICES ASSUME NEW l \in LitsOf(n), Fixed(tr, l) < 0 \/ Fixed(tr, l) > 0
               PROVE  Fixed(u, l) = Fixed(tr, l)
    OBVIOUS
  <2>1. l \in Int /\ Val(tr, l) # 0 /\ LevelOf(tr, l) = 0
    BY <1>2 DEF Fixed
  <2>2. Val(u, l) = Val(tr, l) /\ LevelOf(u, l) = LevelOf(tr, l)
    BY <1>1, <1>4, <2>1
  <2> QED
    BY <2>1, <2>2 DEF Fixed
<1>9. ASSUME RootDecides(C, c, f, tr) PROVE RootDecides(C, c, f, u)
  <2> SUFFICES ASSUME NEW d \in C
               PROVE  IF c # {} THEN c \subseteq d /\ \A l \in d \ c : Fixed(u, l) < 0
                      ELSE IF f THEN \A l \in d : Fixed(u, l) < 0
                      ELSE \E l \in d : -l \in d \/ Fixed(u, l) > 0
    BY DEF RootDecides
  <2>1. IF c # {} THEN c \subseteq d /\ \A l \in d \ c : Fixed(tr, l) < 0
        ELSE IF f THEN \A l \in d : Fixed(tr, l) < 0
        ELSE \E l \in d : -l \in d \/ Fixed(tr, l) > 0
    BY <1>9 DEF RootDecides
  <2>2. \A l \in d : /\ Fixed(tr, l) < 0 => Fixed(u, l) < 0
                     /\ Fixed(tr, l) > 0 => Fixed(u, l) > 0
    BY <1>8
  <2> QED
    BY <2>1, <2>2
<1> QED
  BY <1>6, <1>7, <1>9

\* A literal on top is retained.
LEMMA AppendRetains ==
  ASSUME NEW tr, Shape(tr), NEW u, Shape(u), NEW e, OnTop(tr, u, e), u.control = tr.control,
         Val(tr, e.lit) = 0
  PROVE  Retains(tr, u)
<1>1. tr \in Trails /\ u \in Trails /\ Distinct(tr) /\ Distinct(u) /\ tr.trail \in Seq(Assignments)
      /\ Len(tr.trail) \in Nat /\ Len(u.trail) \in Nat /\ Level(tr) \in Nat
  BY TrailTypes DEF Shape, Trails
<1>2. Len(u.trail) = Len(tr.trail) + 1 /\ u.trail[Len(tr.trail) + 1] = e
  BY <1>1 DEF OnTop
<1>3. Len(tr.trail) + 1 \in Positions(u)
  BY <1>1, <1>2 DEF Positions
<1>4. e \in Assignments /\ e.lit # 0
  BY <1>1, <1>2, <1>3, TrailTypes DEF Distinct
<1>5. \A l \in Int : Val(tr, l) # 0 => Val(u, l) = Val(tr, l) /\ LevelOf(u, l) = LevelOf(tr, l)
  BY <1>1, <1>4, OnTopView
<1> QED
  BY <1>1, <1>5 DEF Retains, Level

\* So is everything, whatever was propagated.
LEMMA SameRetains ==
  ASSUME NEW tr, Shape(tr), NEW u, SameLits(tr, u)
  PROVE  Retains(tr, u)
<1>1. Level(tr) \in Nat
  BY TrailTypes DEF Shape
<1> QED
  BY <1>1, SameView DEF Retains, SameLits

\* An assignment puts its literal on top.
LEMMA AssignOnTop ==
  ASSUME NEW tr \in Trails, NEW chrono, NEW d, NEW l, NEW r
  PROVE  \E e : /\ OnTop(tr, SearchAssign(chrono, d, tr, l, r), e) /\ e.lit = l
                /\ SearchAssign(chrono, d, tr, l, r).control = tr.control
<1> DEFINE lev == AssignmentLevel(chrono, d, tr, l, r)
           e == [lit |-> l, level |-> lev,
                 reason |-> IF lev = 0 \/ r = DecisionReason THEN NoReason ELSE r]
           u == SearchAssign(chrono, d, tr, l, r)
<1>1. u = [tr EXCEPT !.trail = Append(tr.trail, e)]
  BY DEF SearchAssign
<1>2. e.lit = l
  OBVIOUS
<1> HIDE DEF e
<1>3. u = [trail |-> Append(tr.trail, e), control |-> tr.control, propagated |-> tr.propagated]
  BY <1>1, TrailFields
<1>4. OnTop(tr, u, e) /\ u.control = tr.control
  BY <1>3 DEF OnTop
<1> QED
  BY <1>2, <1>4

\* Propagation retains the trail.
LEMMA PropagateRetains ==
  ASSUME SearchInv, Propagate
  PROVE  Retains(t, t')
<1>1. CoreInv'
  BY PropagateStep
<1>2. Shape(t) /\ Shape(t') /\ t \in Trails
  BY <1>1, GraphFacts DEF CoreInv, GraphInv, Founded
<1>3. CASE PropagateLiteral
  <2>1. t' = [t EXCEPT !.propagated = t.propagated + 1]
    BY <1>3 DEF PropagateLiteral
  <2>2. SameLits(t, t')
    BY <1>2, <2>1, TrailFields DEF SameLits
  <2> QED
    BY <1>2, <2>2, SameRetains
<1>4. CASE \E i \in todo : Visit(i)
  <2>1. PICK i \in todo : Visit(i)
    BY <1>4
  <2>2. t' = t \/ (Val(t, OtherWatch(db[i])) = 0 /\ t' = SearchAssign(opts.chrono, db, t, OtherWatch(db[i]), i))
    BY <2>1 DEF Visit, PropagateBinary, StopAtLong, SkipLong, ReplaceWatch, PropagateUnit, FindConflict
  <2>3. CASE t' = t
    BY <1>2, <2>3, SameRetains DEF SameLits
  <2>4. CASE Val(t, OtherWatch(db[i])) = 0 /\ t' = SearchAssign(opts.chrono, db, t, OtherWatch(db[i]), i)
    <3>1. PICK e : OnTop(t, t', e) /\ e.lit = OtherWatch(db[i]) /\ t'.control = t.control
      BY <1>2, <2>4, AssignOnTop
    <3> QED
      BY <1>2, <2>4, <3>1, AppendRetains
  <2> QED
    BY <2>2, <2>3, <2>4
<1> QED
  BY <1>3, <1>4 DEF Propagate

-----------------------------------------------------------------------------
(* The invariant.                                                          *)

\* Clauses are added before the assumptions are made, where a solve uses both
\* the trail and the levels of the assumptions again.
AdditionsFirst == MixedCalls => \A o \in Options : ~(o.ilb /\ o.ilbassumptions)

\* Once a solve has started its assumptions have the first levels, and its
\* constraint the next one.
LevelsInv ==
  pc # "ready" => FirstLevels(assumptions, t) /\ ChosenLevel(assumptions, constraint, t)

\* The constraint and what is left of it.
ConstraintInv ==
  /\ RootDecides(constrained, constraint, unsatConstraint, t)
  /\ constraint # {} => constrained # {} /\ (unsatConstraint => pc = "done")
  /\ unsatConstraint => constrained # {}

\* Between the calls: nothing has failed, the constraint is given at the root
\* level, and the trail falsifies no assumption whose level may be kept.
ReadyInv ==
  pc = "ready" =>
    /\ failed = {}
    /\ constrained # {} => Level(t) = 0 /\ input # <<>> /\ input[1].add = <<>>
    /\ assumptions # <<>> /\ Level(t) > 0 =>
         opts.ilbassumptions /\ \A a \in Rng(assumptions) : Val(t, a) # -1
    /\ assumptions # <<>> => MixedCalls \/ (input # <<>> /\ input[1].add = <<>>)

\* Why a solve returned what it returned.
ResultInv ==
  pc = "done" =>
    /\ result = 10 => Propagated /\ ~unsat /\ ~unsatConstraint /\ SatisfiedAll
    /\ result = 20 /\ ~unsat /\ unsatConstraint =>
         /\ \A l \in constraint : Val(t, l) = -1
         /\ constraint # {} => Level(t) <= Len(assumptions)
    /\ result = 20 /\ ~unsat /\ ~unsatConstraint =>
         Level(t) < Len(assumptions) /\ Val(t, assumptions[Level(t) + 1]) = -1

\* The inductive invariant of what the user is told.
AnswerInv == SearchInv /\ LevelsInv /\ ConstraintInv /\ ReadyInv /\ ResultInv

\* The types of the assumptions and the constraint.
LEMMA AnswerTypes ==
  ASSUME SearchInv
  PROVE  /\ maxVar \in Nat /\ Shape(t) /\ Level(t) \in Nat
         /\ assumptions \in Seq(LitsOf(maxVar)) /\ Len(assumptions) \in Nat
         /\ constraint \subseteq LitsOf(maxVar) /\ constrained \subseteq SUBSET LitsOf(maxVar)
         /\ \A k \in 1..Len(assumptions) : assumptions[k] \in Int /\ assumptions[k] \in Rng(assumptions)
         /\ Rng(assumptions) \subseteq LitsOf(maxVar)
         /\ unsatConstraint \in BOOLEAN /\ unsat \in BOOLEAN
<1>1. /\ maxVar \in Nat /\ Shape(t) /\ Level(t) \in Nat
  BY GraphFacts
<1>2. /\ assumptions \in Seq(LitsOf(maxVar)) /\ constraint \subseteq LitsOf(maxVar)
      /\ constrained \subseteq SUBSET LitsOf(maxVar)
  BY DEF SearchInv, ApiTypes
<1>3. Len(assumptions) \in Nat /\ DOMAIN assumptions = 1..Len(assumptions)
      /\ \A k \in 1..Len(assumptions) : assumptions[k] \in LitsOf(maxVar)
  BY <1>2
<1>4. \A k \in 1..Len(assumptions) : assumptions[k] \in Int
  BY <1>3, LitFacts
<1> QED
  BY <1>1, <1>2, <1>3, <1>4 DEF Rng, SearchInv, FlowTypes

\* It holds of a new solver.
LEMMA AnswerInvInit ==
  ASSUME Init
  PROVE  AnswerInv
<1>1. SearchInv
  BY SearchInvInit
<1> QED
  BY <1>1 DEF Init, InitWith, AnswerInv, LevelsInv, ConstraintInv, ReadyInv, ResultInv, RootDecides

-----------------------------------------------------------------------------
(* The steps of the search.                                                *)

\* Where the trail is retained the levels of the assumptions stay.
LEMMA LevelsRetained ==
  ASSUME AnswerInv, SearchInv', Retains(t, t'),
         UNCHANGED <<opts, assumptions, constrained, constraint, unsatConstraint>>
  PROVE  /\ pc # "ready" => FirstLevels(assumptions', t') /\ ChosenLevel(assumptions', constraint', t')
         /\ RootDecides(constrained', constraint', unsatConstraint', t')
<1>1. /\ maxVar \in Nat /\ Shape(t) /\ assumptions \in Seq(LitsOf(maxVar))
      /\ constraint \subseteq LitsOf(maxVar) /\ constrained \subseteq SUBSET LitsOf(maxVar)
  BY AnswerTypes DEF AnswerInv
<1>2. Shape(t')
  BY DEF SearchInv, CoreInv, GraphInv, Founded
<1>3. /\ pc # "ready" => FirstLevels(assumptions, t) /\ ChosenLevel(assumptions, constraint, t)
      /\ RootDecides(constrained, constraint, unsatConstraint, t)
  BY DEF AnswerInv, LevelsInv, ConstraintInv
<1>4. /\ FirstLevels(assumptions, t) => FirstLevels(assumptions, t')
      /\ ChosenLevel(assumptions, constraint, t) => ChosenLevel(assumptions, constraint, t')
      /\ RootDecides(constrained, constraint, unsatConstraint, t) =>
           RootDecides(constrained, constraint, unsatConstraint, t')
  BY <1>1, <1>2, RetainsLevels
<1> QED
  BY <1>3, <1>4

\* A step of the search that retains the trail and goes on.
LEMMA SearchRetains ==
  ASSUME AnswerInv, SearchInv', Retains(t, t'), UNCHANGED <<apiVars, input, unsatConstraint, failed>>,
         pc # "done", pc' # "done", pc' = "ready" <=> pc = "ready",
         pc = "ready" => t' = t \/ Level(t) = 0
  PROVE  AnswerInv'
<1>1. UNCHANGED <<opts, maxVar, original, assumptions, constrained, constraint>>
  BY DEF apiVars
<1>2. LevelsInv'
  BY <1>1, LevelsRetained DEF LevelsInv
<1>3. ConstraintInv'
  BY <1>1, LevelsRetained DEF ConstraintInv, AnswerInv
<1>4. ResultInv'
  BY DEF ResultInv
<1>5. Level(t) = 0 => Level(t') = 0
  <2>1. Level(t) \in Nat /\ Level(t') \in Nat
    BY TrailTypes DEF AnswerInv, SearchInv, CoreInv, GraphInv, Founded, Shape
  <2> QED
    BY <2>1 DEF Retains
<1>6. ReadyInv'
  BY <1>1, <1>5 DEF ReadyInv, AnswerInv
<1> QED
  BY <1>2, <1>3, <1>4, <1>6 DEF AnswerInv

\* The steps that do.
LEMMA SearchGoesOn ==
  ASSUME AnswerInv, SearchInv',
         Propagate \/ AnalyzeStep \/ LearnEmptyClause \/ Restart \/ StartReduce \/ Reduce
  PROVE  AnswerInv'
<1>0. SearchInv /\ Shape(t) /\ Level(t) \in Nat
  BY GraphFacts DEF AnswerInv
<1>1. Retains(t, t)
  BY <1>0, SameRetains DEF SameLits
<1>2. CASE Propagate
  <2>1. Retains(t, t')
    BY <1>0, <1>2, PropagateRetains
  <2>2. UNCHANGED <<apiVars, input, unsatConstraint, failed, pc>>
    BY <1>2 DEF Propagate, PropagateLiteral, Visit, PropagateBinary, StopAtLong, SkipLong,
         ReplaceWatch, PropagateUnit, FindConflict, Visited
  <2>3. pc \in {"search", "reduce"} \/ (pc = "ready" /\ Level(t) = 0)
    BY <1>0, <1>2, TodoFacts DEF Propagate, PropagateLiteral, Propagating
  <2> QED
    BY <2>1, <2>2, <2>3, SearchRetains
<1>3. CASE AnalyzeStep
  <2>1. Retains(t, t')
    BY <1>0, <1>3, AnalyzeStepKeeps
  <2>2. UNCHANGED <<apiVars, input, unsatConstraint, failed, pc>> /\ pc = "search"
    BY <1>3 DEF AnalyzeStep
  <2> QED
    BY <2>1, <2>2, SearchRetains
<1>4. CASE LearnEmptyClause
  <2>1. UNCHANGED <<apiVars, input, unsatConstraint, failed, t>>
        /\ pc \in {"ready", "reduce"} /\ pc' = IF pc = "reduce" THEN "search" ELSE pc
    BY <1>4 DEF LearnEmptyClause
  <2> QED
    BY <1>1, <2>1, SearchRetains
<1>5. CASE Restart \/ StartReduce
  <2>1. UNCHANGED <<apiVars, input, unsatConstraint, failed, opts, original, db, todo, conflict, unsat, maxVar>>
        /\ pc = "search" /\ pc' \in {"search", "reduce"} /\ Searching
    BY <1>5 DEF Restart, StartReduce, Searching, apiVars
  <2>2. todo = {} /\ conflict = 0 /\ maxVar \in Nat
    BY <1>0, <2>1, SearchingFacts, GraphFacts
  <2>3. \E m \in 0..Level(t) : t' = Backtrack(t, m)
    <3>1. CASE Restart
      <4>1. Level(t) >= Len(assumptions) + 2 /\ \E m \in ReuseTrail : t' = Backtrack(t, m)
        BY <3>1 DEF Restart
      <4> QED
        BY <1>0, <4>1, ReuseTrailFacts
    <3>2. CASE StartReduce
      <4>1. t' = t \/ t' = Backtrack(t, 0)
        BY <3>2 DEF StartReduce
      <4>2. t = Backtrack(t, Level(t)) /\ 0 \in 0..Level(t) /\ Level(t) \in 0..Level(t)
        BY <1>0 DEF Backtrack
      <4> QED
        BY <4>1, <4>2
    <3> QED
      BY <1>5, <3>1, <3>2
  <2>4. Retains(t, t')
    BY <1>0, <2>1, <2>2, <2>3, BacktrackKeeps
  <2> QED
    BY <2>1, <2>4, SearchRetains
<1>6. CASE Reduce
  <2>1. UNCHANGED <<apiVars, input, unsatConstraint, failed, t>> /\ pc = "reduce" /\ pc' = "search"
    BY <1>6 DEF Reduce
  <2> QED
    BY <1>1, <2>1, SearchRetains
<1> QED
  BY <1>2, <1>3, <1>4, <1>5, <1>6

\* What holds when the search may decide or stop.
LEMMA SearchingAnswers ==
  ASSUME AnswerInv, Searching
  PROVE  /\ pc = "search" /\ ~unsat /\ ~unsatConstraint /\ Propagated
         /\ FirstLevels(assumptions, t) /\ ChosenLevel(assumptions, constraint, t)
         /\ RootDecides(constrained, constraint, FALSE, t)
         /\ constraint # {} => constrained # {}
<1>1. pc = "search" /\ ~unsat /\ ~unsatConstraint /\ Propagated
  BY DEF Searching
<1>2. unsatConstraint = FALSE
  BY <1>1, AnswerTypes DEF AnswerInv
<1> QED
  BY <1>1, <1>2 DEF AnswerInv, LevelsInv, ConstraintInv

\* The values of the assumptions and of the literals of the constraint.
LEMMA AnswerValues ==
  ASSUME SearchInv
  PROVE  /\ \A l \in LitsOf(maxVar) : l \in Int /\ Val(t, l) \in {-1, 0, 1}
         /\ \A l \in constraint : l \in LitsOf(maxVar) /\ l \in Int /\ Val(t, l) \in {-1, 0, 1}
<1>1. /\ maxVar \in Nat /\ Shape(t) /\ constraint \subseteq LitsOf(maxVar)
  BY AnswerTypes
<1>2. \A l \in LitsOf(maxVar) : l \in Int
  BY LitFacts
<1>3. \A l \in LitsOf(maxVar) : Val(t, l) \in {-1, 0, 1}
  BY <1>1, <1>2, Values DEF Shape
<1> QED
  BY <1>1, <1>2, <1>3

\* What a solve that returns leaves.
LEMMA ReturnAnswers ==
  ASSUME AnswerInv, SearchInv', pc = "search", pc' = "done",
         UNCHANGED <<apiVars, input, db, t, todo, conflict, unsat, failed>>,
         RootDecides(constrained, constraint, unsatConstraint', t),
         unsatConstraint' => constrained # {},
         ResultInv'
  PROVE  AnswerInv'
<1>1. UNCHANGED <<opts, maxVar, original, assumptions, constrained, constraint>>
  BY DEF apiVars
<1>2. LevelsInv'
  BY <1>1 DEF LevelsInv, AnswerInv
<1>3. ConstraintInv'
  BY <1>1 DEF ConstraintInv, AnswerInv
<1>4. ReadyInv'
  BY DEF ReadyInv
<1> QED
  BY <1>2, <1>3, <1>4 DEF AnswerInv

\* A solve returns.
LEMMA ReturnsAnswer ==
  ASSUME AnswerInv, SearchInv',
         \/ ReturnUnsat \/ ReturnSat \/ ReturnUnknown
         \/ DecideAssumption /\ pc' = "done"
         \/ DecideConstraint /\ pc' = "done"
  PROVE  AnswerInv'
<1>0. /\ SearchInv /\ Level(t) \in Nat /\ Len(assumptions) \in Nat
      /\ unsatConstraint \in BOOLEAN /\ unsat \in BOOLEAN
      /\ RootDecides(constrained, constraint, unsatConstraint, t)
      /\ constraint # {} => constrained # {} /\ (unsatConstraint => pc = "done")
      /\ unsatConstraint => constrained # {}
  BY AnswerTypes DEF AnswerInv, ConstraintInv
<1>1. CASE ReturnUnsat
  <2>1. /\ pc = "search" /\ (unsat \/ unsatConstraint) /\ pc' = "done" /\ result' = 20
        /\ UNCHANGED <<apiVars, input, db, t, todo, conflict, unsat, failed>>
        /\ UNCHANGED unsatConstraint /\ UNCHANGED <<constraint, assumptions, maxVar>>
    BY <1>1 DEF ReturnUnsat, Return, apiVars
  <2>2. unsatConstraint => constraint = {}
    BY <1>0, <2>1
  <2>3. ResultInv'
    BY <2>1, <2>2 DEF ResultInv
  <2> QED
    BY <1>0, <2>1, <2>3, ReturnAnswers
<1>2. CASE ReturnSat
  <2>1. /\ Searching /\ SatisfiedAll /\ pc' = "done" /\ result' = 10
        /\ UNCHANGED <<apiVars, input, db, t, todo, conflict, unsat, failed>>
        /\ UNCHANGED unsatConstraint /\ UNCHANGED <<constraint, assumptions, maxVar>>
    BY <1>2 DEF ReturnSat, Return, apiVars
  <2>2. pc = "search" /\ ~unsat /\ ~unsatConstraint /\ Propagated
    BY <2>1 DEF Searching
  <2>3. Propagated' /\ SatisfiedAll'
    BY <2>1, <2>2 DEF Propagated, SatisfiedAll, AssumptionLevels
  <2>4. ~unsat' /\ ~unsatConstraint'
    BY <2>1, <2>2
  <2>5. ResultInv'
    BY <2>1, <2>3, <2>4 DEF ResultInv
  <2> QED
    BY <1>0, <2>1, <2>2, <2>5, ReturnAnswers
<1>3. CASE ReturnUnknown
  <2>1. /\ Searching /\ pc' = "done" /\ result' = 0
        /\ UNCHANGED <<apiVars, input, db, t, todo, conflict, unsat, failed>>
        /\ UNCHANGED unsatConstraint
    BY <1>3 DEF ReturnUnknown, Return
  <2>2. pc = "search"
    BY <2>1 DEF Searching
  <2>3. ResultInv'
    BY <2>1 DEF ResultInv
  <2> QED
    BY <1>0, <2>1, <2>2, <2>3, ReturnAnswers
<1>4. CASE DecideAssumption /\ pc' = "done"
  <2> DEFINE lit == assumptions[Level(t) + 1]
  <2>1. /\ Searching /\ Level(t) < Len(assumptions) /\ UNCHANGED unsatConstraint
        /\ IF Val(t, lit) < 0 THEN Return(20) ELSE UNCHANGED pc
    BY <1>4 DEF DecideAssumption
  <2>2. pc = "search" /\ ~unsat /\ ~unsatConstraint
    BY <2>1 DEF Searching
  <2>3. Val(t, lit) < 0 /\ Return(20)
    BY <1>4, <2>1, <2>2
  <2>4. Val(t, lit) = -1
    <3>1. Level(t) + 1 \in 1..Len(assumptions)
      BY <1>0, <2>1
    <3>2. lit \in LitsOf(maxVar)
      BY <1>0, <3>1, AnswerTypes
    <3> QED
      BY <1>0, <2>3, <3>2, AnswerValues
  <2>5. /\ pc' = "done" /\ result' = 20
        /\ UNCHANGED <<apiVars, input, db, t, todo, conflict, unsat, failed, assumptions, constraint>>
    BY <2>3 DEF Return, apiVars
  <2>6. ~unsatConstraint' /\ Level(t') < Len(assumptions') /\ Val(t', assumptions'[Level(t') + 1]) = -1
    BY <2>1, <2>2, <2>4, <2>5
  <2>7. ResultInv'
    BY <2>5, <2>6 DEF ResultInv
  <2> QED
    BY <1>0, <2>1, <2>2, <2>5, <2>7, ReturnAnswers
<1>5. CASE DecideConstraint /\ pc' = "done"
  <2>1. /\ Searching /\ Level(t) = Len(assumptions) /\ constraint # {}
        /\ IF Falsified(t, constraint) THEN unsatConstraint' = TRUE /\ Return(20) ELSE UNCHANGED pc
    BY <1>5 DEF DecideConstraint
  <2>2. pc = "search" /\ ~unsat /\ ~unsatConstraint
    BY <2>1 DEF Searching
  <2>3. Falsified(t, constraint) /\ unsatConstraint' = TRUE /\ Return(20)
    BY <1>5, <2>1, <2>2
  <2>4. \A l \in constraint : Val(t, l) = -1
    BY <1>0, <2>3, AnswerValues DEF Falsified
  <2>5. /\ pc' = "done" /\ result' = 20
        /\ UNCHANGED <<apiVars, input, db, t, todo, conflict, unsat, failed, assumptions, constraint>>
    BY <2>3 DEF Return, apiVars
  <2>6. /\ \A l \in constraint' : Val(t', l) = -1
        /\ constraint' # {} => Level(t') <= Len(assumptions')
    BY <1>0, <2>1, <2>4, <2>5
  <2>7. ResultInv'
    BY <2>3, <2>5, <2>6 DEF ResultInv
  <2>8. RootDecides(constrained, constraint, TRUE, t) /\ constrained # {}
    BY <1>0, <2>1 DEF RootDecides
  <2> QED
    BY <1>0, <2>2, <2>3, <2>5, <2>7, <2>8, ReturnAnswers
<1> QED
  BY <1>1, <1>2, <1>3, <1>4, <1>5

\* A new level on top keeps those below it.
LEMMA ExtendsLevels ==
  ASSUME NEW n \in Nat, NEW tr, Shape(tr), NEW u, Extends(tr, u), Level(u) = Level(tr) + 1,
         NEW s \in Seq(LitsOf(n)), NEW c, c \subseteq LitsOf(n), NEW C, C \subseteq SUBSET LitsOf(n), NEW f
  PROVE  /\ FirstLevels(s, tr) /\ (Level(tr) < Len(s) =>
              /\ u.control[Level(tr) + 1].decision \in {0} \cup Rng(s)
              /\ Val(u, s[Level(tr) + 1]) = 1 /\ LevelOf(u, s[Level(tr) + 1]) <= Level(tr) + 1)
            => FirstLevels(s, u)
         /\ ChosenLevel(s, c, tr) /\ (c # {} /\ Level(tr) = Len(s) =>
              \E l \in c : Val(u, l) = 1 /\ LevelOf(u, l) <= Level(tr) + 1)
            => ChosenLevel(s, c, u)
         /\ RootDecides(C, c, f, tr) => RootDecides(C, c, f, u)
<1>1. Level(tr) \in Nat /\ Len(s) \in Nat
  BY TrailTypes DEF Shape
<1>2. \A l \in LitsOf(n) : l \in Int
  BY LitFacts
<1>3. \A i \in 1..Len(s) : s[i] \in Int
  BY <1>2
<1>4. \A l \in Int : Val(tr, l) # 0 => Val(u, l) = Val(tr, l) /\ LevelOf(u, l) = LevelOf(tr, l)
  BY DEF Extends
<1>5. \A i \in 1..Level(tr) : u.control[i] = tr.control[i]
  BY DEF Extends
<1>6. ASSUME FirstLevels(s, tr), Level(tr) < Len(s) =>
              /\ u.control[Level(tr) + 1].decision \in {0} \cup Rng(s)
              /\ Val(u, s[Level(tr) + 1]) = 1 /\ LevelOf(u, s[Level(tr) + 1]) <= Level(tr) + 1
      PROVE  FirstLevels(s, u)
  <2> SUFFICES ASSUME NEW i \in 1..Len(s), i <= Level(u)
               PROVE  /\ u.control[i].decision \in {0} \cup Rng(s)
                      /\ Val(u, s[i]) = 1 /\ LevelOf(u, s[i]) <= i
    BY DEF FirstLevels
  <2>1. CASE i = Level(tr) + 1
    <3>1. Level(tr) < Len(s)
      BY <1>1, <2>1
    <3> QED
      BY <1>6, <2>1, <3>1
  <2>2. CASE i # Level(tr) + 1
    <3>1. i \in 1..Level(tr) /\ i <= Level(tr)
      BY <1>1, <2>2
    <3>2. /\ tr.control[i].decision \in {0} \cup Rng(s)
          /\ Val(tr, s[i]) = 1 /\ LevelOf(tr, s[i]) <= i
      BY <1>6, <3>1 DEF FirstLevels
    <3> QED
      BY <1>3, <1>4, <1>5, <3>1, <3>2
  <2> QED
    BY <2>1, <2>2
<1>7. ASSUME ChosenLevel(s, c, tr), c # {} /\ Level(tr) = Len(s) =>
              \E l \in c : Val(u, l) = 1 /\ LevelOf(u, l) <= Level(tr) + 1
      PROVE  ChosenLevel(s, c, u)
  <2> SUFFICES ASSUME c # {}, Level(u) > Len(s)
               PROVE  \E l \in c : Val(u, l) = 1 /\ LevelOf(u, l) <= Len(s) + 1
    BY DEF ChosenLevel
  <2>1. CASE Level(tr) = Len(s)
    BY <1>7, <2>1
  <2>2. CASE Level(tr) # Len(s)
    <3>1. Level(tr) > Len(s)
      BY <1>1, <2>2
    <3>2. PICK l \in c : Val(tr, l) = 1 /\ LevelOf(tr, l) <= Len(s) + 1
      BY <1>7, <3>1 DEF ChosenLevel
    <3> QED
      BY <1>2, <1>4, <3>2
  <2> QED
    BY <2>1, <2>2
<1>8. \A l \in LitsOf(n) : /\ Fixed(tr, l) < 0 => Fixed(u, l) < 0
                           /\ Fixed(tr, l) > 0 => Fixed(u, l) > 0
  <2> SUFFICES ASSUME NEW l \in LitsOf(n), Fixed(tr, l) < 0 \/ Fixed(tr, l) > 0
               PROVE  Fixed(u, l) = Fixed(tr, l)
    OBVIOUS
  <2>1. l \in Int /\ Val(tr, l) # 0 /\ LevelOf(tr, l) = 0
    BY <1>2 DEF Fixed
  <2>2. Val(u, l) = Val(tr, l) /\ LevelOf(u, l) = LevelOf(tr, l)
    BY <1>4, <2>1
  <2> QED
    BY <2>1, <2>2 DEF Fixed
<1>9. ASSUME RootDecides(C, c, f, tr) PROVE RootDecides(C, c, f, u)
  <2> SUFFICES ASSUME NEW d \in C
               PROVE  IF c # {} THEN c \subseteq d /\ \A l \in d \ c : Fixed(u, l) < 0
                      ELSE IF f THEN \A l \in d : Fixed(u, l) < 0
                      ELSE \E l \in d : -l \in d \/ Fixed(u, l) > 0
    BY DEF RootDecides
  <2>1. IF c # {} THEN c \subseteq d /\ \A l \in d \ c : Fixed(tr, l) < 0
        ELSE IF f THEN \A l \in d : Fixed(tr, l) < 0
        ELSE \E l \in d : -l \in d \/ Fixed(tr, l) > 0
    BY <1>9 DEF RootDecides
  <2>2. \A l \in d : /\ Fixed(tr, l) < 0 => Fixed(u, l) < 0
                     /\ Fixed(tr, l) > 0 => Fixed(u, l) > 0
    BY <1>8
  <2> QED
    BY <2>1, <2>2
<1> QED
  BY <1>6, <1>7, <1>9

\* A level of t' that is opened with decision lit, or with none.
Opened(lit) ==
  /\ Extends(t, t') /\ Level(t') = Level(t) + 1 /\ t'.control[Level(t) + 1].decision = lit
  /\ lit # 0 => Val(t', lit) = 1 /\ LevelOf(t', lit) = Level(t) + 1

\* The levels that the search opens.
LEMMA OpenedFacts ==
  ASSUME SearchInv, Searching
  PROVE  /\ t' = NewTrailLevel(t, 0) => Opened(0)
         /\ \A l \in LitsOf(maxVar) : Val(t, l) = 0 /\ t' = AssumeDecision(t, l) => Opened(l)
<1>1. /\ Founded(opts.chrono, maxVar, db, t) /\ maxVar \in Nat
      /\ t.propagated = Len(t.trail) /\ AllWatched(t, db)
  BY SearchingFacts, GraphFacts DEF SearchInv, CoreInv, GraphInv
<1>2. ASSUME t' = NewTrailLevel(t, 0) PROVE Opened(0)
  <2>1. /\ Opens(opts.chrono, maxVar, db, t, NewTrailLevel(t, 0))
        /\ NewTrailLevel(t, 0).control[Level(t) + 1].decision = 0
    BY <1>1, OpensPseudo
  <2>2. /\ Opens(opts.chrono, maxVar, db, t, t') /\ t'.control[Level(t) + 1].decision = 0
    BY <1>2, <2>1, Zenon
  <2> QED
    BY <2>2 DEF Opened, Opens
<1>3. ASSUME NEW l \in LitsOf(maxVar), Val(t, l) = 0, t' = AssumeDecision(t, l) PROVE Opened(l)
  <2>1. Val(t, l) = 0 /\ t' = AssumeDecision(t, l)
    BY <1>3
  <2>2. /\ Opens(opts.chrono, maxVar, db, t, t') /\ t'.control[Level(t) + 1].decision = l
        /\ Val(t', l) = 1 /\ LevelOf(t', l) = Level(t) + 1
    BY ONLY <1>1, <2>1, l \in LitsOf(maxVar), OpensDecision
  <2> QED
    BY <2>2 DEF Opened, Opens
<1> QED
  BY <1>2, <1>3

\* A level is opened, and the search goes on.
LEMMA DecideAnswers ==
  ASSUME AnswerInv, SearchInv', pc = "search", pc' = "search", UNCHANGED <<apiVars, unsatConstraint>>,
         NEW lit, Opened(lit),
         Level(t) < Len(assumptions) =>
           /\ lit \in {0} \cup Rng(assumptions)
           /\ lit = assumptions[Level(t) + 1] \/ Val(t, assumptions[Level(t) + 1]) = 1,
         constraint # {} /\ Level(t) = Len(assumptions) => lit \in constraint \/ Satisfied(t, constraint)
  PROVE  AnswerInv'
<1>0. /\ SearchInv /\ Level(t) \in Nat /\ Len(assumptions) \in Nat /\ Shape(t) /\ maxVar \in Nat
      /\ assumptions \in Seq(LitsOf(maxVar)) /\ constraint \subseteq LitsOf(maxVar)
      /\ constrained \subseteq SUBSET LitsOf(maxVar)
      /\ \A k \in 1..Len(assumptions) : assumptions[k] \in Int
  BY AnswerTypes DEF AnswerInv
<1>1. /\ FirstLevels(assumptions, t) /\ ChosenLevel(assumptions, constraint, t)
      /\ RootDecides(constrained, constraint, unsatConstraint, t)
  BY DEF AnswerInv, LevelsInv, ConstraintInv
<1>2. /\ Extends(t, t') /\ Level(t') = Level(t) + 1 /\ t'.control[Level(t) + 1].decision = lit
      /\ lit # 0 => Val(t', lit) = 1 /\ LevelOf(t', lit) = Level(t) + 1
  BY DEF Opened
<1>3. \A l \in Int : Val(t, l) # 0 =>
        /\ Val(t', l) = Val(t, l) /\ LevelOf(t', l) = LevelOf(t, l)
        /\ LevelOf(t, l) \in Nat /\ LevelOf(t, l) <= Level(t)
  BY <1>0, <1>2, AssignedFacts DEF Extends
<1>4. \A l \in LitsOf(maxVar) : l \in Int /\ l # 0
  BY LitFacts
<1>5. Level(t) < Len(assumptions) =>
        /\ t'.control[Level(t) + 1].decision \in {0} \cup Rng(assumptions)
        /\ Val(t', assumptions[Level(t) + 1]) = 1
        /\ LevelOf(t', assumptions[Level(t) + 1]) <= Level(t) + 1
  <2> SUFFICES ASSUME Level(t) < Len(assumptions)
               PROVE  /\ Val(t', assumptions[Level(t) + 1]) = 1
                      /\ LevelOf(t', assumptions[Level(t) + 1]) <= Level(t) + 1
    BY <1>2
  <2>1. Level(t) + 1 \in 1..Len(assumptions)
    BY <1>0
  <2>2. assumptions[Level(t) + 1] \in LitsOf(maxVar)
    BY <1>0, <2>1
  <2>3. assumptions[Level(t) + 1] \in Int /\ assumptions[Level(t) + 1] # 0
    BY <1>4, <2>2
  <2>4. CASE lit = assumptions[Level(t) + 1]
    BY <1>0, <1>2, <2>3, <2>4
  <2>5. CASE Val(t, assumptions[Level(t) + 1]) = 1
    BY <1>0, <1>3, <2>3, <2>5
  <2> QED
    BY <2>4, <2>5
<1>6. constraint # {} /\ Level(t) = Len(assumptions) =>
        \E l \in constraint : Val(t', l) = 1 /\ LevelOf(t', l) <= Level(t) + 1
  <2> SUFFICES ASSUME constraint # {}, Level(t) = Len(assumptions)
               PROVE  \E l \in constraint : Val(t', l) = 1 /\ LevelOf(t', l) <= Level(t) + 1
    OBVIOUS
  <2>1. CASE lit \in constraint
    <3>1. lit # 0
      BY <1>0, <1>4, <2>1
    <3> QED
      BY <1>0, <1>2, <2>1, <3>1
  <2>2. CASE Satisfied(t, constraint)
    <3>1. PICK l \in constraint : Val(t, l) > 0
      BY <2>2 DEF Satisfied
    <3>2. l \in Int /\ Val(t, l) = 1
      BY <1>0, <3>1, AnswerValues
    <3>3. Val(t', l) = 1 /\ LevelOf(t', l) <= Level(t) + 1
      BY <1>0, <1>3, <3>2
    <3> QED
      BY <3>3
  <2> QED
    BY <2>1, <2>2
<1>7. /\ FirstLevels(assumptions, t') /\ ChosenLevel(assumptions, constraint, t')
      /\ RootDecides(constrained, constraint, unsatConstraint, t')
  BY <1>0, <1>1, <1>2, <1>5, <1>6, ExtendsLevels
<1>8. UNCHANGED <<opts, maxVar, original, assumptions, constrained, constraint>>
  BY DEF apiVars
<1>9. LevelsInv' /\ ConstraintInv'
  BY <1>7, <1>8 DEF LevelsInv, ConstraintInv, AnswerInv
<1> QED
  BY <1>9 DEF AnswerInv, ReadyInv, ResultInv

\* A decision.
LEMMA DecideGoesOn ==
  ASSUME AnswerInv, SearchInv', DecideAssumption \/ DecideConstraint \/ DecideVariable, pc' # "done"
  PROVE  AnswerInv'
<1>0. /\ SearchInv /\ Level(t) \in Nat /\ Len(assumptions) \in Nat /\ maxVar \in Nat
      /\ Rng(assumptions) \subseteq LitsOf(maxVar) /\ constraint \subseteq LitsOf(maxVar)
  BY AnswerTypes DEF AnswerInv
<1>1. CASE DecideAssumption
  <2> DEFINE lit == assumptions[Level(t) + 1]
  <2>1. /\ Searching /\ Level(t) < Len(assumptions) /\ UNCHANGED unsatConstraint
        /\ IF Val(t, lit) < 0 THEN Return(20)
           ELSE /\ t' = IF Val(t, lit) > 0 THEN NewTrailLevel(t, 0) ELSE AssumeDecision(t, lit)
                /\ UNCHANGED <<apiVars, pc>>
    BY <1>1 DEF DecideAssumption
  <2>2. Level(t) + 1 \in 1..Len(assumptions)
    BY <1>0, <2>1
  <2>3. lit \in Rng(assumptions) /\ lit \in LitsOf(maxVar)
    BY <1>0, <2>2, AnswerTypes
  <2>4. ~(Val(t, lit) < 0)
    BY <2>1 DEF Return
  <2>5. Val(t, lit) \in {0, 1}
    BY <1>0, <2>3, <2>4, AnswerValues
  <2>6. pc = "search" /\ pc' = "search" /\ UNCHANGED <<apiVars, unsatConstraint>>
    BY <2>1, <2>4 DEF Searching
  <2> HIDE DEF lit
  <2>7. CASE Val(t, lit) = 1
    <3>1. Opened(0)
      BY <1>0, <2>1, <2>4, <2>7, OpenedFacts
    <3> QED
      BY <2>1, <2>6, <2>7, <3>1, DecideAnswers DEF lit
  <2>8. CASE Val(t, lit) = 0
    <3>1. Opened(lit)
      BY <1>0, <2>1, <2>3, <2>4, <2>8, OpenedFacts
    <3> QED
      BY <2>1, <2>3, <2>6, <3>1, DecideAnswers DEF lit
  <2> QED
    BY <2>5, <2>7, <2>8
<1>2. CASE DecideConstraint
  <2>1. /\ Searching /\ Level(t) = Len(assumptions) /\ constraint # {}
        /\ IF Falsified(t, constraint) THEN Return(20)
           ELSE /\ IF Satisfied(t, constraint) THEN t' = NewTrailLevel(t, 0)
                   ELSE \E l \in Undefined(t, constraint) : t' = AssumeDecision(t, l)
                /\ UNCHANGED <<apiVars, pc, unsatConstraint>>
    BY <1>2 DEF DecideConstraint
  <2>2. ~Falsified(t, constraint)
    BY <2>1 DEF Return
  <2>3. pc = "search" /\ pc' = "search" /\ UNCHANGED <<apiVars, unsatConstraint>>
    BY <2>1, <2>2 DEF Searching
  <2>4. ~(Level(t) < Len(assumptions))
    BY <1>0, <2>1
  <2>5. CASE Satisfied(t, constraint)
    <3>1. Opened(0)
      BY <1>0, <2>1, <2>2, <2>5, OpenedFacts
    <3> QED
      BY <2>3, <2>4, <2>5, <3>1, DecideAnswers
  <2>6. CASE ~Satisfied(t, constraint)
    <3>1. PICK l \in Undefined(t, constraint) : t' = AssumeDecision(t, l)
      BY <2>1, <2>2, <2>6
    <3>2. l \in constraint /\ l \in LitsOf(maxVar) /\ Val(t, l) = 0
      BY <1>0, <3>1 DEF Undefined
    <3>3. Opened(l)
      BY <1>0, <2>1, <3>1, <3>2, OpenedFacts
    <3> QED
      BY <2>3, <2>4, <3>2, <3>3, DecideAnswers
  <2> QED
    BY <2>5, <2>6
<1>3. CASE DecideVariable
  <2>1. /\ Searching /\ Level(t) >= AssumptionLevels /\ UNCHANGED <<apiVars, pc, unsatConstraint>>
    BY <1>3 DEF DecideVariable
  <2>2. PICK l \in Undefined(t, LitsOf(maxVar)) : t' = AssumeDecision(t, l)
    BY <1>3 DEF DecideVariable
  <2>3. l \in LitsOf(maxVar) /\ Val(t, l) = 0
    BY <2>2 DEF Undefined
  <2>4. Opened(l)
    BY <1>0, <2>1, <2>2, <2>3, OpenedFacts
  <2>5. ~(Level(t) < Len(assumptions)) /\ ~(constraint # {} /\ Level(t) = Len(assumptions))
    BY <1>0, <2>1 DEF AssumptionLevels
  <2>6. pc = "search" /\ pc' = "search"
    BY <2>1 DEF Searching
  <2> QED
    BY <2>1, <2>4, <2>5, <2>6, DecideAnswers
<1> QED
  BY <1>1, <1>2, <1>3

\* The search keeps the invariant.
LEMMA SolvingAnswers ==
  ASSUME AnswerInv, Solving
  PROVE  AnswerInv'
<1>1. SearchInv'
  BY SolvingStep DEF AnswerInv
<1>2. DecideVariable => pc' # "done"
  BY DEF DecideVariable, Searching
<1> QED
  BY <1>1, <1>2, SearchGoesOn, ReturnsAnswer, DecideGoesOn DEF Solving

-----------------------------------------------------------------------------
(* The calls of the user.                                                  *)

\* The elements of a sequence with another one.
LEMMA AppendRange ==
  ASSUME NEW U, NEW s \in Seq(U), NEW x
  PROVE  Rng(Append(s, x)) = Rng(s) \cup {x}
<1>1. /\ DOMAIN s = 1..Len(s) /\ DOMAIN Append(s, x) = 1..Len(s) + 1 /\ Len(s) \in Nat
      /\ \A k \in 1..Len(s) : Append(s, x)[k] = s[k]
      /\ Append(s, x)[Len(s) + 1] = x
  OBVIOUS
<1>2. 1..Len(s) + 1 = 1..Len(s) \cup {Len(s) + 1}
  BY <1>1
<1> QED
  BY <1>1, <1>2 DEF Rng

\* The fields of what is left of a round that a call leaves.
LEMMA RoundLeft ==
  ASSUME SearchInv, input # <<>>
  PROVE  /\ input' = [input EXCEPT ![1].assume = Tail(@)] =>
              input' # <<>> /\ input'[1].add = input[1].add
         /\ input' = [input EXCEPT ![1].constrain = {}] =>
              input' # <<>> /\ input'[1].add = input[1].add
<1>1. /\ input[1] \in RoundType /\ DOMAIN input = 1..Len(input) /\ Len(input) \in Nat /\ Len(input) > 0
      /\ input \in Seq(RoundType)
  BY InputTypes DEF SearchInv, ApiTypes
<1>2. 1 \in DOMAIN input
  BY <1>1
<1>3. ASSUME input' = [input EXCEPT ![1].assume = Tail(@)]
      PROVE  input' # <<>> /\ input'[1].add = input[1].add
  <2>1. input' = [input EXCEPT ![1] = [input[1] EXCEPT !.assume = Tail(input[1].assume)]]
    BY <1>3
  <2>2. input'[1] = [input[1] EXCEPT !.assume = Tail(input[1].assume)] /\ DOMAIN input' = DOMAIN input
    BY <1>2, <2>1
  <2>3. input'[1].add = input[1].add
    BY <1>1, <2>2 DEF RoundType
  <2> QED
    BY <1>2, <2>2, <2>3
<1>4. ASSUME input' = [input EXCEPT ![1].constrain = {}]
      PROVE  input' # <<>> /\ input'[1].add = input[1].add
  <2>1. input' = [input EXCEPT ![1] = [input[1] EXCEPT !.constrain = {}]]
    BY <1>4
  <2>2. input'[1] = [input[1] EXCEPT !.constrain = {}] /\ DOMAIN input' = DOMAIN input
    BY <1>2, <2>1
  <2>3. input'[1].add = input[1].add
    BY <1>1, <2>2 DEF RoundType
  <2> QED
    BY <1>2, <2>2, <2>3
<1> QED
  BY <1>3, <1>4

\* The trail after backtracking.
LEMMA BackedOff ==
  ASSUME SearchInv, NEW m \in 0..Level(t), t' = Backtrack(t, m)
  PROVE  Shape(t') /\ KeepsLevels(t, t', m) /\ Level(t') = m /\ Retains(t, t')
<1>1. Shape(t)
  BY GraphFacts DEF SearchInv
<1>2. Shape(Backtrack(t, m)) /\ KeepsLevels(t, Backtrack(t, m), m)
  BY <1>1, BacktrackShape
<1>3. Shape(t') /\ KeepsLevels(t, t', m)
  BY <1>2
<1> QED
  BY <1>3, RetainsBacktrack DEF KeepsLevels

\* The next round forgets the assumptions and the constraint.
LEMMA NextRoundAnswers ==
  ASSUME AnswerInv, SearchInv', NextRound
  PROVE  AnswerInv'
<1>1. /\ pc' = "ready" /\ assumptions' = <<>> /\ constrained' = {} /\ constraint' = {}
      /\ unsatConstraint' = FALSE /\ failed' = {}
  BY DEF NextRound
<1> QED
  BY <1>1 DEF AnswerInv, LevelsInv, ConstraintInv, ReadyInv, ResultInv, RootDecides

\* Marking the failed assumptions leaves the rest.
LEMMA MarkFailedAnswers ==
  ASSUME AnswerInv, SearchInv', MarkFailed
  PROVE  AnswerInv'
<1>1. /\ pc' = "done" /\ pc = "done" /\ result' = result
      /\ UNCHANGED <<t, todo, conflict, unsat, maxVar, unsatConstraint, assumptions, constrained, constraint>>
  BY DEF MarkFailed, apiVars, searchVars
<1>2. Propagated' = Propagated /\ SatisfiedAll' = SatisfiedAll
  BY <1>1 DEF Propagated, SatisfiedAll, AssumptionLevels
<1> QED
  BY <1>1, <1>2 DEF AnswerInv, LevelsInv, ConstraintInv, ReadyInv, ResultInv

\* A clause.
LEMMA AddClauseAnswers ==
  ASSUME AdditionsFirst, AnswerInv, SearchInv', AddClause
  PROVE  AnswerInv'
<1>1. /\ Ready /\ input # <<>> /\ input[1].add # <<>>
      /\ UNCHANGED <<opts, assumptions, constrained, constraint, unsatConstraint, failed, pc>>
  BY DEF AddClause
<1>2. SearchInv /\ pc = "ready" /\ pc' = "ready"
  BY <1>1, ReadyFacts DEF AnswerInv
<1>3. constrained = {} /\ constraint = {} /\ ~unsatConstraint /\ failed = {}
  BY <1>1, <1>2 DEF AnswerInv, ReadyInv, ConstraintInv
<1>4. assumptions # <<>> => MixedCalls /\ Level(t') = 0
  <2> SUFFICES ASSUME assumptions # <<>> PROVE MixedCalls /\ Level(t') = 0
    OBVIOUS
  <2>1. MixedCalls
    BY <1>1, <1>2 DEF AnswerInv, ReadyInv
  <2>2. opts \in Options
    BY <1>2 DEF SearchInv, ApiTypes
  <2>3. ~opts.ilb \/ ~opts.ilbassumptions
    BY <2>1, <2>2 DEF AdditionsFirst
  <2>4. Level(t) \in Nat
    BY <1>2, AnswerTypes
  <2>5. ~opts.ilb \/ Level(t) = 0
    BY <1>2, <2>3, <2>4 DEF AnswerInv, ReadyInv
  <2>6. Level(t') = 0
    BY <1>2, <2>5, AddClauseStep
  <2> QED
    BY <2>1, <2>6
<1>5. LevelsInv' /\ ResultInv'
  BY <1>2 DEF LevelsInv, ResultInv
<1>6. ConstraintInv'
  BY <1>1, <1>3 DEF ConstraintInv, RootDecides
<1>7. ReadyInv'
  <2>1. assumptions' # <<>> /\ Level(t') > 0 => FALSE
    BY <1>1, <1>4
  <2>2. constrained' = {} /\ failed' = {}
    BY <1>1, <1>3
  <2>3. assumptions' # <<>> => MixedCalls
    BY <1>1, <1>4
  <2> QED
    BY <2>1, <2>2, <2>3 DEF ReadyInv
<1> QED
  BY <1>5, <1>6, <1>7 DEF AnswerInv

\* An assumption.
LEMMA AssumeAnswers ==
  ASSUME AnswerInv, SearchInv', Assume
  PROVE  AnswerInv'
<1> DEFINE l == Head(input[1].assume)
<1>1. /\ Ready /\ input # <<>> /\ input[1].assume # <<>> /\ (MixedCalls \/ input[1].add = <<>>)
      /\ t' = IF ~opts.ilbassumptions THEN Backtrack(t, 0)
              ELSE IF Val(t, l) < 0 THEN Backtrack(t, Max({0, LevelOf(t, l) - 1})) ELSE t
      /\ assumptions' = IF l \in Rng(assumptions) THEN assumptions ELSE Append(assumptions, l)
      /\ input' = [input EXCEPT ![1].assume = Tail(@)]
      /\ UNCHANGED <<opts, constrained, constraint, unsatConstraint, failed, pc>>
  BY DEF Assume
<1>2. /\ SearchInv /\ pc = "ready" /\ pc' = "ready" /\ Level(t) \in Nat /\ Shape(t)
      /\ assumptions \in Seq(LitsOf(maxVar)) /\ Rng(assumptions) \subseteq LitsOf(maxVar)
      /\ maxVar \in Nat
  BY <1>1, ReadyFacts, AnswerTypes DEF AnswerInv
<1>3. PICK m \in 0..Level(t) : t' = Backtrack(t, m)
  BY <1>2, AssumeStep
<1>4. Shape(t') /\ KeepsLevels(t, t', m) /\ Level(t') = m /\ Retains(t, t')
  BY <1>2, <1>3, BackedOff
<1>5. l \in LitsOf(MaxVar) /\ l \in Int
  <2>1. input[1].assume \in Seq(LitsOf(MaxVar))
    BY <1>1, <1>2, InputTypes
  <2>2. l \in LitsOf(MaxVar)
    BY <1>1, <2>1
  <2> QED
    BY <2>2, LitFacts
<1>6. Rng(assumptions') \subseteq Rng(assumptions) \cup {l}
  BY <1>1, <1>2, AppendRange
<1>7. input' # <<>> /\ input'[1].add = input[1].add
  BY <1>1, <1>2, RoundLeft
<1> HIDE DEF l
<1>8. LevelsInv' /\ ResultInv'
  BY <1>2 DEF LevelsInv, ResultInv
<1>9. ConstraintInv'
  <2>1. constraint \subseteq LitsOf(maxVar) /\ constrained \subseteq SUBSET LitsOf(maxVar)
    BY <1>2, AnswerTypes
  <2>2. RootDecides(constrained, constraint, unsatConstraint, t')
    BY <1>2, <1>4, <2>1, RetainsLevels DEF AnswerInv, ConstraintInv
  <2> QED
    BY <1>1, <2>2 DEF AnswerInv, ConstraintInv
<1>10. ASSUME Level(t') > 0 PROVE opts.ilbassumptions /\ \A a \in Rng(assumptions') : Val(t', a) # -1
  <2>1. m > 0 /\ Level(t) > 0
    BY <1>2, <1>3, <1>4, <1>10
  <2>2. opts.ilbassumptions
    <3>1. SUFFICES ASSUME ~opts.ilbassumptions PROVE FALSE
      OBVIOUS
    <3>2. t' = Backtrack(t, 0) /\ 0 \in 0..Level(t)
      BY <1>1, <1>2, <3>1
    <3>3. Level(t') = 0
      BY <1>2, <3>2, BackedOff
    <3> QED
      BY <1>10, <3>3
  <2>3. ASSUME NEW a \in Rng(assumptions) PROVE Val(t', a) # -1
    <3>1. a \in Int /\ Val(t, a) # -1
      <4>1. assumptions # <<>>
        BY <2>3 DEF Rng
      <4>2. a \in LitsOf(maxVar)
        BY <1>2, <2>3
      <4> QED
        BY <1>2, <2>1, <2>3, <4>1, <4>2, LitFacts DEF AnswerInv, ReadyInv
    <3> QED
      BY <1>4, <3>1 DEF KeepsLevels, Kept
  <2>4. Val(t', l) # -1
    <3>1. CASE Val(t, l) < 0
      <4>1. LevelOf(t, l) \in Nat /\ LevelOf(t, l) <= Level(t)
        BY <1>2, <1>5, <3>1, AssignedFacts
      <4> DEFINE k == Max({0, LevelOf(t, l) - 1})
      <4>2. k \in 0..LevelOf(t, l)
        BY <4>1, MaxOfZero
      <4>3. t' = Backtrack(t, k)
        BY <1>1, <2>2, <3>1
      <4>4. LevelOf(t, l) > 0 => k = LevelOf(t, l) - 1
        <5> SUFFICES ASSUME LevelOf(t, l) > 0 PROVE k = LevelOf(t, l) - 1
          OBVIOUS
        <5>1. {0, LevelOf(t, l) - 1} \subseteq Nat
          BY <4>1
        <5>2. \A x \in {0, LevelOf(t, l) - 1} : x <= LevelOf(t, l)
          BY <4>1
        <5>3. k \in {0, LevelOf(t, l) - 1} /\ \A x \in {0, LevelOf(t, l) - 1} : x <= k
          BY <4>1, <5>1, <5>2, MaxIsGreatest
        <5> HIDE DEF k
        <5> QED
          BY <4>1, <5>3
      <4> HIDE DEF k
      <4>5. k \in 0..Level(t)
        BY <1>2, <4>1, <4>2
      <4>6. Level(t') = k /\ KeepsLevels(t, t', k)
        BY <1>2, <4>3, <4>5, BackedOff
      <4>7. LevelOf(t, l) > 0
        BY <1>10, <4>1, <4>2, <4>6
      <4>8. ~(LevelOf(t, l) <= k)
        BY <4>1, <4>4, <4>7
      <4> QED
        BY <1>5, <4>6, <4>8 DEF KeepsLevels, Kept
    <3>2. CASE ~(Val(t, l) < 0)
      BY <1>1, <2>2, <3>2
    <3> QED
      BY <3>1, <3>2
  <2> QED
    BY <1>6, <2>2, <2>3, <2>4
<1>11. ReadyInv'
  <2>1. constrained' # {} => Level(t') = 0 /\ input' # <<>> /\ input'[1].add = <<>>
    <3> SUFFICES ASSUME constrained' # {}
                 PROVE  Level(t') = 0 /\ input' # <<>> /\ input'[1].add = <<>>
      OBVIOUS
    <3>1. Level(t) = 0 /\ input[1].add = <<>>
      BY <1>1, <1>2 DEF AnswerInv, ReadyInv
    <3> QED
      BY <1>3, <1>4, <1>7, <3>1
  <2>2. failed' = {}
    BY <1>1, <1>2 DEF AnswerInv, ReadyInv
  <2>3. opts' = opts
    BY <1>1
  <2>4. MixedCalls \/ (input' # <<>> /\ input'[1].add = <<>>)
    BY <1>1, <1>7
  <2> QED
    BY <1>10, <2>1, <2>2, <2>3, <2>4 DEF ReadyInv
<1> QED
  BY <1>8, <1>9, <1>11 DEF AnswerInv

\* A constraint.
LEMMA ConstrainAnswers ==
  ASSUME AnswerInv, SearchInv', Constrain
  PROVE  AnswerInv'
<1> DEFINE c == CHOOSE d \in input[1].constrain : TRUE
           left == {l \in c : Val(t', l) = 0}
           satisfied == \E l \in c : -l \in c \/ Val(t', l) > 0
<1>1. /\ Ready /\ input # <<>> /\ input[1].add = <<>> /\ input[1].constrain # {}
      /\ input' = [input EXCEPT ![1].constrain = {}]
      /\ constrained' = {c} /\ t' = Backtrack(t, 0)
      /\ UNCHANGED <<opts, assumptions, failed, pc>>
  BY DEF Constrain
<1>2. constraint' = (IF satisfied THEN {} ELSE left) /\ unsatConstraint' = (~satisfied /\ left = {})
  BY DEF Constrain
<1>3. SearchInv /\ pc = "ready" /\ pc' = "ready" /\ Level(t) \in Nat
  BY <1>1, ReadyFacts, AnswerTypes DEF AnswerInv
<1>4. c \subseteq LitsOf(MaxVar)
  <2>1. input[1].constrain \subseteq SUBSET LitsOf(MaxVar)
    BY <1>1, <1>3, InputTypes
  <2>2. c \in input[1].constrain
    BY <1>1
  <2> HIDE DEF c
  <2> QED
    BY <2>1, <2>2
<1> HIDE DEF c
<1>5. Shape(t') /\ Level(t') = 0
  BY <1>1, <1>3, BackedOff
<1>6. ASSUME NEW l \in c
      PROVE  /\ Val(t', l) \in {-1, 0, 1}
             /\ Val(t', l) # 0 => Fixed(t', l) = Val(t', l)
  <2>1. l \in Int
    BY <1>4, LitFacts
  <2>2. Val(t', l) \in {-1, 0, 1}
    BY <1>5, <2>1, Values DEF Shape
  <2>3. Val(t', l) # 0 => LevelOf(t', l) \in Nat /\ LevelOf(t', l) <= 0
    BY <1>5, <2>1, AssignedFacts
  <2> QED
    BY <2>2, <2>3 DEF Fixed
<1>7. input' # <<>> /\ input'[1].add = <<>>
  BY <1>1, <1>3, RoundLeft
<1>8. LevelsInv' /\ ResultInv'
  BY <1>3 DEF LevelsInv, ResultInv
<1>9. RootDecides({c}, constraint', unsatConstraint', t')
  <2>1. CASE satisfied
    <3>1. constraint' = {} /\ ~unsatConstraint'
      BY <1>2, <2>1
    <3>2. \E l \in c : -l \in c \/ Fixed(t', l) > 0
      BY <1>6, <2>1
    <3> QED
      BY <3>1, <3>2 DEF RootDecides
  <2>2. CASE ~satisfied
    <3>1. constraint' = left /\ (unsatConstraint' <=> left = {})
      BY <1>2, <2>2
    <3>2. left \subseteq c /\ \A l \in c \ left : Fixed(t', l) < 0
      BY <1>6, <2>2
    <3> HIDE DEF left
    <3> QED
      BY <3>1, <3>2 DEF RootDecides
  <2> QED
    BY <2>1, <2>2
<1>10. ConstraintInv'
  <2>1. constrained' # {}
    BY <1>1
  <2>2. constraint' # {} => ~unsatConstraint'
    BY <1>2
  <2> QED
    BY <1>1, <1>9, <2>1, <2>2 DEF ConstraintInv
<1>11. ReadyInv'
  <2>1. failed' = {}
    BY <1>1, <1>3 DEF AnswerInv, ReadyInv
  <2>2. ~(Level(t') > 0)
    BY <1>5
  <2> QED
    BY <1>5, <1>7, <2>1, <2>2 DEF ReadyInv
<1> QED
  BY <1>8, <1>10, <1>11 DEF AnswerInv

\* A solve that starts on a trail whose first levels are those of the
\* assumptions.
LEMMA SolveStarts ==
  ASSUME AnswerInv, SearchInv', pc = "ready", pc' = "search",
         UNCHANGED <<maxVar, constrained, constraint, unsatConstraint>>,
         NEW m \in 0..Level(t), t' = Backtrack(t, m),
         FirstLevels(assumptions', t')
  PROVE  AnswerInv'
<1>1. SearchInv /\ Shape(t) /\ Level(t) \in Nat /\ maxVar \in Nat
      /\ assumptions \in Seq(LitsOf(maxVar))
      /\ constraint \subseteq LitsOf(maxVar) /\ constrained \subseteq SUBSET LitsOf(maxVar)
  BY AnswerTypes DEF AnswerInv
<1>2. Shape(t') /\ Level(t') = m /\ Retains(t, t')
  BY <1>1, BackedOff
<1>3. RootDecides(constrained, constraint, unsatConstraint, t')
  BY <1>1, <1>2, RetainsLevels DEF AnswerInv, ConstraintInv
<1>4. ChosenLevel(assumptions', constraint', t')
  <2>1. constraint # {} => constrained # {}
    BY DEF AnswerInv, ConstraintInv
  <2>2. constrained # {} => Level(t) = 0
    BY DEF AnswerInv, ReadyInv
  <2>3. assumptions' \in Seq(LitsOf(maxVar'))
    BY DEF SearchInv, ApiTypes
  <2>4. Len(assumptions') \in Nat
    BY <2>3
  <2>5. constraint' # {} => ~(Level(t') > Len(assumptions'))
    BY <1>1, <1>2, <2>1, <2>2, <2>4
  <2> QED
    BY <2>5 DEF ChosenLevel
<1>5. ConstraintInv'
  BY <1>3 DEF AnswerInv, ConstraintInv
<1>6. LevelsInv'
  BY <1>4 DEF LevelsInv
<1>7. ReadyInv' /\ ResultInv'
  BY DEF ReadyInv, ResultInv
<1> QED
  BY <1>5, <1>6, <1>7 DEF AnswerInv

-----------------------------------------------------------------------------
(* Reusing the trail.                                                      *)

\* The highest level that may be reused is that of an assumption, at most.
LEMMA ReuseTopFacts ==
  ASSUME SearchInv, NEW s \in Seq(LitsOf(maxVar))
  PROVE  /\ ReuseTop(s) \in Nat /\ ReuseTop(s) <= Level(t)
         /\ ReuseTop(s) > 0 => \E x \in DOMAIN s :
              Val(t, s[x]) # 0 /\ LevelOf(t, s[x]) >= ReuseTop(s)
<1> DEFINE levels == {LevelOf(t, s[k]) : k \in {j \in DOMAIN s : Val(t, s[j]) # 0}}
           highest == Max({0} \cup levels)
<1>1. Shape(t) /\ Level(t) \in Nat
  BY AnswerTypes
<1>2. \A k \in DOMAIN s : s[k] \in Int
  BY LitFacts
<1>3. \A x \in levels : x \in Nat /\ x <= Level(t)
  BY <1>1, <1>2, AssignedFacts
<1> HIDE DEF levels
<1>4. {0} \cup levels \subseteq Nat /\ {0} \cup levels # {} /\ \A x \in {0} \cup levels : x <= Level(t)
  BY <1>1, <1>3
<1>5. highest \in {0} \cup levels
  BY <1>1, <1>4, MaxIsGreatest
<1>6. highest \in Nat
  BY <1>4, <1>5
<1>7. ReuseTop(s) = Min({Level(t), highest})
  BY DEF ReuseTop, levels
<1> HIDE DEF highest
<1>8. ReuseTop(s) = IF Level(t) <= highest THEN Level(t) ELSE highest
  BY <1>1, <1>6, <1>7, MinOfTwo
<1>9. ReuseTop(s) \in Nat /\ ReuseTop(s) <= Level(t) /\ ReuseTop(s) <= highest
  BY <1>1, <1>6, <1>8
<1>10. ASSUME ReuseTop(s) > 0
       PROVE  \E x \in DOMAIN s : Val(t, s[x]) # 0 /\ LevelOf(t, s[x]) >= ReuseTop(s)
  <2>1. highest \in levels
    BY <1>5, <1>6, <1>9, <1>10
  <2>2. PICK x \in DOMAIN s : Val(t, s[x]) # 0 /\ highest = LevelOf(t, s[x])
    BY <2>1 DEF levels
  <2> QED
    BY <1>6, <1>9, <2>2
<1> QED
  BY <1>9, <1>10

\* The literal that a level decides is true on that level.
LEMMA DecisionIsTrue ==
  ASSUME NEW tr, Shape(tr), NEW i \in 1..Level(tr), tr.control[i].decision # 0
  PROVE  /\ Val(tr, tr.control[i].decision) = 1
         /\ LevelOf(tr, tr.control[i].decision) = i
<1> DEFINE k == tr.control[i].trail + 1
<1>1. tr \in Trails /\ Distinct(tr) /\ Level(tr) \in Nat /\ Len(tr.trail) \in Nat
      /\ tr.control[i].trail \in Nat
  BY TrailTypes DEF Shape
<1>2. /\ tr.control[i].trail < Len(tr.trail)
      /\ tr.trail[k] = [lit |-> tr.control[i].decision, level |-> i, reason |-> NoReason]
  BY DEF Shape, Heights
<1>3. k \in Positions(tr)
  BY <1>1, <1>2 DEF Positions
<1>4. tr.trail[k].lit = tr.control[i].decision /\ tr.trail[k].level = i
  BY <1>2
<1> HIDE DEF k
<1> QED
  BY <1>1, <1>3, <1>4, AtPosition

\* What the reuse of the trail for assumptions s has found after n steps: the
\* levels below a.i decide assumptions, those below a.j are true there, and
\* it has come as far as it says or goes on to the next assumption.
Reused(s, n, a) ==
  /\ IsReuse(a) /\ a.i <= ReuseTop(s) + 1 /\ a.i <= a.j
  /\ \A x \in 1..a.j - 1 :
       /\ x \in DOMAIN s /\ Val(t, s[x]) = 1
       /\ LevelOf(t, s[x]) <= a.i - 1 /\ LevelOf(t, s[x]) <= x
  /\ \A k \in 1..a.i - 1 : t.control[k].decision \in Rng(s)
  /\ IF a.stop \/ a.i > ReuseTop(s) THEN a.target = a.i - 1 ELSE a.j > n

\* While it goes on there is a next assumption.
LEMMA NextAssumption ==
  ASSUME SearchInv, NEW s \in Seq(LitsOf(maxVar)), NEW n \in Nat, NEW a, Reused(s, n, a),
         a.i <= ReuseTop(s)
  PROVE  a.j \in DOMAIN s
<1>1. ReuseTop(s) \in Nat /\ ReuseTop(s) > 0 /\ a.i \in Nat /\ a.j \in Nat /\ a.i > 0 /\ a.j > 0
  BY ReuseTopFacts DEF Reused, IsReuse
<1>2. PICK x \in DOMAIN s : Val(t, s[x]) # 0 /\ LevelOf(t, s[x]) >= ReuseTop(s)
  BY <1>1, ReuseTopFacts
<1>3. x \in Nat /\ x >= 1 /\ x <= Len(s) /\ Len(s) \in Nat /\ DOMAIN s = 1..Len(s)
  OBVIOUS
<1>4. LevelOf(t, s[x]) \in Nat
  <2>1. s[x] \in LitsOf(maxVar)
    OBVIOUS
  <2>2. s[x] \in Int /\ Shape(t)
    BY <2>1, LitFacts, AnswerTypes
  <2> QED
    BY <1>2, <2>2, AssignedFacts
<1>5. ~(x <= a.j - 1)
  <2> SUFFICES ASSUME x <= a.j - 1 PROVE FALSE
    OBVIOUS
  <2>1. LevelOf(t, s[x]) <= a.i - 1
    BY <1>1, <1>3 DEF Reused
  <2> QED
    BY <1>1, <1>2, <1>4, <2>1
<1> QED
  BY <1>1, <1>3, <1>5

\* A step of it.
LEMMA ReusedStep ==
  ASSUME SearchInv, NEW s \in Seq(LitsOf(maxVar)), \A x \in DOMAIN s : Val(t, s[x]) # -1,
         NEW n \in Nat, NEW a, Reused(s, n, a)
  PROVE  Reused(s, n + 1, ReuseStep(s, a))
<1> DEFINE b == ReuseStep(s, a)
<1> SUFFICES Reused(s, n + 1, b)
  OBVIOUS
<1>1. /\ ReuseTop(s) \in Nat /\ ReuseTop(s) <= Level(t) /\ Level(t) \in Nat /\ Shape(t)
  BY ReuseTopFacts, AnswerTypes
<1>2. IsReuse(a) /\ a.i \in Nat /\ a.j \in Nat /\ a.i > 0 /\ a.j > 0 /\ a.stop \in BOOLEAN /\ a.target \in Nat
  BY DEF Reused, IsReuse
<1>3. IsReuse(b)
  BY <1>2, ReuseTypes
<1>4. /\ a.i <= ReuseTop(s) + 1 /\ a.i <= a.j
      /\ \A x \in 1..a.j - 1 :
           /\ x \in DOMAIN s /\ Val(t, s[x]) = 1
           /\ LevelOf(t, s[x]) <= a.i - 1 /\ LevelOf(t, s[x]) <= x
      /\ \A k \in 1..a.i - 1 : t.control[k].decision \in Rng(s)
      /\ IF a.stop \/ a.i > ReuseTop(s) THEN a.target = a.i - 1 ELSE a.j > n
  BY DEF Reused
<1> DEFINE i == a.i
           j == a.j
           lit == t.control[i].decision
           Skip == Val(t, s[j]) # 0 /\ LevelOf(t, s[j]) < i
           Take == lit # 0 /\ lit = s[j]
<1>5. CASE a.stop \/ i > ReuseTop(s)
  <2>1. b = a
    BY <1>5 DEF ReuseStep
  <2> HIDE DEF b
  <2> QED
    BY <1>2, <1>4, <1>5, <2>1 DEF Reused
<1>6. CASE ~(a.stop \/ i > ReuseTop(s))
  <2>1. j \in DOMAIN s /\ i <= ReuseTop(s) /\ j > n /\ ~a.stop
    BY <1>1, <1>2, <1>4, <1>6, NextAssumption
  <2>2. s[j] \in Int /\ Val(t, s[j]) \in {-1, 0, 1} /\ Val(t, s[j]) # -1 /\ s[j] \in Rng(s)
    <3>1. s[j] \in LitsOf(maxVar)
      BY <2>1
    <3> QED
      BY <2>1, <3>1, AnswerValues DEF Rng
  <2>3. a = [i |-> a.i, j |-> a.j, target |-> a.target, stop |-> a.stop]
    BY <1>2 DEF IsReuse
  <2>4. CASE Skip
    <3>1. b = [a EXCEPT !.j = a.j + 1, !.target = a.i]
      BY <1>6, <2>4 DEF ReuseStep
    <3>2. b = [i |-> a.i, j |-> a.j + 1, target |-> a.i, stop |-> a.stop]
      BY <2>3, <3>1, ReuseFields
    <3>3. b.i = i /\ b.j = j + 1 /\ b.target = i /\ b.stop = a.stop
      BY <3>2
    <3>4. LevelOf(t, s[j]) \in Nat /\ LevelOf(t, s[j]) < i /\ Val(t, s[j]) = 1
      BY <1>1, <2>2, <2>4, AssignedFacts
    <3>5. \A x \in 1..b.j - 1 : x \in 1..j - 1 \/ x = j
      BY <1>2, <3>3
    <3> HIDE DEF b
    <3>6. \A x \in 1..b.j - 1 : /\ x \in DOMAIN s /\ Val(t, s[x]) = 1
                                /\ LevelOf(t, s[x]) <= b.i - 1 /\ LevelOf(t, s[x]) <= x
      BY <1>2, <1>4, <2>1, <3>3, <3>4, <3>5
    <3>7. b.i <= ReuseTop(s) + 1 /\ b.i <= b.j /\ \A k \in 1..b.i - 1 : t.control[k].decision \in Rng(s)
      BY <1>2, <1>4, <3>3
    <3>8. ~(b.stop \/ b.i > ReuseTop(s)) /\ b.j > n + 1
      BY <1>1, <1>2, <2>1, <3>3
    <3> QED
      BY <1>3, <3>6, <3>7, <3>8 DEF Reused
  <2>5. CASE ~Skip /\ Take
    <3>1. b = [a EXCEPT !.i = a.i + 1, !.j = a.j + 1, !.target = a.i]
      BY <1>6, <2>5 DEF ReuseStep
    <3>2. b = [i |-> a.i + 1, j |-> a.j + 1, target |-> a.i, stop |-> a.stop]
      BY <2>3, <3>1, ReuseFields
    <3>3. b.i = i + 1 /\ b.j = j + 1 /\ b.target = i /\ b.stop = a.stop
      BY <3>2
    <3>4. LevelOf(t, s[j]) = i /\ Val(t, s[j]) = 1
      <4>1. i \in 1..Level(t) /\ lit # 0 /\ lit = s[j]
        BY <1>1, <1>2, <2>1, <2>5
      <4>2. Val(t, lit) = 1 /\ LevelOf(t, lit) = i
        BY <1>1, <4>1, DecisionIsTrue
      <4> QED
        BY <4>1, <4>2
    <3>5. \A x \in 1..b.j - 1 : x \in 1..j - 1 \/ x = j
      BY <1>2, <3>3
    <3>6. \A k \in 1..b.i - 1 : k \in 1..i - 1 \/ k = i
      BY <1>2, <3>3
    <3>7. t.control[i].decision \in Rng(s)
      BY <2>2, <2>5
    <3>8. \A x \in 1..j - 1 : LevelOf(t, s[x]) <= i
      <4> SUFFICES ASSUME NEW x \in 1..j - 1 PROVE LevelOf(t, s[x]) <= i
        OBVIOUS
      <4>1. x \in DOMAIN s /\ Val(t, s[x]) = 1 /\ LevelOf(t, s[x]) <= i - 1
        BY <1>4
      <4>2. s[x] \in Int
        BY <4>1, LitFacts
      <4>3. LevelOf(t, s[x]) \in Nat
        BY <1>1, <4>1, <4>2, AssignedFacts
      <4> QED
        BY <1>2, <4>1, <4>3
    <3> HIDE DEF b
    <3>9. \A x \in 1..b.j - 1 : /\ x \in DOMAIN s /\ Val(t, s[x]) = 1
                                /\ LevelOf(t, s[x]) <= b.i - 1 /\ LevelOf(t, s[x]) <= x
      BY <1>2, <1>4, <2>1, <3>3, <3>4, <3>5, <3>8
    <3>10. b.i <= ReuseTop(s) + 1 /\ b.i <= b.j /\ \A k \in 1..b.i - 1 : t.control[k].decision \in Rng(s)
      <4>1. b.i <= ReuseTop(s) + 1 /\ b.i <= b.j
        BY <1>1, <1>2, <1>4, <2>1, <3>3
      <4>2. \A k \in 1..b.i - 1 : t.control[k].decision \in Rng(s)
        BY <1>4, <3>6, <3>7
      <4> QED
        BY <4>1, <4>2
    <3>11. IF b.stop \/ b.i > ReuseTop(s) THEN b.target = b.i - 1 ELSE b.j > n + 1
      BY <1>1, <1>2, <2>1, <3>3
    <3> QED
      BY <1>3, <3>9, <3>10, <3>11 DEF Reused
  <2>6. CASE ~Skip /\ ~Take
    <3>1. b = [a EXCEPT !.target = a.i - 1, !.stop = TRUE]
      BY <1>6, <2>6 DEF ReuseStep
    <3>2. b = [i |-> a.i, j |-> a.j, target |-> a.i - 1, stop |-> TRUE]
      BY <2>3, <3>1, ReuseFields
    <3>3. b.i = i /\ b.j = j /\ b.target = i - 1 /\ b.stop = TRUE
      BY <3>2
    <3> HIDE DEF b
    <3> QED
      BY <1>3, <1>4, <3>3 DEF Reused
  <2> QED
    BY <2>4, <2>5, <2>6
<1> QED
  BY <1>5, <1>6

\* Where the reuse of the trail ends.
LEMMA ReuseEnds ==
  ASSUME SearchInv, NEW s \in Seq(LitsOf(maxVar)), \A x \in DOMAIN s : Val(t, s[x]) # -1
  PROVE  /\ ReuseAssumptions(s) \in 0..Level(t)
         /\ \A x \in 1..ReuseAssumptions(s) :
              /\ x \in DOMAIN s /\ Val(t, s[x]) = 1
              /\ LevelOf(t, s[x]) <= ReuseAssumptions(s) /\ LevelOf(t, s[x]) <= x
              /\ t.control[x].decision \in Rng(s)
<1>1. /\ Level(t) \in Nat /\ Len(s) \in Nat /\ DOMAIN s = 1..Len(s)
      /\ ReuseTop(s) \in Nat /\ ReuseTop(s) <= Level(t)
  BY AnswerTypes, ReuseTopFacts
<1> DEFINE N == Level(t) + Len(s)
<1>2. PICK after : /\ after[0] = ReuseStart
                   /\ \A m \in 1..N : after[m] = ReuseStep(s, after[m - 1])
                   /\ ReuseAssumptions(s) = after[N].target
  <2>1. N \in Nat
    BY <1>1
  <2> QED
    BY <2>1, ReuseUnfolds
<1>3. \A n \in Nat : n <= N => Reused(s, n, after[n])
  <2> DEFINE R == {n \in Nat : n <= N => Reused(s, n, after[n])}
  <2>1. 0 \in R
    <3>1. /\ ReuseStart.i = 1 /\ ReuseStart.j = 1 /\ ReuseStart.target = 0 /\ ReuseStart.stop = FALSE
          /\ IsReuse(ReuseStart)
      BY ReuseTypes DEF ReuseStart
    <3>2. Reused(s, 0, ReuseStart)
      BY <1>1, <3>1 DEF Reused
    <3> QED
      BY <1>2, <3>2
  <2>2. ASSUME NEW n \in Nat, n \in R PROVE n + 1 \in R
    <3> SUFFICES ASSUME n + 1 <= N PROVE Reused(s, n + 1, after[n + 1])
      OBVIOUS
    <3>1. n <= N /\ n + 1 \in 1..N /\ (n + 1) - 1 = n
      BY <1>1
    <3>2. Reused(s, n, after[n])
      BY <2>2, <3>1
    <3>3. after[n + 1] = ReuseStep(s, after[n])
      BY <1>2, <3>1
    <3> QED
      BY <3>2, <3>3, ReusedStep
  <2> HIDE DEF R
  <2>3. \A n \in Nat : n \in R
    BY <2>1, <2>2, NatSetInduction
  <2> QED
    BY <2>3 DEF R
<1> DEFINE a == after[N]
           T == ReuseAssumptions(s)
<1>4. N \in Nat /\ Reused(s, N, a) /\ T = a.target
  BY <1>1, <1>2, <1>3
<1> HIDE DEF a, T
<1>5. /\ IsReuse(a) /\ a.i <= ReuseTop(s) + 1 /\ a.i <= a.j
      /\ \A x \in 1..a.j - 1 :
           /\ x \in DOMAIN s /\ Val(t, s[x]) = 1
           /\ LevelOf(t, s[x]) <= a.i - 1 /\ LevelOf(t, s[x]) <= x
      /\ \A k \in 1..a.i - 1 : t.control[k].decision \in Rng(s)
      /\ IF a.stop \/ a.i > ReuseTop(s) THEN a.target = a.i - 1 ELSE a.j > N
  BY <1>4 DEF Reused
<1>6. a.i \in Nat /\ a.j \in Nat /\ a.i > 0 /\ a.j > 0
  BY <1>5 DEF IsReuse
<1>7. T = a.i - 1
  <2> SUFFICES ASSUME ~(a.stop \/ a.i > ReuseTop(s)) PROVE FALSE
    BY <1>4, <1>5
  <2>1. a.i <= ReuseTop(s)
    BY <1>1, <1>6
  <2>2. a.j \in DOMAIN s
    BY <1>4, <2>1, NextAssumption
  <2>3. a.j > Level(t) + Len(s)
    BY <1>5
  <2>4. Level(t) > 0
    BY <1>1, <1>6, <2>1
  <2> QED
    BY <1>1, <1>6, <2>2, <2>3, <2>4
<1>8. T \in Nat /\ T <= Level(t) /\ T <= a.j - 1
  BY <1>1, <1>5, <1>6, <1>7
<1>9. ASSUME NEW x \in 1..T
      PROVE  /\ x \in DOMAIN s /\ Val(t, s[x]) = 1
             /\ LevelOf(t, s[x]) <= T /\ LevelOf(t, s[x]) <= x
             /\ t.control[x].decision \in Rng(s)
  <2>1. x \in 1..a.j - 1 /\ x \in 1..a.i - 1
    BY <1>6, <1>7, <1>8
  <2> QED
    BY <1>5, <1>7, <2>1
<1> QED
  BY <1>1, <1>8, <1>9 DEF T

\* The levels of a trail that is reused decide the assumptions.
LEMMA ReusedLevels ==
  ASSUME SearchInv, NEW s \in Seq(LitsOf(maxVar)), \A x \in DOMAIN s : Val(t, s[x]) # -1,
         NEW u, u = Backtrack(t, Min({Level(t), ReuseAssumptions(s)}))
  PROVE  FirstLevels(s, u)
<1> DEFINE T == ReuseAssumptions(s)
<1>1. /\ T \in 0..Level(t) /\ Level(t) \in Nat /\ Shape(t) /\ Len(s) \in Nat /\ DOMAIN s = 1..Len(s)
      /\ \A x \in 1..T :
           /\ x \in DOMAIN s /\ Val(t, s[x]) = 1
           /\ LevelOf(t, s[x]) <= T /\ LevelOf(t, s[x]) <= x
           /\ t.control[x].decision \in Rng(s)
  BY ReuseEnds, AnswerTypes
<1> HIDE DEF T
<1>2. Min({Level(t), T}) = T
  <2>1. T \in Nat
    BY <1>1
  <2> QED
    BY <1>1, <2>1, MinOfTwo
<1>3. u = Backtrack(t, T)
  BY <1>2 DEF T
<1>4. KeepsLevels(t, Backtrack(t, T), T)
  BY <1>1, BacktrackShape
<1>5. KeepsLevels(t, u, T)
  BY <1>3, <1>4
<1>6. Level(u) = T /\ Retains(t, u)
  BY <1>5, RetainsBacktrack DEF KeepsLevels
<1> SUFFICES ASSUME NEW x \in 1..Len(s), x <= Level(u)
             PROVE  /\ u.control[x].decision \in {0} \cup Rng(s)
                    /\ Val(u, s[x]) = 1 /\ LevelOf(u, s[x]) <= x
  BY DEF FirstLevels
<1>7. x \in 1..T
  BY <1>1, <1>6
<1>8. s[x] \in Int
  <2>1. s[x] \in LitsOf(maxVar)
    BY <1>1, <1>7
  <2> QED
    BY <2>1, LitFacts
<1>9. /\ Val(t, s[x]) = 1 /\ LevelOf(t, s[x]) <= T /\ LevelOf(t, s[x]) <= x
      /\ t.control[x].decision \in Rng(s)
  BY <1>1, <1>7
<1>10. u.control[x].decision = t.control[x].decision
  BY <1>6, <1>7 DEF Retains
<1>11. Val(u, s[x]) = 1 /\ LevelOf(u, s[x]) = LevelOf(t, s[x])
  <2>1. Val(t, s[x]) # 0 /\ LevelOf(t, s[x]) <= Level(u)
    BY <1>6, <1>9
  <2>2. Val(u, s[x]) = Val(t, s[x]) /\ LevelOf(u, s[x]) = LevelOf(t, s[x])
    BY <1>6, <1>8, <2>1 DEF Retains
  <2> QED
    BY <1>9, <2>2
<1> QED
  BY <1>9, <1>10, <1>11

\* solve () starts.
LEMMA SolveAnswers ==
  ASSUME AnswerInv, SearchInv', Solve
  PROVE  AnswerInv'
<1>1. /\ Ready /\ pc' = "search" /\ UNCHANGED <<maxVar, constrained, constraint, unsatConstraint>>
      /\ IF opts.ilb /\ opts.ilbassumptions /\ assumptions # <<>>
         THEN \E s \in SortedAssumptions :
                /\ assumptions' = s
                /\ t' = Backtrack(t, Min({Level(t), ReuseAssumptions(s)}))
         ELSE /\ t' = IF opts.ilb THEN t ELSE Backtrack(t, 0)
              /\ UNCHANGED assumptions
  BY DEF Solve
<1>2. SearchInv /\ pc = "ready" /\ Level(t) \in Nat /\ Shape(t)
  BY <1>1, ReadyFacts, AnswerTypes DEF AnswerInv
<1>3. PICK m \in 0..Level(t) : t' = Backtrack(t, m)
  BY <1>2, SolveStep
<1>4. Level(t') = m
  BY <1>2, <1>3, BackedOff
<1>5. assumptions' \in Seq(LitsOf(maxVar)) /\ Len(assumptions') \in Nat
  <2>1. assumptions' \in Seq(LitsOf(maxVar'))
    BY DEF SearchInv, ApiTypes
  <2> QED
    BY <1>1, <2>1
<1>6. ASSUME assumptions' = <<>> \/ Level(t') = 0 PROVE FirstLevels(assumptions', t')
  BY <1>4, <1>5, <1>6 DEF FirstLevels
<1>7. ASSUME assumptions' # <<>>, Level(t') > 0 PROVE FirstLevels(assumptions', t')
  <2>1. CASE opts.ilb /\ opts.ilbassumptions /\ assumptions # <<>>
    <3>1. PICK s \in SortedAssumptions :
            assumptions' = s /\ t' = Backtrack(t, Min({Level(t), ReuseAssumptions(s)}))
      BY <1>1, <2>1
    <3>2. Level(t) > 0
      BY <1>2, <1>3, <1>4, <1>7
    <3>3. \A a \in Rng(assumptions) : Val(t, a) # -1
      BY <1>2, <2>1, <3>2 DEF AnswerInv, ReadyInv
    <3>4. \A x \in DOMAIN s : Val(t, s[x]) # -1
      <4>1. Rng(s) = Rng(assumptions)
        BY <3>1 DEF SortedAssumptions
      <4> QED
        BY <3>3, <4>1 DEF Rng
    <3>5. s \in Seq(LitsOf(maxVar))
      BY <1>5, <3>1
    <3>6. FirstLevels(s, t')
      BY <1>2, <3>1, <3>4, <3>5, ReusedLevels
    <3> QED
      BY <3>1, <3>6
  <2>2. CASE ~(opts.ilb /\ opts.ilbassumptions /\ assumptions # <<>>)
    <3>1. assumptions' = assumptions /\ t' = IF opts.ilb THEN t ELSE Backtrack(t, 0)
      BY <1>1, <2>2
    <3>2. CASE opts.ilb
      <4>1. t' = t /\ ~opts.ilbassumptions
        BY <1>7, <2>2, <3>1, <3>2
      <4>2. assumptions # <<>> /\ Level(t) > 0
        BY <1>7, <3>1, <4>1
      <4> QED
        BY <1>2, <4>1, <4>2 DEF AnswerInv, ReadyInv
    <3>3. CASE ~opts.ilb
      <4>1. t' = Backtrack(t, 0) /\ 0 \in 0..Level(t)
        BY <1>2, <3>1, <3>3
      <4>2. Level(t') = 0
        BY <1>2, <4>1, BackedOff
      <4> QED
        BY <1>7, <4>2
    <3> QED
      BY <3>2, <3>3
  <2> QED
    BY <2>1, <2>2
<1>8. FirstLevels(assumptions', t')
  BY <1>2, <1>3, <1>4, <1>6, <1>7
<1> QED
  BY <1>1, <1>2, <1>3, <1>8, SolveStarts

\* The invariant is inductive.
LEMMA AnswerInvStep ==
  ASSUME AdditionsFirst, AnswerInv, [Next]_vars
  PROVE  AnswerInv'
<1>1. SearchInv'
  BY SearchInvStep DEF AnswerInv
<1>2. CASE Solving
  BY <1>2, SolvingAnswers
<1>3. CASE User
  BY <1>1, <1>3, NextRoundAnswers, AddClauseAnswers, AssumeAnswers, ConstrainAnswers, SolveAnswers,
     MarkFailedAnswers DEF User
<1>4. CASE UNCHANGED vars
  <2>1. UNCHANGED <<opts, input, maxVar, t, todo, conflict, unsat, assumptions, constrained, constraint,
                    unsatConstraint, failed, pc, result>>
    BY <1>4 DEF vars, apiVars, searchVars
  <2>2. Propagated' = Propagated /\ SatisfiedAll' = SatisfiedAll
    BY <2>1 DEF Propagated, SatisfiedAll, AssumptionLevels
  <2> QED
    BY <1>1, <2>1, <2>2 DEF AnswerInv, LevelsInv, ConstraintInv, ReadyInv, ResultInv
<1> QED
  BY <1>2, <1>3, <1>4 DEF Next

\* Once a solve has started the first levels of the trail decide its
\* assumptions and the next one its constraint; between the calls no assumption
\* is false whose level may be kept; and a solve that returns leaves a trail
\* that is full, or falsifies the constraint, or the next assumption.
THEOREM AnswerInvariant ==
  ASSUME AdditionsFirst
  PROVE  Spec => []AnswerInv
<1>1. Init => AnswerInv
  BY AnswerInvInit
<1>2. AnswerInv /\ [Next]_vars => AnswerInv'
  BY AnswerInvStep
<1> QED
  BY <1>1, <1>2, PTL DEF Spec

-----------------------------------------------------------------------------
(* What follows from the decisions.                                        *)

\* A set of literals with the literals that imply its true ones.
Closed(d, tr, Y) ==
  \A k \in Positions(tr) : tr.trail[k].lit \in Y /\ tr.trail[k].reason # NoReason =>
    \A l \in d[tr.trail[k].reason].lits \ {tr.trail[k].lit} : -l \in Y

\* The decisions in it.
DecidedIn(tr, Y) ==
  {tr.trail[k].lit : k \in {j \in Positions(tr) :
     tr.trail[j].lit \in Y /\ tr.trail[j].level > 0 /\ tr.trail[j].reason = NoReason}}

\* An assignment that satisfies the clauses and the units, and the decisions of
\* a closed set, satisfies all of the trail that is in it.
LEMMA ClosedFollows ==
  ASSUME NEW n \in Nat, NEW d, IsDatabase(n, d), NEW tr, Shape(tr), Graph(d, tr), Over(n, tr),
         NEW Y, Closed(d, tr, Y),
         NEW T, Good(T, tr, d), \A l \in DecidedIn(tr, Y) : SatLit(T, l)
  PROVE  \A k \in Positions(tr) : tr.trail[k].lit \in Y => SatLit(T, tr.trail[k].lit)
<1> DEFINE S == {m \in Nat : \A k \in Positions(tr) :
                   k <= m /\ tr.trail[k].lit \in Y => SatLit(T, tr.trail[k].lit)}
<1>1. Positions(tr) \subseteq Nat /\ \A k \in Positions(tr) : k >= 1
  BY TrailTypes DEF Shape, Positions
<1>2. 0 \in S
  BY <1>1
<1>3. ASSUME NEW m \in Nat, m \in S PROVE m + 1 \in S
  <2> SUFFICES ASSUME NEW k \in Positions(tr), k <= m + 1, tr.trail[k].lit \in Y
               PROVE  SatLit(T, tr.trail[k].lit)
    OBVIOUS
  <2>1. \A j \in Positions(tr) : j <= m /\ tr.trail[j].lit \in Y => SatLit(T, tr.trail[j].lit)
    BY <1>3
  <2> HIDE DEF S
  <2>2. tr.trail[k].level \in Nat /\ tr.trail[k].lit \in LitsOf(n)
    BY TrailTypes DEF Shape, Over
  <2>3. CASE tr.trail[k].reason = NoReason
    <3>1. CASE tr.trail[k].level = 0
      BY <3>1 DEF Good, RootHolds
    <3>2. CASE tr.trail[k].level # 0
      BY <2>2, <2>3, <3>2 DEF DecidedIn
    <3> QED
      BY <3>1, <3>2
  <2>4. CASE tr.trail[k].reason # NoReason
    <3> DEFINE e == tr.trail[k]
               c == d[e.reason].lits
    <3>1. /\ e.reason \in DOMAIN d /\ e.lit \in c
          /\ \A l \in c \ {e.lit} : Val(tr, l) = -1 /\ Pos(tr, l) < k
      BY <2>4 DEF Graph, Reasoned
    <3>2. SatClause(T, c)
      BY <3>1 DEF Good, AllHold
    <3>3. c \subseteq LitsOf(n)
      BY <3>1, ClauseTypes
    <3>4. \A l \in c \ {e.lit} : -l \in Y
      BY <2>4 DEF Closed
    <3> HIDE DEF c
    <3>5. ASSUME NEW l \in c \ {e.lit} PROVE ~SatLit(T, l)
      <4>1. l \in LitsOf(n) /\ l \in Int /\ Val(tr, l) = -1 /\ Pos(tr, l) < k
        BY <3>1, <3>3, LitFacts
      <4>2. Pos(tr, l) \in Positions(tr) /\ tr.trail[Pos(tr, l)].lit = -l
        BY <4>1, AssignedFacts
      <4>3. Pos(tr, l) <= m
        BY <1>1, <4>1, <4>2
      <4>4. SatLit(T, -l)
        BY <2>1, <3>4, <4>2, <4>3
      <4> QED
        BY <4>1, <4>4, SatNegation
    <3> QED
      BY <3>2, <3>5 DEF SatClause
  <2> QED
    BY <2>3, <2>4
<1> HIDE DEF S
<1>4. \A m \in Nat : m \in S
  BY <1>2, <1>3, NatSetInduction
<1> QED
  BY <1>1, <1>4 DEF S

\* A literal that was decided above the root is the decision of its level.
LEMMA DecidedLevels ==
  ASSUME NEW tr, Shape(tr), NEW Y, NEW l \in DecidedIn(tr, Y)
  PROVE  \E i \in 1..Level(tr) : tr.control[i].decision = l /\ l # 0
<1>1. PICK k \in Positions(tr) : /\ l = tr.trail[k].lit /\ tr.trail[k].level > 0
                                 /\ tr.trail[k].reason = NoReason
  BY DEF DecidedIn
<1>2. tr.trail[k].level \in Nat /\ tr.trail[k].level <= Level(tr) /\ Level(tr) \in Nat /\ l # 0
  BY <1>1, TrailTypes DEF Shape, Placed, Distinct
<1>3. tr.control[tr.trail[k].level].decision = l
  BY <1>1 DEF Shape, Placed
<1> QED
  BY <1>1, <1>2, <1>3

\* So it is an assumption where all levels are those of assumptions.
LEMMA DecidedAssumptions ==
  ASSUME SearchInv, FirstLevels(assumptions, t), Level(t) <= Len(assumptions), NEW Y
  PROVE  DecidedIn(t, Y) \subseteq Rng(assumptions)
<1> SUFFICES ASSUME NEW l \in DecidedIn(t, Y) PROVE l \in Rng(assumptions)
  OBVIOUS
<1>1. Shape(t) /\ Level(t) \in Nat /\ Len(assumptions) \in Nat
  BY AnswerTypes
<1>2. PICK i \in 1..Level(t) : t.control[i].decision = l /\ l # 0
  BY <1>1, DecidedLevels
<1>3. i \in 1..Len(assumptions) /\ i <= Level(t)
  BY <1>1
<1> QED
  BY <1>2, <1>3 DEF FirstLevels

\* Then what the user said and the assumptions imply the trail.
LEMMA TrailFollows ==
  ASSUME SearchInv, ~unsat, FirstLevels(assumptions, t), Level(t) <= Len(assumptions),
         NEW T, SatFormula(T, original), SatAll(T, Rng(assumptions))
  PROVE  \A l \in LitsOf(maxVar) : Val(t, l) = 1 => SatLit(T, l)
<1>1. /\ IsDatabase(maxVar, db) /\ Shape(t) /\ Over(maxVar, t) /\ Graph(db, t) /\ maxVar \in Nat
  BY GraphFacts
<1>2. Good(T, t, db)
  BY DEF SearchInv, CoreInv, FormulaInv
<1> DEFINE Y == LitsOf(maxVar)
<1>3. Closed(db, t, Y)
  <2> SUFFICES ASSUME NEW k \in Positions(t), t.trail[k].reason # NoReason,
                      NEW l \in db[t.trail[k].reason].lits \ {t.trail[k].lit}
               PROVE  -l \in Y
    BY DEF Closed
  <2>1. t.trail[k].reason \in DOMAIN db
    BY <1>1 DEF Graph, Reasoned
  <2> QED
    BY <1>1, <2>1, ClauseLits
<1>4. \A l \in DecidedIn(t, Y) : SatLit(T, l)
  BY DecidedAssumptions DEF SatAll
<1>5. \A k \in Positions(t) : t.trail[k].lit \in Y => SatLit(T, t.trail[k].lit)
  BY <1>1, <1>2, <1>3, <1>4, ClosedFollows
<1> SUFFICES ASSUME NEW l \in LitsOf(maxVar), Val(t, l) = 1 PROVE SatLit(T, l)
  OBVIOUS
<1>6. l \in Int
  BY LitFacts
<1>7. Pos(t, l) \in Positions(t) /\ t.trail[Pos(t, l)].lit = l
  BY <1>1, <1>6, AssignedFacts
<1> QED
  BY <1>5, <1>7

-----------------------------------------------------------------------------
(* The failed assumptions.                                                 *)

\* One step of Support: position Len(tr.trail) + 1 - k of the trail.
SupportStep(d, tr, Y, k) ==
  LET e == tr.trail[Len(tr.trail) + 1 - k] IN
  IF e.lit \in Y /\ e.reason # NoReason
  THEN Y \cup {-l : l \in d[e.reason].lits \ {e.lit}}
  ELSE Y

\* The steps are taken one after the other.
LEMMA SupportUnfolds ==
  ASSUME NEW d, NEW tr, Len(tr.trail) \in Nat, NEW lits
  PROVE  \E S : /\ S[0] = lits
                /\ \A k \in 1..Len(tr.trail) : S[k] = SupportStep(d, tr, S[k - 1], k)
                /\ Support(d, tr, lits) = DecidedIn(tr, S[Len(tr.trail)])
<1> DEFINE N == Len(tr.trail)
           Step(Y, k) == LET e == tr.trail[N + 1 - k] IN
                         IF e.lit \in Y /\ e.reason # NoReason
                         THEN Y \cup {-l : l \in d[e.reason].lits \ {e.lit}}
                         ELSE Y
           Def(f, m) == f = [k \in 0..m |-> IF k = 0 THEN lits ELSE Step(f[k - 1], k)]
           R == {m \in Nat : \E f : Def(f, m)}
<1>1. \A Y, k : Step(Y, k) = SupportStep(d, tr, Y, k)
  BY DEF SupportStep
<1> HIDE DEF Step
<1>2. 0 \in R
  <2>1. Def([k \in 0..0 |-> lits], 0)
    OBVIOUS
  <2> QED
    BY <2>1
<1>3. ASSUME NEW m \in Nat, m \in R PROVE m + 1 \in R
  <2>1. PICK f : Def(f, m)
    BY <1>3
  <2> DEFINE g == [k \in 0..m + 1 |-> IF k = m + 1 THEN Step(f[m], m + 1) ELSE f[k]]
  <2>2. \A k \in 0..m + 1 : g[k] = IF k = 0 THEN lits ELSE Step(g[k - 1], k)
    <3> SUFFICES ASSUME NEW k \in 0..m + 1
                 PROVE  g[k] = IF k = 0 THEN lits ELSE Step(g[k - 1], k)
      OBVIOUS
    <3>1. CASE k = m + 1
      <4>1. g[k] = Step(f[m], m + 1) /\ k # 0
        BY <3>1
      <4>2. k - 1 = m /\ m \in 0..m + 1 /\ m # m + 1
        BY <3>1
      <4>3. g[k - 1] = f[m]
        BY <4>2
      <4> HIDE DEF g
      <4> QED
        BY <3>1, <4>1, <4>3
    <3>2. CASE k # m + 1
      <4>1. k \in 0..m /\ g[k] = f[k]
        BY <3>2
      <4>2. k # 0 => k - 1 \in 0..m + 1 /\ k - 1 # m + 1 /\ g[k - 1] = f[k - 1]
        BY <3>2
      <4>3. f[k] = IF k = 0 THEN lits ELSE Step(f[k - 1], k)
        BY <2>1, <4>1
      <4> HIDE DEF g, Def
      <4> QED
        BY <4>1, <4>2, <4>3
    <3> QED
      BY <3>1, <3>2
  <2>3. Def(g, m + 1)
    <3>1. g = [k \in 0..m + 1 |-> g[k]]
      OBVIOUS
    <3> HIDE DEF g
    <3> QED
      BY <2>2, <3>1
  <2> HIDE DEF g, Def
  <2> QED
    BY <2>3
<1>4. N \in R
  <2> HIDE DEF R
  <2> QED
    BY <1>2, <1>3, NatSetInduction
<1> DEFINE S[k \in 0..N] == IF k = 0 THEN lits ELSE Step(S[k - 1], k)
<1>5. Def(S, N)
  <2>1. S = CHOOSE f : Def(f, N)
    OBVIOUS
  <2>2. \E f : Def(f, N)
    BY <1>4
  <2> HIDE DEF S, Def
  <2> QED
    BY <2>1, <2>2
<1>6. Support(d, tr, lits) =
        {e.lit : e \in {tr.trail[k] : k \in {j \in Positions(tr) :
           tr.trail[j].lit \in S[N] /\ tr.trail[j].level > 0 /\ tr.trail[j].reason = NoReason}}}
  BY DEF Support, Step
<1> HIDE DEF S
<1>7. Support(d, tr, lits) = DecidedIn(tr, S[N])
  BY <1>6 DEF DecidedIn
<1>8. S[0] = lits /\ \A k \in 1..N : S[k] = SupportStep(d, tr, S[k - 1], k)
  <2>1. 0 \in 0..N /\ \A k \in 1..N : k \in 0..N /\ k # 0
    OBVIOUS
  <2> QED
    BY <2>1, <1>1, <1>5
<1> QED
  BY <1>7, <1>8

\* The literals it ends with are closed, and hold those it started from.
LEMMA SupportCloses ==
  ASSUME NEW n \in Nat, NEW d, IsDatabase(n, d), NEW tr, Shape(tr), Graph(d, tr), NEW lits
  PROVE  \E Y : lits \subseteq Y /\ Closed(d, tr, Y) /\ Support(d, tr, lits) = DecidedIn(tr, Y)
<1> DEFINE N == Len(tr.trail)
<1>1. N \in Nat /\ tr \in Trails /\ Distinct(tr) /\ Positions(tr) = 1..N
  BY TrailTypes DEF Shape, Positions
<1>2. PICK S : /\ S[0] = lits
               /\ \A k \in 1..N : S[k] = SupportStep(d, tr, S[k - 1], k)
               /\ Support(d, tr, lits) = DecidedIn(tr, S[N])
  <2>1. Len(tr.trail) \in Nat
    BY <1>1
  <2> QED
    BY ONLY <2>1, SupportUnfolds
<1>3. \A k \in 1..N : S[k - 1] \subseteq S[k]
  BY <1>2 DEF SupportStep
<1>4. \A m \in Nat : m <= N => \A k \in 0..m : S[k] \subseteq S[m]
  <2> DEFINE R == {m \in Nat : m <= N => \A k \in 0..m : S[k] \subseteq S[m]}
  <2>1. 0 \in R
    OBVIOUS
  <2>2. ASSUME NEW m \in Nat, m \in R PROVE m + 1 \in R
    <3> SUFFICES ASSUME m + 1 <= N, NEW k \in 0..m + 1 PROVE S[k] \subseteq S[m + 1]
      OBVIOUS
    <3>1. m + 1 \in 1..N /\ (m + 1) - 1 = m /\ m <= N
      BY <1>1
    <3>2. S[m] \subseteq S[m + 1]
      BY <1>3, <3>1
    <3>3. k = m + 1 \/ S[k] \subseteq S[m]
      BY <2>2, <3>1
    <3> QED
      BY <3>2, <3>3
  <2> HIDE DEF R
  <2>3. \A m \in Nat : m \in R
    BY <2>1, <2>2, NatSetInduction
  <2> QED
    BY <2>3 DEF R
<1>5. ASSUME NEW k \in 1..N, NEW p \in Positions(tr), N - p < k, tr.trail[p].lit \in S[k]
      PROVE  tr.trail[p].lit \in S[k - 1]
  <2> DEFINE e == tr.trail[N + 1 - k]
  <2>1. S[k] = IF e.lit \in S[k - 1] /\ e.reason # NoReason
               THEN S[k - 1] \cup {-l : l \in d[e.reason].lits \ {e.lit}}
               ELSE S[k - 1]
    BY <1>2 DEF SupportStep
  <2> SUFFICES ASSUME e.reason # NoReason, NEW l \in d[e.reason].lits \ {e.lit},
                      tr.trail[p].lit = -l
               PROVE  FALSE
    BY <1>5, <2>1
  <2>2. N + 1 - k \in Positions(tr)
    BY <1>1
  <2>3. e.reason \in DOMAIN d /\ Val(tr, l) = -1 /\ Pos(tr, l) < N + 1 - k
    BY <2>2 DEF Graph, Reasoned
  <2>4. l \in Int /\ -(-l) = l
    <3>1. e.reason \in DOMAIN d /\ l \in d[e.reason].lits
      BY <2>3
    <3> QED
      BY ONLY <3>1, n \in Nat, IsDatabase(n, d), ClauseLits
  <2>5. Pos(tr, l) = p
    BY <1>1, <2>4, AtPosition
  <2> QED
    BY <1>1, <1>5, <2>3, <2>5
<1>6. ASSUME NEW p \in Positions(tr), tr.trail[p].lit \in S[N] PROVE tr.trail[p].lit \in S[N - p]
  <2> DEFINE R == {m \in Nat : N - p + m <= N /\ tr.trail[p].lit \notin S[N - p] =>
                                 tr.trail[p].lit \notin S[N - p + m]}
  <2>1. p \in Nat /\ p >= 1 /\ p <= N
    BY <1>1
  <2>2. 0 \in R
    <3>1. N - p + 0 = N - p
      BY <1>1, <2>1
    <3> QED
      BY <3>1
  <2>3. ASSUME NEW m \in Nat, m \in R PROVE m + 1 \in R
    <3> SUFFICES ASSUME N - p + (m + 1) <= N, tr.trail[p].lit \notin S[N - p],
                        tr.trail[p].lit \in S[N - p + (m + 1)]
                 PROVE  FALSE
      OBVIOUS
    <3> DEFINE k == N - p + (m + 1)
    <3>1. k \in 1..N /\ k - 1 = N - p + m /\ N - p < k /\ N - p + m <= N
      <4>1. N \in Nat /\ p \in Nat /\ p <= N /\ m \in Nat /\ N - p + (m + 1) <= N
        BY <1>1, <2>1
      <4> HIDE DEF N
      <4> QED
        BY ONLY <4>1
    <3>2. tr.trail[p].lit \in S[k - 1]
      BY <1>5, <3>1
    <3> QED
      BY <2>3, <3>1, <3>2
  <2> HIDE DEF R
  <2>4. \A m \in Nat : m \in R
    BY <2>2, <2>3, NatSetInduction
  <2>5. p \in R /\ N - p + p = N
    BY <1>1, <2>1, <2>4
  <2> QED
    BY <1>6, <2>1, <2>5 DEF R
<1>7. Closed(d, tr, S[N])
  <2> SUFFICES ASSUME NEW p \in Positions(tr), tr.trail[p].lit \in S[N], tr.trail[p].reason # NoReason,
                      NEW l \in d[tr.trail[p].reason].lits \ {tr.trail[p].lit}
               PROVE  -l \in S[N]
    BY DEF Closed
  <2> DEFINE k == N - p + 1
  <2>1. k \in 1..N /\ k - 1 = N - p /\ N + 1 - k = p
    BY <1>1, SMTT(40)
  <2>2. tr.trail[p].lit \in S[k - 1]
    BY <1>6, <2>1
  <2>3. S[k] = S[k - 1] \cup {-x : x \in d[tr.trail[p].reason].lits \ {tr.trail[p].lit}}
    BY <1>2, <2>1, <2>2 DEF SupportStep
  <2>4. S[k] \subseteq S[N]
    BY <1>1, <1>4, <2>1, SMTT(40)
  <2> QED
    BY <2>3, <2>4
<1>8. lits \subseteq S[N]
  BY <1>1, <1>2, <1>4
<1> QED
  BY <1>2, <1>7, <1>8

\* Nothing rests on no decisions.
LEMMA SupportOfNone ==
  ASSUME NEW d, NEW tr, Len(tr.trail) \in Nat
  PROVE  Support(d, tr, {}) = {}
<1> DEFINE N == Len(tr.trail)
<1>1. PICK S : /\ S[0] = {}
               /\ \A k \in 1..N : S[k] = SupportStep(d, tr, S[k - 1], k)
               /\ Support(d, tr, {}) = DecidedIn(tr, S[N])
  BY SupportUnfolds
<1> DEFINE R == {m \in Nat : m <= N => S[m] = {}}
<1>2. 0 \in R
  BY <1>1
<1>3. ASSUME NEW m \in Nat, m \in R PROVE m + 1 \in R
  <2> SUFFICES ASSUME m + 1 <= N PROVE S[m + 1] = {}
    OBVIOUS
  <2>1. m + 1 \in 1..N /\ (m + 1) - 1 = m /\ S[m] = {}
    BY <1>3
  <2>2. S[m + 1] = SupportStep(d, tr, {}, m + 1)
    BY <1>1, <2>1
  <2> QED
    BY <2>2 DEF SupportStep
<1> HIDE DEF R
<1>4. N \in R
  BY <1>2, <1>3, NatSetInduction
<1>5. S[N] = {}
  BY <1>4 DEF R
<1> QED
  BY <1>1, <1>5 DEF DecidedIn

\* The decisions on which true literals rest imply them.
LEMMA SupportImplies ==
  ASSUME SearchInv, ~unsat, NEW lits, lits \subseteq LitsOf(maxVar), \A l \in lits : Val(t, l) = 1,
         NEW T, SatFormula(T, original), SatAll(T, Support(db, t, lits))
  PROVE  SatAll(T, lits)
<1>1. IsDatabase(maxVar, db) /\ Shape(t) /\ Over(maxVar, t) /\ Graph(db, t) /\ maxVar \in Nat
  BY GraphFacts
<1>2. Good(T, t, db)
  BY DEF SearchInv, CoreInv, FormulaInv
<1>3. PICK Y : lits \subseteq Y /\ Closed(db, t, Y) /\ Support(db, t, lits) = DecidedIn(t, Y)
  BY <1>1, SupportCloses
<1>4. \A l \in DecidedIn(t, Y) : SatLit(T, l)
  BY <1>3 DEF SatAll
<1>5. \A k \in Positions(t) : t.trail[k].lit \in Y => SatLit(T, t.trail[k].lit)
  BY <1>1, <1>2, <1>3, <1>4, ClosedFollows
<1> SUFFICES ASSUME NEW l \in lits PROVE SatLit(T, l)
  BY DEF SatAll
<1>6. l \in Int /\ Val(t, l) = 1
  BY LitFacts
<1>7. Pos(t, l) \in Positions(t) /\ t.trail[Pos(t, l)].lit = l
  BY <1>1, <1>6, AssignedFacts
<1> QED
  BY <1>3, <1>5, <1>7

\* They are assumptions while all levels are those of assumptions.
LEMMA SupportAssumed ==
  ASSUME SearchInv, FirstLevels(assumptions, t), Level(t) <= Len(assumptions), NEW lits
  PROVE  Support(db, t, lits) \subseteq Rng(assumptions)
<1>1. IsDatabase(maxVar, db) /\ Shape(t) /\ Graph(db, t) /\ maxVar \in Nat
  BY GraphFacts
<1>2. PICK Y : Support(db, t, lits) = DecidedIn(t, Y)
  BY <1>1, SupportCloses
<1> QED
  BY <1>2, DecidedAssumptions

\* A literal that is false at the root level is false.
LEMMA FixedFalse ==
  ASSUME SearchInv, ~unsat, NEW T, SatFormula(T, original), NEW l \in LitsOf(maxVar)
  PROVE  /\ Fixed(t, l) < 0 => ~SatLit(T, l)
         /\ Fixed(t, l) > 0 => SatLit(T, l)
<1>1. Shape(t) /\ RootHolds(T, t)
  BY GraphFacts DEF SearchInv, CoreInv, FormulaInv, Good
<1>2. Val(t, l) \in {-1, 0, 1}
  BY AnswerValues
<1>3. Fixed(t, l) # 0 => Val(t, l) # 0 /\ LevelOf(t, l) = 0 /\ Fixed(t, l) = Val(t, l)
  BY DEF Fixed
<1>4. Fixed(t, l) # 0 => (SatLit(T, l) <=> Val(t, l) = 1)
  BY <1>1, <1>3, RootValue
<1>5. Fixed(t, l) \in {-1, 0, 1}
  BY <1>2 DEF Fixed
<1> QED
  BY <1>2, <1>3, <1>4, <1>5

\* A constraint of which the root level falsifies all literals but those left,
\* which are false, is falsified.
LEMMA ConstraintFails ==
  ASSUME SearchInv, ~unsat, ConstraintInv, constraint # {} \/ unsatConstraint,
         NEW T, SatFormula(T, original), \A l \in constraint : ~SatLit(T, l)
  PROVE  ~SatFormula(T, constrained)
<1>1. PICK d : d \in constrained
  BY DEF ConstraintInv
<1>2. d \subseteq LitsOf(maxVar)
  BY <1>1, AnswerTypes
<1>3. \A l \in d : l \in constraint \/ Fixed(t, l) < 0
  BY <1>1 DEF ConstraintInv, RootDecides
<1>4. \A l \in d : ~SatLit(T, l)
  BY <1>2, <1>3, FixedFalse
<1> QED
  BY <1>1, <1>4 DEF SatFormula, SatClause

\* What fails when the constraint does.
LEMMA ConstraintCore ==
  ASSUME AnswerInv, pc = "done", result = 20, ~unsat, unsatConstraint,
         NEW core, core = Support(db, t, {-l : l \in constraint})
  PROVE  /\ core \subseteq Rng(assumptions)
         /\ \A T : SatFormula(T, original) /\ SatFormula(T, constrained) => ~SatAll(T, core)
<1>1. /\ SearchInv /\ ConstraintInv /\ maxVar \in Nat /\ Shape(t) /\ constraint \subseteq LitsOf(maxVar)
      /\ \A l \in constraint : Val(t, l) = -1
      /\ constraint # {} => Level(t) <= Len(assumptions)
      /\ FirstLevels(assumptions, t)
  BY AnswerTypes DEF AnswerInv, ResultInv, LevelsInv
<1> DEFINE true == {-l : l \in constraint}
<1>2. true \subseteq LitsOf(maxVar) /\ \A l \in true : Val(t, l) = 1
  <2> SUFFICES ASSUME NEW l \in constraint PROVE -l \in LitsOf(maxVar) /\ Val(t, -l) = 1
    OBVIOUS
  <2>1. l \in LitsOf(maxVar) /\ Val(t, l) = -1
    BY <1>1
  <2>2. l \in Int /\ -l \in LitsOf(maxVar)
    BY <2>1, LitFacts
  <2> QED
    BY <1>1, <2>1, <2>2, Values DEF Shape
<1>3. core \subseteq Rng(assumptions)
  <2>1. CASE constraint = {}
    <3>1. true = {} /\ Len(t.trail) \in Nat
      BY <1>1, <2>1, TrailTypes DEF Shape
    <3>2. core = {}
      BY <3>1, SupportOfNone
    <3> QED
      BY <3>2
  <2>2. CASE constraint # {}
    BY <1>1, <2>2, SupportAssumed
  <2> QED
    BY <2>1, <2>2
<1>4. ASSUME NEW T, SatFormula(T, original), SatFormula(T, constrained), SatAll(T, core) PROVE FALSE
  <2>1. SatAll(T, true)
    <3> HIDE DEF true
    <3>1. SatAll(T, Support(db, t, true))
      BY <1>4 DEF true
    <3> QED
      BY <1>1, <1>2, <1>4, <3>1, SupportImplies
  <2>2. \A l \in constraint : ~SatLit(T, l)
    <3> SUFFICES ASSUME NEW l \in constraint PROVE ~SatLit(T, l)
      OBVIOUS
    <3>1. l \in LitsOf(maxVar) /\ SatLit(T, -l)
      BY <1>1, <2>1 DEF SatAll
    <3> QED
      BY <3>1, SatNegation
  <2> QED
    BY <1>1, <1>4, <2>2, ConstraintFails
<1> QED
  BY <1>3, <1>4

\* The values of the assumptions.
LEMMA FalseAssumptions ==
  ASSUME AnswerInv, NEW l \in Rng(assumptions), Val(t, l) < 0
  PROVE  /\ l \in LitsOf(maxVar) /\ l \in Int /\ -l \in LitsOf(maxVar)
         /\ Val(t, l) = -1 /\ Val(t, -l) = 1
         /\ Pos(t, l) \in Positions(t) /\ t.trail[Pos(t, l)].lit = -l
         /\ LevelOf(t, l) = t.trail[Pos(t, l)].level /\ LevelOf(t, l) \in Nat
<1>1. SearchInv /\ Shape(t)
  BY AnswerTypes DEF AnswerInv
<1>2. l \in LitsOf(maxVar) /\ maxVar \in Nat
  BY <1>1, AnswerTypes
<1>3. l \in Int /\ -l \in LitsOf(maxVar)
  BY <1>2, LitFacts
<1>4. t \in Trails /\ Distinct(t)
  BY <1>1 DEF Shape
<1>5. Val(t, l) = -1
  BY <1>1, <1>2, AnswerValues
<1>6. Val(t, -l) = 1 /\ Pos(t, l) \in Positions(t) /\ t.trail[Pos(t, l)].lit = -l
      /\ LevelOf(t, l) = t.trail[Pos(t, l)].level
  BY <1>3, <1>4, <1>5, Values
<1> QED
  BY <1>2, <1>3, <1>4, <1>5, <1>6, TrailTypes

\* A false assumption that was decided against is the negation of another one.
LEMMA Clashes ==
  ASSUME AnswerInv, pc = "done", Level(t) <= Len(assumptions),
         NEW l \in Rng(assumptions), Val(t, l) < 0, LevelOf(t, l) # 0,
         t.trail[Pos(t, l)].reason = NoReason
  PROVE  -l \in Rng(assumptions)
<1>1. SearchInv /\ FirstLevels(assumptions, t)
  BY DEF AnswerInv, LevelsInv
<1>2. /\ Pos(t, l) \in Positions(t) /\ t.trail[Pos(t, l)].lit = -l
      /\ t.trail[Pos(t, l)].level > 0
  BY FalseAssumptions
<1>3. -l \in DecidedIn(t, {-l})
  BY <1>2 DEF DecidedIn
<1> QED
  BY <1>1, <1>3, DecidedAssumptions

\* Of the false assumptions one has the lowest level.
LEMMA FirstFalse ==
  ASSUME AnswerInv, NEW false, false = {l \in Rng(assumptions) : Val(t, l) < 0}, false # {}
  PROVE  (CHOOSE l \in false : \A k \in false : LevelOf(t, l) <= LevelOf(t, k)) \in false
<1> DEFINE levels == {LevelOf(t, l) : l \in false}
<1>1. levels \subseteq Nat /\ levels # {}
  BY FalseAssumptions
<1>2. PICK n \in levels : \A m \in levels : n <= m
  BY <1>1, NatLeast
<1>3. \E l \in false : \A k \in false : LevelOf(t, l) <= LevelOf(t, k)
  BY <1>2
<1> QED
  BY <1>3

\* The assumptions marked as failed when one is false refute the formula.
LEMMA AssumptionCore ==
  ASSUME AnswerInv, pc = "done", result = 20, ~unsat, ~unsatConstraint,
         NEW core, core = Failing(db, t)
  PROVE  /\ core \subseteq Rng(assumptions)
         /\ \A T : SatFormula(T, original) => ~SatAll(T, core)
<1> DEFINE false == {l \in Rng(assumptions) : Val(t, l) < 0}
           units == {l \in false : LevelOf(t, l) = 0}
           clashing == {l \in false : t.trail[Pos(t, l)].reason = NoReason}
           unit == CHOOSE l \in units : TRUE
           clash == CHOOSE l \in clashing : TRUE
           first == CHOOSE l \in false : \A k \in false : LevelOf(t, l) <= LevelOf(t, k)
<1>1. core = IF units # {} THEN {unit}
             ELSE IF clashing # {} THEN {clash, -clash}
             ELSE {first} \cup Support(db, t, {-first})
  BY DEF Failing
<1>2. /\ SearchInv /\ Level(t) \in Nat /\ Len(assumptions) \in Nat
      /\ Level(t) < Len(assumptions) /\ Val(t, assumptions[Level(t) + 1]) = -1
      /\ FirstLevels(assumptions, t) /\ Shape(t)
  BY AnswerTypes DEF AnswerInv, ResultInv, LevelsInv
<1>3. false # {}
  <2>1. Level(t) + 1 \in 1..Len(assumptions)
    BY <1>2
  <2>2. assumptions[Level(t) + 1] \in Rng(assumptions)
    BY <1>2, <2>1, AnswerTypes
  <2> QED
    BY <1>2, <2>2
<1>4. first \in false
  BY <1>3, FirstFalse
<1>5. units # {} => unit \in units
  OBVIOUS
<1>6. clashing # {} => clash \in clashing
  OBVIOUS
<1> HIDE DEF unit, clash, first
<1>7. CASE units # {}
  <2>1. unit \in Rng(assumptions) /\ Val(t, unit) < 0 /\ LevelOf(t, unit) = 0 /\ core = {unit}
    BY <1>1, <1>5, <1>7
  <2>2. Fixed(t, unit) < 0 /\ unit \in LitsOf(maxVar)
    BY <2>1, FalseAssumptions DEF Fixed
  <2>3. \A T : SatFormula(T, original) => ~SatLit(T, unit)
    BY <1>2, <2>2, FixedFalse
  <2> QED
    BY <2>1, <2>3 DEF SatAll
<1>8. CASE units = {} /\ clashing # {}
  <2>1. /\ clash \in Rng(assumptions) /\ Val(t, clash) < 0 /\ LevelOf(t, clash) # 0
        /\ t.trail[Pos(t, clash)].reason = NoReason /\ core = {clash, -clash}
    BY <1>1, <1>6, <1>8
  <2>2. -clash \in Rng(assumptions)
    BY <1>2, <2>1, Clashes
  <2>3. clash \in LitsOf(maxVar)
    BY <2>1, FalseAssumptions
  <2>4. \A T : ~(SatLit(T, clash) /\ SatLit(T, -clash))
    BY <1>2, <2>3, SatNegation, AnswerTypes
  <2> QED
    BY <2>1, <2>2, <2>4 DEF SatAll
<1>9. CASE units = {} /\ clashing = {}
  <2>1. core = {first} \cup Support(db, t, {-first})
    BY <1>1, <1>9
  <2>2. first \in Rng(assumptions) /\ Val(t, first) < 0
    BY <1>4
  <2>3. first \in LitsOf(maxVar) /\ -first \in LitsOf(maxVar) /\ Val(t, -first) = 1
    BY <2>2, FalseAssumptions
  <2>4. Support(db, t, {-first}) \subseteq Rng(assumptions)
    BY <1>2, SupportAssumed
  <2>5. ASSUME NEW T, SatFormula(T, original), SatAll(T, core) PROVE FALSE
    <3>1. SatLit(T, first) /\ SatAll(T, Support(db, t, {-first}))
      BY <2>1, <2>5 DEF SatAll
    <3>2. {-first} \subseteq LitsOf(maxVar) /\ \A l \in {-first} : Val(t, l) = 1
      BY <2>3
    <3>3. SatAll(T, {-first})
      BY <1>2, <2>5, <3>1, <3>2, SupportImplies
    <3>4. SatLit(T, -first)
      BY <3>3 DEF SatAll
    <3> QED
      BY <1>2, <2>3, <3>1, <3>4, SatNegation, AnswerTypes
  <2> QED
    BY <2>1, <2>2, <2>4, <2>5
<1> QED
  BY <1>7, <1>8, <1>9

\* The search only moves while a solve runs or the trail is at the root level.
LEMMA SolvingRuns ==
  ASSUME SearchInv, Solving
  PROVE  pc # "done" /\ failed' = failed /\ UNCHANGED <<apiVars, input>>
<1>1. failed' = failed /\ UNCHANGED <<apiVars, input>>
  BY DEF Solving, Propagate, PropagateLiteral, Visit, PropagateBinary, StopAtLong, SkipLong,
         ReplaceWatch, PropagateUnit, FindConflict, Visited, AnalyzeStep, LearnEmptyClause,
         ReturnUnsat, ReturnSat, ReturnUnknown, Return, Restart, StartReduce, Reduce,
         DecideAssumption, DecideConstraint, DecideVariable
<1>2. CASE Propagate
  <2>1. Propagating \/ \E i \in todo : TRUE
    BY <1>2 DEF Propagate, PropagateLiteral
  <2> QED
    BY <1>1, <2>1, TodoFacts DEF Propagating
<1>3. CASE ~Propagate
  BY <1>1, <1>3 DEF Solving, AnalyzeStep, LearnEmptyClause,
         ReturnUnsat, ReturnSat, ReturnUnknown, Restart, StartReduce, Reduce,
         DecideAssumption, DecideConstraint, DecideVariable, Searching
<1> QED
  BY <1>2, <1>3

\* What was marked as failed refutes the formula, with the constraint if that
\* is what failed.
FailedInv ==
  failed # {} =>
    /\ pc = "done" /\ failed \subseteq Rng(assumptions)
    /\ \A T : SatFormula(T, original) /\ (unsatConstraint => SatFormula(T, constrained)) =>
                ~SatAll(T, failed)

\* It is marked after a solve that failed, and forgotten in the next round.
LEMMA FailedStep ==
  ASSUME AnswerInv, FailedInv, [Next]_vars
  PROVE  FailedInv'
<1>1. SearchInv
  BY DEF AnswerInv
<1>2. CASE failed' = failed /\ UNCHANGED <<pc, original, assumptions, constrained, unsatConstraint>>
  BY <1>2 DEF FailedInv
<1>3. CASE failed' = failed /\ pc # "done"
  BY <1>3 DEF FailedInv
<1>4. CASE Solving
  BY <1>1, <1>3, <1>4, SolvingRuns
<1>5. CASE NextRound
  BY <1>5 DEF NextRound, FailedInv
<1>6. CASE AddClause \/ Assume \/ Constrain \/ Solve
  <2>1. Ready /\ failed' = failed
    BY <1>6 DEF AddClause, Assume, Constrain, Solve
  <2> QED
    BY <1>3, <2>1 DEF Ready
<1>7. CASE MarkFailed
  <2>1. /\ pc = "done" /\ result = 20 /\ ~unsat /\ failed' = Failing(db, t)
        /\ UNCHANGED <<pc, original, assumptions, constrained, unsatConstraint>>
    BY <1>7 DEF MarkFailed, apiVars
  <2>2. CASE ~unsatConstraint
    <3>1. failed' \subseteq Rng(assumptions) /\ \A T : SatFormula(T, original) => ~SatAll(T, failed')
      BY <2>1, <2>2, AssumptionCore
    <3> QED
      BY <2>1, <2>2, <3>1 DEF FailedInv
  <2>3. CASE unsatConstraint
    <3>1. failed' = Support(db, t, {-l : l \in constraint})
      BY <2>1, <2>3 DEF Failing
    <3>2. /\ failed' \subseteq Rng(assumptions)
          /\ \A T : SatFormula(T, original) /\ SatFormula(T, constrained) => ~SatAll(T, failed')
      BY <2>1, <2>3, <3>1, ConstraintCore
    <3> QED
      BY <2>1, <2>3, <3>2 DEF FailedInv
  <2> QED
    BY <2>2, <2>3
<1>8. CASE UNCHANGED vars
  BY <1>2, <1>8 DEF vars, apiVars
<1> QED
  BY <1>4, <1>5, <1>6, <1>7, <1>8 DEF Next, User

\* So it is a core.
LEMMA FailedCore ==
  ASSUME FailedInv
  PROVE  FailedIsCore
<1> SUFFICES ASSUME failed # {},
                    NEW T, SatFormula(T, original \cup (IF unsatConstraint THEN constrained ELSE {})),
                    SatAll(T, failed)
             PROVE  FALSE
  BY DEF FailedInv, FailedIsCore, Satisfiable
<1>1. SatFormula(T, original) /\ (unsatConstraint => SatFormula(T, constrained))
  BY DEF SatFormula
<1> QED
  BY <1>1 DEF FailedInv

-----------------------------------------------------------------------------
(* The model.                                                              *)

\* A trail with one literal for each variable assigns all of them.
LEMMA FullTrail ==
  ASSUME SearchInv, Len(t.trail) = maxVar, NEW l \in LitsOf(maxVar)
  PROVE  Val(t, l) # 0
<1> SUFFICES ASSUME Val(t, l) = 0 PROVE FALSE
  OBVIOUS
<1>1. /\ Shape(t) /\ Over(maxVar, t) /\ maxVar \in Nat /\ Positions(t) = 1..maxVar
      /\ t \in Trails /\ Distinct(t)
  BY GraphFacts DEF Positions, Shape
<1>2. l \in Int /\ l # 0 /\ -l \in LitsOf(maxVar) /\ VarOf(l) \in 1..maxVar
  BY LitFacts
<1> DEFINE V == {VarOf(t.trail[k].lit) : k \in 1..maxVar}
           f == [k \in 1..maxVar |-> VarOf(t.trail[k].lit)]
<1>3. \A k \in 1..maxVar : t.trail[k].lit \in LitsOf(maxVar) /\ t.trail[k].lit \in Int
  BY <1>1, TrailTypes DEF Over
<1>4. V \subseteq 1..maxVar
  <2>1. \A k \in 1..maxVar : VarOf(t.trail[k].lit) \in 1..maxVar
    BY <1>3, LitFacts
  <2> QED
    BY <2>1
<1>5. VarOf(l) \notin V
  <2> SUFFICES ASSUME NEW k \in 1..maxVar, VarOf(l) = VarOf(t.trail[k].lit) PROVE FALSE
    OBVIOUS
  <2>1. t.trail[k].lit \in Int
    BY <1>3
  <2>2. l = t.trail[k].lit \/ l = -t.trail[k].lit
    BY <1>2, <2>1 DEF VarOf
  <2>3. k \in Positions(t)
    BY <1>1
  <2>4. Val(t, l) \in {1, -1}
    BY <1>1, <2>2, <2>3, AtPosition
  <2> QED
    BY <2>4
<1>6. f \in Injection(1..maxVar, V)
  <2>1. ASSUME NEW j \in 1..maxVar, NEW k \in 1..maxVar, j # k, f[j] = f[k] PROVE FALSE
    <3>1. t.trail[j].lit \in Int /\ t.trail[k].lit \in Int
      BY <1>3
    <3>2. t.trail[j].lit = t.trail[k].lit \/ t.trail[j].lit = -t.trail[k].lit
      BY <2>1, <3>1, SMTT(40) DEF VarOf
    <3> QED
      BY <1>1, <2>1, <3>2 DEF Distinct
  <2>2. f \in [1..maxVar -> V]
    OBVIOUS
  <2> HIDE DEF f
  <2>3. \A j, k \in 1..maxVar : f[j] = f[k] => j = k
    BY <2>1
  <2> QED
    BY <2>2, <2>3 DEF Injection, IsInjective
<1>7. IsFiniteSet(1..maxVar) /\ Cardinality(1..maxVar) = maxVar
  BY <1>1, FS_Interval
<1> HIDE DEF f, V
<1>8. IsFiniteSet(V) /\ Cardinality(V) <= Cardinality(1..maxVar)
  BY <1>4, <1>7, FS_Subset
<1>9. Cardinality(1..maxVar) <= Cardinality(V)
  BY <1>6, <1>8, FS_Injection
<1>10. V = 1..maxVar
  <2>1. Cardinality(V) \in Nat
    BY <1>8, FS_CardinalityType
  <2>2. Cardinality(V) = Cardinality(1..maxVar)
    BY ONLY <2>1, <1>1, <1>7, <1>8, <1>9
  <2> QED
    BY ONLY <2>2, <1>4, <1>7, FS_Subset
<1> QED
  BY <1>2, <1>5, <1>10

\* The assignment that a full trail stands for.
LEMMA TrailAssignment ==
  ASSUME SearchInv, Len(t.trail) = maxVar, NEW T, T = TrueLits(t) \cap Vars, NEW l \in LitsOf(maxVar)
  PROVE  SatLit(T, l) <=> Val(t, l) = 1
<1>1. Shape(t) /\ maxVar \in Nat /\ t \in Trails /\ Distinct(t)
  BY GraphFacts DEF Shape
<1>2. l \in Int /\ l # 0 /\ -l \in LitsOf(maxVar) /\ -(-l) = l
  BY LitFacts
<1>3. Val(t, l) \in {-1, 1} /\ Val(t, -l) \in {-1, 1} /\ (Val(t, l) = 1 <=> Val(t, -l) = -1)
  BY <1>1, <1>2, FullTrail, Values
<1>4. \A k \in LitsOf(maxVar) : k > 0 => (k \in T <=> Val(t, k) = 1)
  <2> SUFFICES ASSUME NEW k \in LitsOf(maxVar), k > 0 PROVE k \in T <=> Val(t, k) = 1
    OBVIOUS
  <2>1. k \in Vars
    BY <1>1 DEF LitsOf, Vars
  <2> QED
    BY <2>1 DEF Val
<1>5. CASE l > 0
  BY <1>4, <1>5 DEF SatLit
<1>6. CASE ~(l > 0)
  <2>1. -l > 0
    BY <1>2, <1>6
  <2>2. -l \in T <=> Val(t, -l) = 1
    BY <1>2, <1>4, <2>1
  <2> QED
    BY <1>3, <1>6, <2>2 DEF SatLit
<1> QED
  BY <1>5, <1>6

\* A full trail that falsifies no clause satisfies all of them.
LEMMA TrailIsModel ==
  ASSUME SearchInv, NoneFalsified, ~unsat, Propagated, Len(t.trail) = maxVar,
         NEW T, T = TrueLits(t) \cap Vars
  PROVE  SatFormula(T, original)
<1>1. \A l \in LitsOf(maxVar) : (SatLit(T, l) <=> Val(t, l) = 1) /\ l \in Int /\ Val(t, l) \in {-1, 1}
  BY TrailAssignment, FullTrail, AnswerValues
<1>2. IsDatabase(maxVar, db) /\ Shape(t) /\ Over(maxVar, t) /\ maxVar \in Nat /\ t \in Trails /\ Distinct(t)
  BY GraphFacts DEF Shape
<1>3. RootHolds(T, t)
  <2>1. \A k \in Positions(t) : SatLit(T, t.trail[k].lit)
    <3> SUFFICES ASSUME NEW k \in Positions(t) PROVE SatLit(T, t.trail[k].lit)
      OBVIOUS
    <3>1. t.trail[k].lit \in LitsOf(maxVar) /\ Val(t, t.trail[k].lit) = 1
      BY <1>2, AtPosition DEF Over
    <3> QED
      BY <1>1, <3>1
  <2> QED
    BY <2>1 DEF RootHolds
<1>4. CoreHolds(T, db)
  <2> SUFFICES ASSUME NEW i \in DOMAIN db, ~db[i].redundant, ~db[i].garbage
               PROVE  SatClause(T, db[i].lits)
    BY DEF CoreHolds
  <2>1. ~Falsified(t, db[i].lits)
    BY DEF NoneFalsified, Ids
  <2>2. PICK l \in db[i].lits : ~(Val(t, l) < 0)
    BY <2>1 DEF Falsified
  <2>3. l \in LitsOf(maxVar)
    BY <1>2, <2>2, ClauseLits
  <2>4. Val(t, l) \in {-1, 1}
    BY <1>1, <2>3
  <2>5. Val(t, l) = 1
    BY <2>2, <2>4
  <2>6. SatLit(T, l)
    BY <1>1, <2>3, <2>5
  <2> QED
    BY <2>2, <2>6 DEF SatClause
<1> QED
  BY <1>3, <1>4 DEF SearchInv, CoreInv, FormulaInv

\* So are the constraint and the assumptions, all of which are decided.
LEMMA TrailAnswers ==
  ASSUME AnswerInv, pc # "ready", NoneFalsified, ~unsat, ~unsatConstraint, Propagated, SatisfiedAll,
         NEW T, T = TrueLits(t) \cap Vars
  PROVE  /\ SatFormula(T, original) /\ SatFormula(T, constrained)
         /\ SatAll(T, Rng(assumptions))
<1>1. /\ SearchInv /\ FirstLevels(assumptions, t) /\ ChosenLevel(assumptions, constraint, t)
      /\ RootDecides(constrained, constraint, FALSE, t)
      /\ Level(t) \in Nat /\ Len(assumptions) \in Nat /\ assumptions \in Seq(LitsOf(maxVar))
      /\ constraint \subseteq LitsOf(maxVar) /\ constrained \subseteq SUBSET LitsOf(maxVar)
      /\ Rng(assumptions) \subseteq LitsOf(maxVar)
  <2>1. unsatConstraint = FALSE
    BY AnswerTypes DEF AnswerInv
  <2> QED
    BY <2>1, AnswerTypes DEF AnswerInv, LevelsInv, ConstraintInv
<1>2. /\ Len(t.trail) = maxVar /\ Len(assumptions) <= Level(t)
      /\ constraint # {} => Level(t) > Len(assumptions)
  BY <1>1 DEF SatisfiedAll, AssumptionLevels
<1>3. \A l \in LitsOf(maxVar) : SatLit(T, l) <=> Val(t, l) = 1
  BY <1>1, <1>2, TrailAssignment
<1>4. SatFormula(T, original)
  BY <1>1, <1>2, TrailIsModel
<1>5. SatFormula(T, constrained)
  <2> SUFFICES ASSUME NEW d \in constrained PROVE \E l \in d : SatLit(T, l)
    BY DEF SatFormula, SatClause
  <2>1. d \subseteq LitsOf(maxVar)
    BY <1>1
  <2>2. CASE constraint # {}
    <3>1. PICK l \in constraint : Val(t, l) = 1
      BY <1>1, <1>2, <2>2 DEF ChosenLevel
    <3>2. l \in d
      BY <1>1, <2>2, <3>1 DEF RootDecides
    <3> QED
      BY <1>3, <2>1, <3>1, <3>2
  <2>3. CASE constraint = {}
    <3>1. PICK l \in d : -l \in d \/ Fixed(t, l) > 0
      BY <1>1, <2>3 DEF RootDecides
    <3>2. CASE -l \in d
      BY <2>1, <3>1, <3>2, SatNegation
    <3>3. CASE Fixed(t, l) > 0
      BY <1>1, <1>4, <2>1, <3>1, <3>3, FixedFalse
    <3> QED
      BY <3>1, <3>2, <3>3
  <2> QED
    BY <2>2, <2>3
<1>6. SatAll(T, Rng(assumptions))
  <2>0. DOMAIN assumptions = 1..Len(assumptions)
    BY <1>1
  <2> SUFFICES ASSUME NEW k \in 1..Len(assumptions) PROVE SatLit(T, assumptions[k])
    BY <2>0 DEF SatAll, Rng
  <2>1. Val(t, assumptions[k]) = 1
    BY <1>1, <1>2 DEF FirstLevels
  <2>2. assumptions[k] \in LitsOf(maxVar)
    BY <1>1
  <2> QED
    BY <1>3, <2>1, <2>2
<1> QED
  BY <1>4, <1>5, <1>6

\* The model the search stops with.
LEMMA ModelFacts ==
  ASSUME AnswerInv, NoneFalsified
  PROVE  ModelFound
<1> DEFINE T == TrueLits(t) \cap Vars
<1> SUFFICES ASSUME pc = "done", result = 10
             PROVE  SatFormula(T, original \cup constrained) /\ SatAll(T, Rng(assumptions))
  BY DEF ModelFound
<1>1. Propagated /\ ~unsat /\ ~unsatConstraint /\ SatisfiedAll
  BY DEF AnswerInv, ResultInv
<1> HIDE DEF T
<1>2. SatFormula(T, original) /\ SatFormula(T, constrained) /\ SatAll(T, Rng(assumptions))
  BY <1>1, TrailAnswers DEF T
<1> QED
  BY <1>2, SatUnion

-----------------------------------------------------------------------------
(* The properties.                                                         *)

\* A conflict that refuted the formula is not forgotten, nor is its clause.
ConflictKnown == conflict \in DOMAIN db \cup {0}

\* No step loses it.
LEMMA ConflictKnownStep ==
  ASSUME SearchInv, ConflictKnown, [Next]_vars
  PROVE  ConflictKnown'
<1>0. todo # {} => ~unsat
  BY DEF SearchInv, CoreInv, QuietInv
<1>1. CASE ~unsat'
  <2>1. ConflictInv'
    BY SearchInvStep DEF SearchInv, CoreInv
  <2> QED
    BY <1>1, <2>1 DEF ConflictInv, ConflictKnown
<1>2. CASE UNCHANGED <<db, conflict>>
  BY <1>2 DEF ConflictKnown
<1>3. ASSUME unsat', Propagate PROVE FALSE
  <2>1. CASE PropagateLiteral
    BY <1>3, <2>1 DEF PropagateLiteral
  <2>2. CASE \E i \in todo : Visit(i)
    <3>1. PICK i \in todo : Visit(i)
      BY <2>2
    <3>2. unsat' = unsat
      BY <3>1 DEF Visit, Visited, PropagateBinary, StopAtLong, SkipLong, ReplaceWatch, PropagateUnit,
                  FindConflict
    <3>3. ~unsat
      BY ONLY <1>0, todo # {}, Zenon
    <3> QED
      BY <1>3, <3>2, <3>3, Zenon
  <2> QED
    BY <1>3, <2>1, <2>2 DEF Propagate
<1>4. CASE AnalyzeStep
  BY <1>4, AnalyzeStepKeeps DEF ConflictKnown
<1>5. CASE LearnEmptyClause
  BY <1>2, <1>5 DEF LearnEmptyClause
<1>6. ASSUME unsat', Restart \/ StartReduce \/ Reduce \/ DecideAssumption \/ DecideConstraint \/ DecideVariable
      PROVE  FALSE
  BY <1>6 DEF Restart, StartReduce, Reduce, DecideAssumption, DecideConstraint, DecideVariable, Searching,
     Return
<1>7. CASE ReturnUnsat \/ ReturnSat \/ ReturnUnknown \/ MarkFailed \/ NextRound \/ UNCHANGED vars
  BY <1>2, <1>7 DEF ReturnUnsat, ReturnSat, ReturnUnknown, Return, MarkFailed, NextRound, searchVars, vars
<1>8. CASE AddClause /\ unsat'
  <2>1. conflict' = conflict
    BY <1>8 DEF AddClause
  <2>2. db' = db
    BY <1>8 DEF AddClause
  <2> QED
    BY <1>2, <2>1, <2>2
<1>9. CASE Assume \/ Constrain \/ Solve
  BY <1>2, <1>9 DEF Assume, Constrain, Solve
<1> QED
  BY <1>1, <1>3, <1>4, <1>5, <1>6, <1>7, <1>8, <1>9 DEF Next, Solving, User

\* What the search is made of has its type.
LEMMA TypesHold ==
  ASSUME AnswerInv, FailedInv, ConflictKnown
  PROVE  SearchTypeOK
<1>1. /\ SearchInv /\ ApiTypes /\ FlowTypes /\ todo \subseteq DOMAIN db
      /\ assumptions \in Seq(LitsOf(maxVar)) /\ Rng(assumptions) \subseteq LitsOf(maxVar)
  BY AnswerTypes DEF AnswerInv, SearchInv, CoreInv, VisitInv
<1>2. /\ IsDatabase(maxVar, db) /\ Shape(t) /\ t \in Trails /\ Over(maxVar, t) /\ Graph(db, t)
      /\ maxVar \in Nat /\ Level(t) \in Nat /\ Len(t.trail) \in Nat
      /\ t.propagated \in Nat /\ t.propagated <= Len(t.trail)
  BY <1>1, GraphFacts
<1>3. ASSUME NEW i \in Ids
      PROVE  /\ db[i].lits \subseteq LitsOf(maxVar) /\ Cardinality(db[i].lits) >= 2
             /\ db[i].watch \in Pairs(db[i].lits)
             /\ db[i].redundant \in BOOLEAN /\ db[i].garbage \in BOOLEAN
  <2>1. i \in DOMAIN db
    BY <1>3 DEF Ids
  <2>2. /\ db[i].lits \subseteq LitsOf(maxVar) /\ Cardinality(db[i].lits) >= 2 /\ Watching(db[i])
        /\ db[i].redundant \in BOOLEAN /\ db[i].garbage \in BOOLEAN /\ db[i].watch \subseteq db[i].lits
    BY <1>2, <2>1, ClauseTypes
  <2>3. PICK a, b : a # b /\ db[i].watch = {a, b}
    BY <2>2 DEF Watching
  <2>4. Cardinality({a, b}) = 2
    <3>1. IsFiniteSet({a}) /\ Cardinality({a}) = 1 /\ b \notin {a}
      BY <2>3, FS_Singleton
    <3>2. Cardinality({a} \cup {b}) = 1 + 1
      BY <3>1, FS_AddElement
    <3>3. {a} \cup {b} = {a, b}
      OBVIOUS
    <3> QED
      BY <3>2, <3>3
  <2> QED
    BY <2>2, <2>3, <2>4 DEF Pairs
<1>4. ASSUME NEW k \in Positions(t)
      PROVE  /\ t.trail[k].lit \in LitsOf(maxVar) /\ t.trail[k].level \in 0..Level(t)
             /\ t.trail[k].reason \in Ids \cup {NoReason}
  <2>1. t.trail[k].level \in Nat /\ t.trail[k].level <= Level(t)
    BY <1>2, TrailTypes DEF Shape, Placed
  <2>2. t.trail[k].reason \in Ids \cup {NoReason}
    BY <1>2 DEF Graph, Reasoned, Ids
  <2> QED
    BY <1>2, <2>1, <2>2 DEF Over
<1>5. ASSUME NEW i \in 1..Level(t) PROVE t.control[i].trail \in 0..Len(t.trail)
  <2>1. t.control[i].trail \in Nat /\ t.control[i].trail <= Len(t.trail)
    BY <1>2, TrailTypes DEF Shape, Heights
  <2> QED
    BY <1>2, <2>1
<1>6. failed \subseteq LitsOf(maxVar)
  BY <1>1 DEF FailedInv
<1>7. reductions \in 0..MaxReductions
  BY <1>1, ConstantTypes DEF FlowTypes
<1>8. t.propagated \in 0..Len(t.trail)
  BY <1>2
<1> QED
  BY <1>1, <1>3, <1>4, <1>5, <1>6, <1>7, <1>8 DEF SearchTypeOK, ApiTypes, FlowTypes, ConflictKnown, Ids

\* The first levels are those of the assumptions.
LEMMA DecidedFirst ==
  ASSUME AnswerInv
  PROVE  AssumptionsDecidedFirst
<1> SUFFICES ASSUME pc \in {"search", "reduce"}, NEW i \in 1..Min({Level(t), Len(assumptions)})
             PROVE  /\ t.control[i].decision \in {0} \cup Rng(assumptions)
                    /\ Val(t, assumptions[i]) > 0 /\ LevelOf(t, assumptions[i]) <= i
  BY DEF AssumptionsDecidedFirst
<1>1. Level(t) \in Nat /\ Len(assumptions) \in Nat
  BY AnswerTypes DEF AnswerInv
<1>2. i \in 1..Len(assumptions) /\ i <= Level(t)
  BY <1>1, MinOfTwo
<1> QED
  BY <1>2 DEF AnswerInv, LevelsInv, FirstLevels

\* All of the invariant.
FullInv == AnswerInv /\ UnsatInv /\ FailedInv /\ ConflictKnown

\* It is inductive too.
THEOREM FullInvariant ==
  ASSUME AdditionsFirst
  PROVE  Spec => []FullInv
<1>1. Init => FullInv
  BY AnswerInvInit DEF Init, InitWith, FullInv, UnsatInv, FailedInv, ConflictKnown
<1>2. FullInv /\ [Next]_vars => FullInv'
  BY AnswerInvStep, UnsatStep, FailedStep, ConflictKnownStep DEF FullInv, AnswerInv
<1> QED
  BY <1>1, <1>2, PTL DEF Spec

\* Whatever was kept, reused or strengthened, the trail is an implication graph
\* whose first levels decide the assumptions of this solve.
THEOREM TrailInvariant ==
  ASSUME AdditionsFirst
  PROVE  Spec => []TrailInv
<1>1. FullInv => TrailInv
  BY TypesHold, GraphIsImplication, DecidedFirst DEF FullInv, AnswerInv, TrailInv
<1> QED
  BY <1>1, FullInvariant, PTL

\* Both answers can be used: the failed assumptions are a core, the trail a model.
THEOREM AnswersAreRight ==
  ASSUME AdditionsFirst
  PROVE  Spec => []AnswersHold
<1>1. FullInv => AnswersHold
  BY FailedCore, ModelFacts, NoneFalsifiedFacts DEF FullInv, AnswerInv, AnswersHold
<1> QED
  BY <1>1, FullInvariant, PTL

-----------------------------------------------------------------------------
(* The refinement.                                                         *)

\* Nothing that the user asked for is left to satisfy.
Refuted ==
  \A T : ~(SatFormula(T, original) /\ SatFormula(T, constrained) /\ SatAll(T, Rng(assumptions)))

\* The trail implies a false assumption.
LEMMA AssumptionRefutes ==
  ASSUME AnswerInv, Searching, Level(t) < Len(assumptions), Val(t, assumptions[Level(t) + 1]) < 0
  PROVE  Refuted
<1> DEFINE a == assumptions[Level(t) + 1]
<1>1. /\ SearchInv /\ ~unsat /\ FirstLevels(assumptions, t) /\ Level(t) \in Nat /\ Len(assumptions) \in Nat
  BY SearchingAnswers, AnswerTypes DEF AnswerInv
<1>2. Level(t) + 1 \in 1..Len(assumptions) /\ Level(t) <= Len(assumptions)
  BY <1>1
<1>3. a \in Rng(assumptions)
  BY <1>1, <1>2, AnswerTypes
<1> HIDE DEF a
<1>4. a \in LitsOf(maxVar) /\ -a \in LitsOf(maxVar) /\ Val(t, -a) = 1
  BY <1>3, FalseAssumptions DEF a
<1> SUFFICES ASSUME NEW T, SatFormula(T, original), SatAll(T, Rng(assumptions)) PROVE FALSE
  BY DEF Refuted
<1>5. SatLit(T, -a)
  BY <1>1, <1>2, <1>4, TrailFollows
<1>6. SatLit(T, a)
  BY <1>3 DEF SatAll
<1> QED
  BY <1>4, <1>5, <1>6, SatNegation, <1>1, AnswerTypes

\* It implies that all literals left of the constraint are false.
LEMMA ConstraintRefutes ==
  ASSUME AnswerInv, Searching, Level(t) = Len(assumptions), constraint # {}, Falsified(t, constraint)
  PROVE  Refuted
<1>1. /\ SearchInv /\ ~unsat /\ FirstLevels(assumptions, t) /\ Level(t) \in Nat /\ Len(assumptions) \in Nat
      /\ Shape(t) /\ constraint \subseteq LitsOf(maxVar) /\ ConstraintInv /\ t \in Trails /\ Distinct(t)
  BY SearchingAnswers, AnswerTypes DEF AnswerInv, Shape
<1> SUFFICES ASSUME NEW T, SatFormula(T, original), SatAll(T, Rng(assumptions)), SatFormula(T, constrained)
             PROVE FALSE
  BY DEF Refuted
<1>2. ASSUME NEW l \in constraint PROVE ~SatLit(T, l)
  <2>1. l \in LitsOf(maxVar) /\ l \in Int /\ -l \in LitsOf(maxVar)
    BY <1>1, LitFacts
  <2>2. Val(t, l) < 0 /\ Val(t, l) \in {-1, 0, 1}
    BY <1>1, <2>1, AnswerValues DEF Falsified
  <2>3. Val(t, l) = -1
    BY <2>2
  <2>4. Val(t, -l) = 1
    BY <1>1, <2>1, <2>3, Values
  <2>5. Level(t) <= Len(assumptions)
    BY <1>1
  <2>6. SatLit(T, -l)
    BY <1>1, <2>1, <2>4, <2>5, TrailFollows
  <2> QED
    BY <2>1, <2>6, SatNegation
<1> QED
  BY <1>1, <1>2, ConstraintFails

\* So does the empty clause, or a constraint that was falsified when it was
\* given.
LEMMA UnsatRefutes ==
  ASSUME AnswerInv, pc = "search", unsat \/ unsatConstraint
  PROVE  Refuted
<1>1. SearchInv /\ ConstraintInv
  BY DEF AnswerInv
<1>2. CASE unsat
  BY <1>1, <1>2 DEF SearchInv, CoreInv, FormulaInv, Refuted
<1>3. CASE ~unsat
  <2>1. unsatConstraint /\ constraint = {}
    BY <1>1, <1>3 DEF ConstraintInv
  <2> QED
    BY <1>1, <1>3, <2>1, ConstraintFails DEF Refuted
<1> QED
  BY <1>2, <1>3

\* Both notions of satisfaction are the same, and so are the literals.
LEMMA AbstractSame ==
  /\ Abstract!Lits = LitsOf(MaxVar)
  /\ \A T, F : Abstract!SatFormula(T, F) <=> SatFormula(T, F)
  /\ \A T, A : Abstract!SatAll(T, A) <=> SatAll(T, A)
  BY DEF LitsOf, Abstract!Lits, Abstract!LitsOf,
         SatFormula, SatClause, SatLit, SatAll, Abstract!SatFormula,
         Abstract!SatClause, Abstract!SatLit, Abstract!SatAll

\* What IPASIR sees before a solve returns.
LEMMA AbstractView ==
  ASSUME pc # "done"
  PROVE  /\ Abstract!FreshAssumed = Rng(assumptions)
         /\ Abstract!FreshConstraint = constrained
  BY DEF Abstract!FreshAssumed, Abstract!FreshConstraint

\* A step that changes nothing that IPASIR sees.
LEMMA AbstractStutters ==
  ASSUME \/ pc # "done" /\ pc' # "done"
         \/ UNCHANGED <<pc, result>>,
         Rng(assumptions') = Rng(assumptions), UNCHANGED <<original, constrained>>
  PROVE  UNCHANGED Abstract!ipasirVars
<1>1. Rng(assumptions)' = Rng(assumptions)
  BY DEF Rng
<1> QED
  BY <1>1 DEF Abstract!ipasirVars

\* A solve that returns is one that IPASIR allows.
LEMMA ReturnRefines ==
  ASSUME pc = "search", UNCHANGED <<original, assumptions, constrained>>,
         NEW r \in {0, 10, 20}, pc' = "done", result' = r,
         r = 10 => \E T \in SUBSET (1..MaxVar) :
           SatFormula(T, original) /\ SatFormula(T, constrained) /\ SatAll(T, Rng(assumptions)),
         r = 20 => Refuted
  PROVE  Abstract!Solve(r)
<1>1. Abstract!FreshAssumed = Rng(assumptions) /\ Abstract!FreshConstraint = constrained
  BY AbstractView
<1>2. Abstract!Holds <=> \E T \in SUBSET (1..MaxVar) :
        SatFormula(T, original \cup constrained) /\ SatAll(T, Rng(assumptions))
  BY <1>1, AbstractSame DEF Abstract!Holds, Abstract!Satisfiable
<1>3. r = 10 => Abstract!Holds
  BY <1>2, SatUnion
<1>4. r = 20 => ~Abstract!Holds
  BY <1>2, SatUnion DEF Refuted
<1>5. Rng(assumptions)' = Rng(assumptions)
  BY DEF Rng
<1> QED
  BY <1>1, <1>3, <1>4, <1>5 DEF Abstract!Solve

\* A step of the search is one that IPASIR allows or does not see.
LEMMA SolvingRefines ==
  ASSUME AnswerInv, NoneFalsified, Solving
  PROVE  [Abstract!IpasirNext]_(Abstract!ipasirVars)
<1>1. SearchInv
  BY DEF AnswerInv
<1>2. pc # "done" /\ UNCHANGED <<original, assumptions, constrained>>
  BY <1>1, SolvingRuns DEF apiVars
<1>3. ASSUME NEW r \in {0, 10, 20}, Abstract!Solve(r) PROVE [Abstract!IpasirNext]_(Abstract!ipasirVars)
  BY <1>3 DEF Abstract!IpasirNext
<1>4. CASE pc' # "done"
  BY <1>2, <1>4, AbstractStutters
<1>5. CASE ReturnUnsat
  <2>1. pc = "search" /\ (unsat \/ unsatConstraint) /\ pc' = "done" /\ result' = 20
    BY <1>5 DEF ReturnUnsat, Return
  <2>2. Refuted
    BY <2>1, UnsatRefutes
  <2>3. Abstract!Solve(20)
    BY <1>2, <2>1, <2>2, ReturnRefines
  <2> QED
    BY <1>3, <2>3
<1>6. CASE ReturnSat
  <2> DEFINE T == TrueLits(t) \cap Vars
  <2>1. pc = "search" /\ Searching /\ SatisfiedAll /\ pc' = "done" /\ result' = 10
    BY <1>6 DEF ReturnSat, Return, Searching
  <2>2. ~unsat /\ ~unsatConstraint /\ Propagated
    BY <2>1 DEF Searching
  <2>3. T \in SUBSET (1..MaxVar)
    <3>1. maxVar \in Nat /\ maxVar <= MaxVar /\ MaxVar \in Nat
      BY <1>1, ConstantTypes DEF SearchInv, ApiTypes
    <3> QED
      BY <3>1 DEF Vars
  <2>4. SatFormula(T, original) /\ SatFormula(T, constrained) /\ SatAll(T, Rng(assumptions))
    <3>1. T = TrueLits(t) \cap Vars
      OBVIOUS
    <3> HIDE DEF T
    <3> QED
      BY <2>1, <2>2, <3>1, TrailAnswers
  <2> HIDE DEF T
  <2>5. Abstract!Solve(10)
    BY <1>2, <2>1, <2>3, <2>4, ReturnRefines
  <2> QED
    BY <1>3, <2>5
<1>7. CASE ReturnUnknown
  <2>1. pc = "search" /\ pc' = "done" /\ result' = 0
    BY <1>7 DEF ReturnUnknown, Return, Searching
  <2>2. Abstract!Solve(0)
    BY <1>2, <2>1, ReturnRefines
  <2> QED
    BY <1>3, <2>2
<1>8. CASE DecideAssumption /\ pc' = "done"
  <2>1. /\ pc = "search" /\ Searching /\ Level(t) < Len(assumptions)
        /\ Val(t, assumptions[Level(t) + 1]) < 0 /\ result' = 20
    BY <1>2, <1>8 DEF DecideAssumption, Return, Searching
  <2>2. Refuted
    BY <2>1, AssumptionRefutes
  <2>3. Abstract!Solve(20)
    BY <1>2, <1>8, <2>1, <2>2, ReturnRefines
  <2> QED
    BY <1>3, <2>3
<1>9. CASE DecideConstraint /\ pc' = "done"
  <2>1. /\ pc = "search" /\ Searching /\ Level(t) = Len(assumptions) /\ constraint # {}
        /\ Falsified(t, constraint) /\ result' = 20
    BY <1>2, <1>9 DEF DecideConstraint, Return, Searching
  <2>2. Refuted
    BY <2>1, ConstraintRefutes
  <2>3. Abstract!Solve(20)
    BY <1>2, <1>9, <2>1, <2>2, ReturnRefines
  <2> QED
    BY <1>3, <2>3
<1>10. CASE Propagate
  <2>1. pc' = pc
    BY <1>10 DEF Propagate, PropagateLiteral, Visit, Visited, PropagateBinary, StopAtLong, SkipLong,
                 ReplaceWatch, PropagateUnit, FindConflict
  <2> QED
    BY <1>2, <1>4, <2>1
<1>11. CASE AnalyzeStep \/ LearnEmptyClause \/ Restart \/ StartReduce \/ Reduce \/ DecideVariable
  <2>1. pc' \in {pc, "search", "reduce"}
    BY <1>11 DEF AnalyzeStep, LearnEmptyClause, Restart, StartReduce, Reduce, DecideVariable
  <2> QED
    BY <1>2, <1>4, <2>1
<1> QED
  BY <1>4, <1>5, <1>6, <1>7, <1>8, <1>9, <1>10, <1>11 DEF Solving

\* What the user adds are clauses and literals of IPASIR.
LEMMA CallsAreTyped ==
  ASSUME SearchInv, input # <<>>
  PROVE  /\ input[1].add # <<>> => Rng(Head(input[1].add)) \in SUBSET LitsOf(MaxVar)
         /\ input[1].assume # <<>> => Head(input[1].assume) \in LitsOf(MaxVar)
         /\ input[1].constrain # {} => (CHOOSE c \in input[1].constrain : TRUE) \in SUBSET LitsOf(MaxVar)
<1>1. /\ input[1].add \in Seq(ClausesAdded) /\ input[1].assume \in Seq(LitsOf(MaxVar))
      /\ input[1].constrain \subseteq SUBSET LitsOf(MaxVar)
  BY InputTypes
<1>2. ASSUME input[1].add # <<>> PROVE Rng(Head(input[1].add)) \in SUBSET LitsOf(MaxVar)
  <2>1. Head(input[1].add) \in ClausesAdded
    BY <1>1, <1>2
  <2>2. Head(input[1].add) \in Seq(LitsOf(MaxVar))
    BY <2>1 DEF ClausesAdded
  <2> QED
    BY <2>2 DEF Rng
<1>3. input[1].assume # <<>> => Head(input[1].assume) \in LitsOf(MaxVar)
  BY <1>1
<1> QED
  BY <1>1, <1>2, <1>3

\* So is a call of the user.
LEMMA UserRefines ==
  ASSUME AnswerInv, User
  PROVE  [Abstract!IpasirNext]_(Abstract!ipasirVars)
<1>1. SearchInv /\ SearchInv'
  BY UserStep DEF AnswerInv
<1>2. CASE NextRound
  <2>1. /\ pc' = "ready" /\ assumptions' = <<>> /\ constrained' = {} /\ original' = original
    BY <1>2 DEF NextRound
  <2>2. Rng(assumptions)' = {}
    BY <2>1 DEF Rng
  <2>3. Abstract!Forget
    BY <2>1, <2>2 DEF Abstract!Forget
  <2> QED
    BY <2>3 DEF Abstract!IpasirNext
<1>3. CASE MarkFailed
  <2>1. UNCHANGED <<pc, result, original, assumptions, constrained>>
    BY <1>3 DEF MarkFailed, apiVars
  <2> QED
    BY <2>1, AbstractStutters
<1>4. CASE AddClause
  <2> DEFINE c == Rng(Head(input[1].add))
  <2>1. /\ pc = "ready" /\ pc' = "ready" /\ input # <<>> /\ input[1].add # <<>>
        /\ original' = original \cup {c} /\ UNCHANGED <<assumptions, constrained>>
    BY <1>4 DEF AddClause, Ready
  <2>2. c \in SUBSET LitsOf(MaxVar)
    BY <1>1, <2>1, CallsAreTyped
  <2> HIDE DEF c
  <2>3. Rng(assumptions)' = Rng(assumptions)
    BY <2>1 DEF Rng
  <2>4. Abstract!AddClauses({c})
    BY <2>1, <2>3, AbstractView DEF Abstract!AddClauses
  <2> QED
    BY <2>2, <2>4, AbstractSame DEF Abstract!IpasirNext
<1>5. CASE Assume
  <2> DEFINE l == Head(input[1].assume)
  <2>1. /\ pc = "ready" /\ pc' = "ready" /\ input # <<>> /\ input[1].assume # <<>>
        /\ assumptions' = IF l \in Rng(assumptions) THEN assumptions ELSE Append(assumptions, l)
        /\ UNCHANGED <<original, constrained>>
    BY <1>5 DEF Assume, Ready
  <2>2. l \in LitsOf(MaxVar)
    BY <1>1, <2>1, CallsAreTyped
  <2> HIDE DEF l
  <2>3. Rng(assumptions') = Rng(assumptions) \cup {l}
    <3>1. assumptions \in Seq(LitsOf(maxVar))
      BY <1>1, AnswerTypes
    <3>2. Rng(Append(assumptions, l)) = Rng(assumptions) \cup {l}
      BY <3>1, AppendRange
    <3> QED
      BY <2>1, <3>2
  <2>4. Rng(assumptions)' = Rng(assumptions) \cup {l}
    BY <2>3 DEF Rng
  <2>5. Abstract!AssumeLits({l})
    BY <2>1, <2>4, AbstractView DEF Abstract!AssumeLits
  <2> QED
    BY <2>2, <2>5, AbstractSame DEF Abstract!IpasirNext
<1>6. CASE Constrain
  <2> DEFINE c == CHOOSE c \in input[1].constrain : TRUE
  <2>1. /\ pc = "ready" /\ pc' = "ready" /\ input # <<>> /\ input[1].constrain # {}
        /\ constrained' = {c} /\ UNCHANGED <<original, assumptions>>
    BY <1>6 DEF Constrain, Ready
  <2>2. c \in SUBSET LitsOf(MaxVar)
    BY <1>1, <2>1, CallsAreTyped
  <2> HIDE DEF c
  <2>3. Rng(assumptions)' = Rng(assumptions)
    BY <2>1 DEF Rng
  <2>4. Abstract!Constrain(c)
    BY <2>1, <2>3, AbstractView DEF Abstract!Constrain
  <2> QED
    BY <2>2, <2>4, AbstractSame DEF Abstract!IpasirNext
<1>7. CASE Solve
  <2>1. pc = "ready" /\ pc' = "search" /\ UNCHANGED <<original, constrained>>
    BY <1>7 DEF Solve, Ready
  <2>2. assumptions' = assumptions \/ assumptions' \in SortedAssumptions
    BY <1>7 DEF Solve
  <2>3. Rng(assumptions') = Rng(assumptions)
    BY <2>2 DEF SortedAssumptions
  <2> QED
    BY <2>1, <2>3, AbstractStutters
<1> QED
  BY <1>2, <1>3, <1>4, <1>5, <1>6, <1>7 DEF User

\* The search answers as the IPASIR interface promises: what it returns is about
\* the clauses, the assumptions and the constraint given before the solve.
THEOREM SearchRefinesIpasir ==
  ASSUME AdditionsFirst
  PROVE  Spec => ImplementsIpasir
<1>1. Init => Abstract!IpasirInit
  BY DEF Init, InitWith, Abstract!IpasirInit, Rng
<1>2. FullInv /\ [Next]_vars => [Abstract!IpasirNext]_(Abstract!ipasirVars)
  <2> SUFFICES ASSUME FullInv, [Next]_vars PROVE [Abstract!IpasirNext]_(Abstract!ipasirVars)
    OBVIOUS
  <2>1. AnswerInv /\ NoneFalsified
    BY NoneFalsifiedFacts DEF FullInv, AnswerInv
  <2>2. CASE UNCHANGED vars
    <3>1. UNCHANGED <<pc, result, original, assumptions, constrained>>
      BY <2>2 DEF vars, apiVars
    <3> QED
      BY <3>1, AbstractStutters
  <2> QED
    BY <2>1, <2>2, SolvingRefines, UserRefines DEF Next
<1> QED
  BY <1>1, <1>2, FullInvariant, PTL DEF Spec, ImplementsIpasir, Abstract!IpasirSpec
-----------------------------------------------------------------------------
(* Flips. *)

\* In a found assignment a literal is either true or false.
LEMMA FoundValues ==
  ASSUME FlipTypeOK, SATISFIED
  PROVE  \A l \in LitsOf(maxVar) :
           /\ Val(t, l) > 0 \/ Val(t, l) < 0
           /\ Val(t, l) > 0 <=> l \in TrueLits(t)
           /\ Val(t, l) < 0 <=> -l \in TrueLits(t)
           /\ ~(Val(t, l) > 0 /\ Val(t, l) < 0)
           /\ Val(t, l) > 0 <=> Val(t, -l) < 0
<1> SUFFICES ASSUME NEW l \in LitsOf(maxVar)
             PROVE  /\ Val(t, l) > 0 \/ Val(t, l) < 0
                    /\ Val(t, l) > 0 <=> l \in TrueLits(t)
                    /\ Val(t, l) < 0 <=> -l \in TrueLits(t)
                    /\ ~(Val(t, l) > 0 /\ Val(t, l) < 0)
                    /\ Val(t, l) > 0 <=> Val(t, -l) < 0
  OBVIOUS
<1>1. (l \in TrueLits(t)) # (-l \in TrueLits(t)) /\ -(-l) = l
  BY LitFacts DEF FlipTypeOK
<1> QED
  BY <1>1 DEF Val

\* The literal of a variable that is true.
LEMMA FoundLit ==
  ASSUME FlipTypeOK, SATISFIED, NEW v \in Vars
  PROVE  /\ TrueLit(v) \in LitsOf(maxVar) /\ VarOf(TrueLit(v)) = v
         /\ Val(t, TrueLit(v)) > 0
         /\ \A k \in LitsOf(maxVar) : VarOf(k) = v => k = TrueLit(v) \/ k = -TrueLit(v)
<1>1. v \in Int /\ v > 0 /\ v \in LitsOf(maxVar) /\ -v \in LitsOf(maxVar) /\ -(-v) = v
  BY DEF Vars, LitsOf
<1>2. Val(t, v) > 0 \/ Val(t, -v) > 0
  BY <1>1, FoundValues
<1>3. \A k \in LitsOf(maxVar) : VarOf(k) = v => k = v \/ k = -v
  BY <1>1, LitFacts DEF VarOf
<1> QED
  BY <1>1, <1>2, <1>3 DEF TrueLit, VarOf

\* A database propergate may leave: the same clauses, every one of which
\* watches two of its literals, one of them true unless the clause is garbage.
PropergatedDb(d) ==
  /\ DOMAIN d = Ids
  /\ \A i \in Ids :
       /\ d[i].lits = db[i].lits /\ d[i].garbage = db[i].garbage
       /\ \E a, b \in db[i].lits : a # b /\ d[i].watch = {a, b}
       /\ Long(i) \/ d[i].watch = db[i].lits
       /\ i \in WatchedIds => Satisfied(t, d[i].watch)

\* propergate leaves such a database.
LEMMA PropergateFacts ==
  ASSUME FlipTypeOK, BlockedAreVisited, SATISFIED, NEW d \in Propergate
  PROVE  PropergatedDb(d)
<1> DEFINE w == [i \in Blocked |-> FirstVisited(i)]
<1>1. PICK r \in Replacements(db, Blocked) : d = MoveWatches(db, w, r)
  BY DEF Propergate
<1>2. /\ DOMAIN r = Blocked
      /\ \A i \in Blocked : r[i] \in TrueLits(t) /\ r[i] \in db[i].lits \ db[i].watch
  BY <1>1 DEF Replacements
<1>3. DOMAIN d = Ids
  BY <1>1 DEF MoveWatches, Ids
<1>4. FlipTypeOK /\ BlockedAreVisited
  OBVIOUS
<1> SUFFICES ASSUME NEW i \in Ids
             PROVE  /\ d[i].lits = db[i].lits /\ d[i].garbage = db[i].garbage
                    /\ \E a, b \in db[i].lits : a # b /\ d[i].watch = {a, b}
                    /\ Long(i) \/ d[i].watch = db[i].lits
                    /\ i \in WatchedIds => Satisfied(t, d[i].watch)
  BY <1>3 DEF PropergatedDb
<1>5. PICK a \in db[i].lits, b \in db[i].lits : a # b /\ db[i].watch = {a, b}
  BY <1>4 DEF FlipTypeOK
<1>6. CASE i \in Blocked
  <2>1. d[i] = [db[i] EXCEPT !.watch = (@ \ {w[i]}) \cup {r[i]}] /\ w[i] = FirstVisited(i)
    BY <1>1, <1>2, <1>6 DEF MoveWatches, Ids
  <2>2. db[i].watch \cap Unpropergated # {}
    BY <1>6 DEF Blocked
  <2>3. w[i] \in db[i].watch
    <3>1. \A x \in Unpropergated : Pos(t, x) \in Int
      <4> SUFFICES ASSUME NEW x \in Unpropergated
                   PROVE  Pos(t, x) \in Int
        OBVIOUS
      <4>1. PICK k \in propergated + 1..Len(t.trail) : x = -t.trail[k].lit
        BY DEF Unpropergated
      <4>2. k \in Positions(t)
        BY <1>4 DEF FlipTypeOK, Positions
      <4>3. t.trail[k].lit = -x
        BY <4>1, <4>2, <1>4, LitFacts DEF FlipTypeOK
      <4>4. Pos(t, x) \in Positions(t)
        BY <4>2, <4>3 DEF Pos
      <4> QED
        BY <4>4 DEF Positions
    <3>2. \E x \in db[i].watch \cap Unpropergated :
            \A k \in db[i].watch \cap Unpropergated : Pos(t, x) <= Pos(t, k)
      BY <2>2, <1>5, <3>1
    <3> QED
      BY <3>2, <2>1 DEF FirstVisited
  <2>4. /\ d[i].lits = db[i].lits /\ d[i].garbage = db[i].garbage
        /\ d[i].watch = (db[i].watch \ {w[i]}) \cup {r[i]}
    BY <2>1, <1>4 DEF FlipTypeOK
  <2>5. \E x, y \in db[i].lits : x # y /\ d[i].watch = {x, y}
    BY <2>3, <2>4, <1>2, <1>5, <1>6
  <2>6. Long(i)
    BY <1>6 DEF Blocked
  <2>7. r[i] \in LitsOf(maxVar) /\ r[i] \in TrueLits(t)
    BY <1>2, <1>4, <1>6 DEF FlipTypeOK
  <2>8. Val(t, r[i]) > 0
    BY <2>7 DEF Val
  <2> QED
    BY <2>4, <2>5, <2>6, <2>8 DEF Satisfied
<1>7. CASE i \notin Blocked
  <2>1. d[i] = db[i]
    BY <1>1, <1>2, <1>7 DEF MoveWatches, Ids
  <2>2. Long(i) \/ db[i].watch = db[i].lits
    BY <1>4 DEF FlipTypeOK
  <2>3. i \in WatchedIds => Satisfied(t, db[i].watch)
    BY <1>4, <1>7 DEF BlockedAreVisited, WatchedIds, Blocked, Ids
  <2> QED
    BY <2>1, <2>2, <2>3, <1>5
<1> QED
  BY <1>6, <1>7

\* What a clause of d that watches the true literal l says about flipping it.
LEMMA MayFlipExactly ==
  ASSUME FlipTypeOK, SATISFIED, NEW v \in Vars, NEW d, PropergatedDb(d)
  PROVE  MayFlip(d, TrueLit(v)) <=> StaySatisfied(v)
<1> DEFINE l == TrueLit(v)
<1>1. /\ l \in LitsOf(maxVar) /\ VarOf(l) = v /\ Val(t, l) > 0
      /\ \A k \in LitsOf(maxVar) : VarOf(k) = v => k = l \/ k = -l
  BY FoundLit
<1>2. \A k \in LitsOf(maxVar) : /\ Val(t, k) > 0 \/ Val(t, k) < 0
                                /\ ~(Val(t, k) > 0 /\ Val(t, k) < 0)
                                /\ Val(t, k) > 0 <=> Val(t, -k) < 0
  BY FoundValues
<1>3. \A i \in Ids : db[i].lits \subseteq LitsOf(maxVar) /\ (l \in db[i].lits => -l \notin db[i].lits)
  BY DEF FlipTypeOK
<1>4. DOMAIN d = Ids
  BY DEF PropergatedDb
<1>5. ASSUME NEW i \in Ids
      PROVE  /\ d[i].lits = db[i].lits /\ d[i].garbage = db[i].garbage
             /\ \E a, b \in db[i].lits : a # b /\ d[i].watch = {a, b}
             /\ Long(i) \/ d[i].watch = db[i].lits
             /\ i \in WatchedIds => Satisfied(t, d[i].watch)
  BY DEF PropergatedDb
<1> HIDE DEF l
\* A literal that keeps a clause satisfied is another true one.
<1>6. ASSUME NEW i \in Ids, NEW k \in db[i].lits, l \in db[i].lits
      PROVE  (IF VarOf(k) = v THEN Val(t, k) < 0 ELSE Val(t, k) > 0) <=> k # l /\ Val(t, k) > 0
  BY <1>1, <1>2, <1>3, <1>6
<1>7. ASSUME StaySatisfied(v), NEW i \in Ids, i \in Depending(d, l), i \in WatchedIds
      PROVE  Long(i) /\ Satisfied(t, db[i].lits \ d[i].watch)
  <2>1. l \in d[i].watch /\ \A k \in d[i].watch \ {l} : Val(t, k) < 0
    BY <1>7 DEF Depending
  <2>2. l \in db[i].lits
    BY <2>1, <1>5
  <2>3. PICK k \in db[i].lits : k # l /\ Val(t, k) > 0
    BY <1>7, <1>6, <2>2 DEF StaySatisfied
  <2>4. k \notin d[i].watch
    BY <2>1, <2>3, <1>2, <1>3
  <2> QED
    BY <2>3, <2>4, <1>5 DEF Satisfied
<1>8. StaySatisfied(v) => MayFlip(d, l)
  <2> SUFFICES ASSUME StaySatisfied(v)
               PROVE  MayFlip(d, l)
    OBVIOUS
  <2>1. ~Stuck(d, l)
    <3> SUFFICES ASSUME NEW i \in Depending(d, l), ~Long(i)
                 PROVE  FALSE
      BY DEF Stuck
    <3>1. i \in Ids /\ i \in WatchedIds
      BY <1>4 DEF Depending, WatchedIds
    <3> QED
      BY <3>1, <1>7
  <2>2. ASSUME NEW i \in Dependent(d, l)
        PROVE  i \in Movable(d, l)
    <3>1. i \in Ids /\ i \in Depending(d, l) /\ ~d[i].garbage
      BY <1>4 DEF Dependent, Depending
    <3>2. i \in WatchedIds
      BY <3>1, <1>5 DEF WatchedIds
    <3>3. Satisfied(t, d[i].lits \ d[i].watch)
      BY <3>1, <3>2, <1>5, <1>7
    <3> QED
      BY <3>3 DEF Movable
  <2> QED
    BY <2>1, <2>2 DEF MayFlip, Movable
<1>9. ASSUME MayFlip(d, l), NEW i \in WatchedIds
      PROVE  \E k \in db[i].lits : IF VarOf(k) = v THEN Val(t, k) < 0 ELSE Val(t, k) > 0
  <2>1. i \in Ids
    BY DEF WatchedIds
  <2>2. PICK k \in d[i].watch : Val(t, k) > 0
    BY <2>1, <1>5 DEF Satisfied
  <2>3. d[i].watch \subseteq db[i].lits
    BY <2>1, <1>5
  <2>4. CASE l \notin d[i].watch
    <3>1. VarOf(k) # v
      <4>1. k \in LitsOf(maxVar) /\ k # l
        BY <2>1, <2>2, <2>3, <2>4, <1>3
      <4>2. k # -l
        BY <4>1, <1>1, <1>2, <2>2
      <4> QED
        BY <4>1, <4>2, <1>1
    <3> QED
      BY <3>1, <2>2, <2>3
  <2>5. CASE l \in d[i].watch
    <3>1. CASE \E m \in d[i].watch \ {l} : ~(Val(t, m) < 0)
      <4>1. PICK m \in d[i].watch \ {l} : Val(t, m) > 0
        BY <3>1, <2>1, <2>3, <1>2, <1>3
      <4> QED
        BY <4>1, <2>1, <2>3, <2>5, <1>6
    <3>2. CASE \A m \in d[i].watch \ {l} : Val(t, m) < 0
      <4>1. i \in Depending(d, l)
        BY <2>1, <2>5, <3>2, <1>4 DEF Depending
      <4>2. Long(i)
        BY <4>1, <1>9 DEF MayFlip, Stuck
      <4>3. ~d[i].garbage
        BY <2>1, <1>5, <4>2 DEF WatchedIds
      <4>4. i \in Movable(d, l)
        BY <4>1, <4>2, <4>3, <1>9 DEF MayFlip, Dependent
      <4>5. PICK m \in db[i].lits \ d[i].watch : Val(t, m) > 0
        BY <4>4, <2>1, <1>5 DEF Movable, Satisfied
      <4> QED
        BY <4>5, <2>1, <2>3, <2>5, <1>6
    <3> QED
      BY <3>1, <3>2
  <2> QED
    BY <2>4, <2>5
<1> QED
  BY <1>8, <1>9 DEF StaySatisfied, l

\* Whatever the formula, the trail and the calls before, flip () and flippable ()
\* say yes exactly when the other value satisfies every clause, as long as every
\* clause without a true watch will be visited: it is enough that propergate
\* visits the watches of the literals after propergated and that both calls look
\* at the clauses that watch the literal.
THEOREM FlipsAnswerExactly ==
  FlipSpec /\ [](FlipTypeOK /\ BlockedAreVisited) => FlipAnswers
<1>1. ASSUME FlipTypeOK, BlockedAreVisited,
             NEW v \in Vars, FlipCalled(v) \/ FlippableCalled(v)
      PROVE  answer' <=> StaySatisfied(v)
  <2>1. SATISFIED
    BY <1>1 DEF FlipCalled, FlippableCalled
  <2>2. PICK d \in Propergate : answer' = MayFlip(d, TrueLit(v))
    BY <1>1 DEF FlipCalled, FlippableCalled
  <2>3. PropergatedDb(d)
    BY <1>1, <2>1, PropergateFacts
  <2>4. MayFlip(d, TrueLit(v)) <=> StaySatisfied(v)
    BY <1>1, <2>1, <2>3, MayFlipExactly
  <2> QED
    BY <2>2, <2>4
<1>2. FlipTypeOK /\ BlockedAreVisited => [\A v \in Vars :
        FlipCalled(v) \/ FlippableCalled(v) => (answer' <=> StaySatisfied(v))]_<<vars, flipVars>>
  BY <1>1
<1> QED
  BY <1>2, PTL DEF FlipSpec, FlipAnswers
=============================================================================
