---------------------------- MODULE TrailProofs ----------------------------
(***************************************************************************)
(* What holds of the assignment stack of CaDiCaL and of the conflict       *)
(* analysis, for every trail and every clause database: which trails the   *)
(* search can have (Shape), what assigning, deciding and backtracking make *)
(* of them, and that the clause an analysis ends with follows from the     *)
(* clauses it started from and drives the search.                          *)
(***************************************************************************)
EXTENDS Analyze, SequenceLemmas, FiniteSetTheorems

-----------------------------------------------------------------------------
(* Numbers. *)

\* A bounded set of natural numbers with an element has a greatest one, and
\* Max is it.
LEMMA MaxIsGreatest ==
  ASSUME NEW S, S \subseteq Nat, S # {}, NEW n \in Nat, \A x \in S : x <= n
  PROVE  Max(S) \in S /\ \A x \in S : x <= Max(S)
<1> DEFINE T == {n - x : x \in S}
<1>1. T \subseteq Nat /\ T # {}
  <2>1. \A x \in S : n - x \in Nat
    OBVIOUS
  <2> QED
    BY <2>1
<1>2. PICK d \in T : \A e \in T : d <= e
  BY <1>1, NatLeast
<1>3. PICK m \in S : d = n - m
  BY <1>2
<1>4. \A x \in S : m >= x
  <2> SUFFICES ASSUME NEW x \in S PROVE m >= x
    OBVIOUS
  <2>1. d <= n - x
    BY <1>2
  <2> QED
    BY <2>1, <1>3
<1> HIDE DEF T
<1>5. Max(S) \in S /\ \A x \in S : Max(S) >= x
  BY <1>3, <1>4 DEF Max
<1> QED
  BY <1>5

\* Min is the least element of a set of natural numbers.
LEMMA MinIsLeast ==
  ASSUME NEW S, S \subseteq Nat, S # {}
  PROVE  Min(S) \in S /\ \A x \in S : Min(S) <= x
<1>1. PICK m \in S : \A x \in S : m <= x
  BY NatLeast
<1> QED
  BY <1>1 DEF Min

\* The smaller of two numbers.
LEMMA MinOfTwo ==
  ASSUME NEW a \in Nat, NEW b \in Nat
  PROVE  Min({a, b}) = IF a <= b THEN a ELSE b
<1>1. Min({a, b}) \in {a, b} /\ \A x \in {a, b} : Min({a, b}) <= x
  <2> HIDE DEF Min
  <2> QED
    BY MinIsLeast
<1> QED
  BY <1>1

-----------------------------------------------------------------------------
(* The trails of the search. *)

\* An assigned literal, its level and the clause it is propagated by.
Assignments == [lit : Int, level : Nat, reason : Nat]

\* Where a level starts and the literal it decides.
Controls == [trail : Nat, decision : Int]

\* The types of a trail.
Trails == [trail : Seq(Assignments),
           control : Seq(Controls),
           propagated : Nat]

\* No variable is assigned twice.
Distinct(t) ==
  \A k \in Positions(t) :
    /\ t.trail[k].lit # 0
    /\ \A j \in Positions(t) \ {k} :
         t.trail[j].lit # t.trail[k].lit /\ t.trail[j].lit # -t.trail[k].lit

\* The levels grow, and strictly if they decide something.
Heights(t) ==
  \A i \in 1..Level(t) :
    /\ t.control[i].trail <= Len(t.trail)
    /\ \A j \in i..Level(t) : t.control[i].trail <= t.control[j].trail
    /\ t.control[i].decision # 0 =>
         /\ t.control[i].trail < Len(t.trail)
         /\ \A j \in i + 1..Level(t) : t.control[i].trail < t.control[j].trail
         /\ t.trail[t.control[i].trail + 1] =
              [lit |-> t.control[i].decision, level |-> i, reason |-> NoReason]

\* A literal of a level lies above the start of it, and only the first one
\* has no reason.
Placed(t) ==
  \A k \in Positions(t) :
    /\ t.trail[k].level <= Level(t)
    /\ \A i \in 1..t.trail[k].level : t.control[i].trail < k
    /\ t.trail[k].reason = NoReason /\ t.trail[k].level > 0 =>
         /\ t.control[t.trail[k].level].trail + 1 = k
         /\ t.control[t.trail[k].level].decision = t.trail[k].lit

\* The trails a search can have.
Shape(t) ==
  /\ t \in Trails
  /\ Distinct(t) /\ Heights(t) /\ Placed(t)
  /\ t.propagated <= Len(t.trail)
  /\ Level(t) > 0 => t.control[Level(t)].trail <= t.propagated

\* Facts about the types of a trail.
LEMMA TrailTypes ==
  ASSUME NEW t \in Trails
  PROVE  /\ Len(t.trail) \in Nat /\ Level(t) \in Nat /\ t.propagated \in Nat
         /\ Positions(t) \subseteq Nat
         /\ \A k \in Positions(t) :
              /\ t.trail[k] \in Assignments
              /\ t.trail[k].lit \in Int /\ t.trail[k].level \in Nat /\ t.trail[k].reason \in Nat
         /\ \A i \in 1..Level(t) : t.control[i].trail \in Nat /\ t.control[i].decision \in Int
<1>1. t.trail \in Seq(Assignments) /\ t.propagated \in Nat
      /\ t.control \in Seq(Controls)
  BY DEF Trails
<1>2. \A k \in Positions(t) : t.trail[k] \in Assignments
  BY <1>1 DEF Positions
<1>3. \A i \in 1..Level(t) : t.control[i] \in Controls
  BY <1>1 DEF Level
<1> QED
  BY <1>1, <1>2, <1>3, SMTT(40) DEF Positions, Level, Assignments, Controls

\* Changing one field of a trail.
LEMMA TrailFields ==
  ASSUME NEW t \in Trails, NEW x
  PROVE  /\ [t EXCEPT !.trail = x] =
              [trail |-> x, control |-> t.control, propagated |-> t.propagated]
         /\ [t EXCEPT !.control = x] =
              [trail |-> t.trail, control |-> x, propagated |-> t.propagated]
         /\ [t EXCEPT !.propagated = x] =
              [trail |-> t.trail, control |-> t.control, propagated |-> x]
BY DEF Trails

\* The value, position and level of the literals at a position of the trail.
LEMMA AtPosition ==
  ASSUME NEW t \in Trails, Distinct(t), NEW k \in Positions(t),
         NEW l \in {t.trail[k].lit, -t.trail[k].lit}
  PROVE  /\ Pos(t, l) = k /\ LevelOf(t, l) = t.trail[k].level
         /\ l = t.trail[k].lit => Val(t, l) = 1
         /\ l = -t.trail[k].lit => Val(t, l) = -1
<1>1. t.trail[k].lit \in {l, -l} /\ l \in Int /\ t.trail[k].lit \in Int
  BY TrailTypes
<1>2. \A j \in Positions(t) : t.trail[j].lit \in {l, -l} => j = k
  <2> SUFFICES ASSUME NEW j \in Positions(t), t.trail[j].lit \in {l, -l} PROVE j = k
    OBVIOUS
  <2>1. t.trail[j].lit = t.trail[k].lit \/ t.trail[j].lit = -t.trail[k].lit
    BY <1>1, TrailTypes
  <2> QED
    BY <2>1 DEF Distinct
<1>3. Pos(t, l) = k
  BY <1>1, <1>2 DEF Pos
<1>4. t.trail[k].lit \in TrueLits(t) /\ t.trail[k].lit # 0
  BY DEF TrueLits, Distinct
<1>5. -t.trail[k].lit \notin TrueLits(t)
  <2> SUFFICES ASSUME NEW j \in Positions(t), t.trail[j].lit = -t.trail[k].lit
               PROVE  FALSE
    BY DEF TrueLits
  <2>1. CASE j = k
    BY <2>1, <1>4, TrailTypes
  <2>2. CASE j # k
    BY <2>2 DEF Distinct
  <2> QED
    BY <2>1, <2>2
<1>6. l = -t.trail[k].lit => -l = t.trail[k].lit
  BY <1>1
<1> QED
  BY <1>3, <1>4, <1>5, <1>6 DEF LevelOf, Val

\* A literal is true, false or unassigned, and where the first two are.
LEMMA Values ==
  ASSUME NEW t \in Trails, Distinct(t), NEW l \in Int
  PROVE  /\ Val(t, l) \in {-1, 0, 1}
         /\ Val(t, l) = 1 <=> \E k \in Positions(t) : t.trail[k].lit = l
         /\ Val(t, l) = -1 <=> \E k \in Positions(t) : t.trail[k].lit = -l
         /\ Val(t, l) = 1 <=> Val(t, -l) = -1
         /\ Val(t, l) = -1 <=> Val(t, -l) = 1
         /\ Val(t, l) # 0 => /\ Pos(t, l) \in Positions(t)
                             /\ LevelOf(t, l) = t.trail[Pos(t, l)].level
                             /\ t.trail[Pos(t, l)].lit = IF Val(t, l) = 1 THEN l ELSE -l
                             /\ Pos(t, -l) = Pos(t, l) /\ LevelOf(t, -l) = LevelOf(t, l)
<1>0. -l \in Int /\ -(-l) = l
  OBVIOUS
<1>1. ASSUME NEW m \in Int
      PROVE  /\ Val(t, m) \in {-1, 0, 1}
             /\ Val(t, m) = 1 <=> \E k \in Positions(t) : t.trail[k].lit = m
             /\ Val(t, m) = -1 <=> \E k \in Positions(t) : t.trail[k].lit = -m
  <2>1. ASSUME NEW k \in Positions(t), t.trail[k].lit = -m PROVE Val(t, m) = -1
    <3>1. m = -t.trail[k].lit
      BY <2>1
    <3> QED
      BY <3>1, AtPosition
  <2>2. ASSUME NEW k \in Positions(t), t.trail[k].lit = m PROVE Val(t, m) = 1
    BY <2>2, AtPosition
  <2>3. /\ Val(t, m) = 1 => \E k \in Positions(t) : t.trail[k].lit = m
        /\ Val(t, m) = -1 => \E k \in Positions(t) : t.trail[k].lit = -m
        /\ Val(t, m) \in {-1, 0, 1}
    BY DEF Val, TrueLits
  <2> QED
    BY <2>1, <2>2, <2>3
<1>2. /\ Val(t, l) = 1 <=> Val(t, -l) = -1
      /\ Val(t, l) = -1 <=> Val(t, -l) = 1
  BY <1>0, <1>1
<1>3. ASSUME Val(t, l) # 0
      PROVE  /\ Pos(t, l) \in Positions(t)
             /\ LevelOf(t, l) = t.trail[Pos(t, l)].level
             /\ t.trail[Pos(t, l)].lit = IF Val(t, l) = 1 THEN l ELSE -l
             /\ Pos(t, -l) = Pos(t, l) /\ LevelOf(t, -l) = LevelOf(t, l)
  <2>1. PICK k \in Positions(t) : t.trail[k].lit = IF Val(t, l) = 1 THEN l ELSE -l
    BY <1>1, <1>3
  <2>2. t.trail[k].lit \in {l, -l} /\ t.trail[k].lit \in Int
    BY <2>1
  <2>3. l \in {t.trail[k].lit, -t.trail[k].lit} /\ -l \in {t.trail[k].lit, -t.trail[k].lit}
    BY <2>2
  <2>4. Pos(t, l) = k /\ Pos(t, -l) = k
    BY <2>3, AtPosition
  <2> QED
    BY <2>1, <2>4 DEF LevelOf
<1> QED
  BY <1>1, <1>2, <1>3

-----------------------------------------------------------------------------
(* Assigning and deciding. *)

\* A literal that was not assigned is put on top of the trail.
OnTop(t, u, e) == u.trail = Append(t.trail, e)

\* Nothing changes for the literals below.
LEMMA OnTopView ==
  ASSUME NEW t \in Trails, Distinct(t), NEW u \in Trails, NEW e \in Assignments,
         OnTop(t, u, e), e.lit # 0, Val(t, e.lit) = 0
  PROVE  /\ Len(u.trail) = Len(t.trail) + 1
         /\ Positions(u) = Positions(t) \cup {Len(t.trail) + 1}
         /\ \A k \in Positions(t) : u.trail[k] = t.trail[k]
         /\ u.trail[Len(t.trail) + 1] = e
         /\ Distinct(u)
         /\ \A l \in Int :
              IF Val(t, l) # 0
              THEN Val(u, l) = Val(t, l) /\ Pos(u, l) = Pos(t, l) /\ LevelOf(u, l) = LevelOf(t, l)
              ELSE /\ Val(u, l) = IF l = e.lit THEN 1 ELSE IF l = -e.lit THEN -1 ELSE 0
                   /\ l \in {e.lit, -e.lit} =>
                        Pos(u, l) = Len(t.trail) + 1 /\ LevelOf(u, l) = e.level
<1> DEFINE n == Len(t.trail)
<1>1. t.trail \in Seq(Assignments) /\ n \in Nat /\ e.lit \in Int
  BY DEF Trails, Assignments
<1>2. /\ Len(u.trail) = n + 1 /\ u.trail[n + 1] = e
      /\ \A k \in 1..n : u.trail[k] = t.trail[k]
  BY <1>1 DEF OnTop
<1>3. Positions(u) = Positions(t) \cup {n + 1} /\ n + 1 \notin Positions(t)
  BY <1>1, <1>2 DEF Positions
<1>4. \A k \in Positions(t) : u.trail[k] = t.trail[k]
  BY <1>2 DEF Positions
<1>5. \A k \in Positions(t) : t.trail[k].lit # e.lit /\ t.trail[k].lit # -e.lit
  BY <1>1, Values
<1>6. Distinct(u)
  <2> SUFFICES ASSUME NEW k \in Positions(u)
               PROVE  /\ u.trail[k].lit # 0
                      /\ \A j \in Positions(u) \ {k} :
                           u.trail[j].lit # u.trail[k].lit /\ u.trail[j].lit # -u.trail[k].lit
    BY DEF Distinct
  <2>1. CASE k \in Positions(t)
    <3>1. /\ t.trail[k].lit # 0 /\ t.trail[k].lit \in Int
          /\ \A j \in Positions(t) \ {k} :
               t.trail[j].lit # t.trail[k].lit /\ t.trail[j].lit # -t.trail[k].lit
      BY <2>1, TrailTypes DEF Distinct
    <3>2. e.lit # t.trail[k].lit /\ e.lit # -t.trail[k].lit
      BY <2>1, <3>1, <1>1, <1>5
    <3> QED
      BY <2>1, <3>1, <3>2, <1>2, <1>3, <1>4
  <2>2. CASE k = n + 1
    BY <2>2, <1>2, <1>3, <1>4, <1>5
  <2> QED
    BY <2>1, <2>2, <1>3
<1>7. ASSUME NEW l \in Int
      PROVE  IF Val(t, l) # 0
             THEN Val(u, l) = Val(t, l) /\ Pos(u, l) = Pos(t, l) /\ LevelOf(u, l) = LevelOf(t, l)
             ELSE /\ Val(u, l) = IF l = e.lit THEN 1 ELSE IF l = -e.lit THEN -1 ELSE 0
                  /\ l \in {e.lit, -e.lit} => Pos(u, l) = n + 1 /\ LevelOf(u, l) = e.level
  <2>1. CASE Val(t, l) # 0
    <3> DEFINE k == Pos(t, l)
    <3>1. /\ k \in Positions(t) /\ Val(t, l) \in {-1, 1}
          /\ t.trail[k].lit = IF Val(t, l) = 1 THEN l ELSE -l
          /\ LevelOf(t, l) = t.trail[k].level
      BY <2>1, Values
    <3> HIDE DEF k
    <3>2. /\ k \in Positions(u) /\ u.trail[k] = t.trail[k]
          /\ l \in {u.trail[k].lit, -u.trail[k].lit}
          /\ Val(t, l) = 1 => l = u.trail[k].lit
          /\ Val(t, l) # 1 => l = -u.trail[k].lit
      BY <3>1, <1>3, <1>4
    <3>3. /\ Pos(u, l) = k /\ LevelOf(u, l) = u.trail[k].level
          /\ Val(t, l) = 1 => Val(u, l) = 1
          /\ Val(t, l) # 1 => Val(u, l) = -1
      BY <3>2, <1>6, AtPosition
    <3> QED
      BY <2>1, <3>1, <3>2, <3>3 DEF k
  <2>2. CASE Val(t, l) = 0 /\ l \in {e.lit, -e.lit}
    <3>1. n + 1 \in Positions(u) /\ l \in {u.trail[n + 1].lit, -u.trail[n + 1].lit}
      BY <2>2, <1>2, <1>3
    <3>2. /\ Pos(u, l) = n + 1 /\ LevelOf(u, l) = e.level
          /\ l = e.lit => Val(u, l) = 1
          /\ l = -e.lit => Val(u, l) = -1
      BY <3>1, <1>2, <1>6, AtPosition
    <3> QED
      BY <2>2, <3>2
  <2>3. CASE Val(t, l) = 0 /\ l \notin {e.lit, -e.lit}
    <3>1. \A k \in Positions(t) : t.trail[k].lit # l /\ t.trail[k].lit # -l
      BY <2>3, Values
    <3>2. e.lit # l /\ e.lit # -l
      BY <2>3, <1>1
    <3>3. \A k \in Positions(u) : u.trail[k].lit # l /\ u.trail[k].lit # -l
      BY <3>1, <3>2, <1>2, <1>3, <1>4
    <3>4. Val(u, l) = 0
      BY <3>3, <1>6, Values
    <3> QED
      BY <2>3, <3>4
  <2> QED
    BY <2>1, <2>2, <2>3
<1> QED
  BY <1>2, <1>3, <1>4, <1>6, <1>7

\* A literal with a reason, or of the root level, is assigned.
LEMMA ImpliedShape ==
  ASSUME NEW t, Shape(t), NEW e \in Assignments, e.lit # 0, Val(t, e.lit) = 0,
         e.level <= Level(t), e.reason # NoReason \/ e.level = 0
  PROVE  LET u == [t EXCEPT !.trail = Append(@, e)]
         IN  Shape(u) /\ OnTop(t, u, e) /\ Level(u) = Level(t) /\ u.control = t.control
             /\ u.propagated = t.propagated
<1> DEFINE u == [t EXCEPT !.trail = Append(@, e)]
           n == Len(t.trail)
<1>1. t \in Trails /\ Distinct(t) /\ Heights(t) /\ Placed(t)
  BY DEF Shape
<1>2. /\ u \in Trails /\ OnTop(t, u, e) /\ Level(u) = Level(t) /\ u.control = t.control
      /\ u.propagated = t.propagated
  <2>1. u = [trail |-> Append(t.trail, e), control |-> t.control, propagated |-> t.propagated]
    BY <1>1, TrailFields
  <2>2. /\ t.trail \in Seq(Assignments) /\ t.control \in Seq(Controls) /\ t.propagated \in Nat
        /\ Append(t.trail, e) \in Seq(Assignments)
    BY <1>1 DEF Trails
  <2> HIDE DEF u
  <2>3. u \in Trails
    BY <2>1, <2>2 DEF Trails
  <2> QED
    BY <2>1, <2>3 DEF OnTop, Level
<1> HIDE DEF u
<1>3. /\ Len(u.trail) = n + 1 /\ Positions(u) = Positions(t) \cup {n + 1}
      /\ \A k \in Positions(t) : u.trail[k] = t.trail[k]
      /\ u.trail[n + 1] = e /\ Distinct(u)
  BY <1>1, <1>2, OnTopView
<1>4. n \in Nat /\ Level(t) \in Nat /\ t.propagated \in Nat /\ e.level \in Nat
      /\ \A i \in 1..Level(t) : t.control[i].trail \in Nat
  BY <1>1, TrailTypes DEF Assignments
<1>5. Heights(u)
  <2> SUFFICES ASSUME NEW i \in 1..Level(t)
               PROVE  /\ t.control[i].trail <= n + 1
                      /\ \A j \in i..Level(t) : t.control[i].trail <= t.control[j].trail
                      /\ t.control[i].decision # 0 =>
                           /\ t.control[i].trail < n + 1
                           /\ \A j \in i + 1..Level(t) : t.control[i].trail < t.control[j].trail
                           /\ u.trail[t.control[i].trail + 1] =
                                [lit |-> t.control[i].decision, level |-> i, reason |-> NoReason]
    BY <1>2, <1>3 DEF Heights
  <2>1. /\ t.control[i].trail <= n
        /\ \A j \in i..Level(t) : t.control[i].trail <= t.control[j].trail
        /\ t.control[i].decision # 0 =>
                           /\ t.control[i].trail < n
                           /\ \A j \in i + 1..Level(t) : t.control[i].trail < t.control[j].trail
                           /\ t.trail[t.control[i].trail + 1] =
                                [lit |-> t.control[i].decision, level |-> i, reason |-> NoReason]
    BY <1>1 DEF Heights
  <2>2. t.control[i].trail < n => t.control[i].trail + 1 \in Positions(t)
    BY <1>4 DEF Positions
  <2>3. t.control[i].trail \in Nat /\ (t.control[i].trail <= n => t.control[i].trail <= n + 1)
        /\ (t.control[i].trail < n => t.control[i].trail < n + 1)
    BY <1>4
  <2> QED
    BY <2>1, <2>2, <2>3, <1>3
<1>6. Placed(u)
  <2> SUFFICES ASSUME NEW k \in Positions(u)
               PROVE  /\ u.trail[k].level <= Level(t)
                      /\ \A i \in 1..u.trail[k].level : t.control[i].trail < k
                      /\ u.trail[k].reason = NoReason /\ u.trail[k].level > 0 =>
                           /\ t.control[u.trail[k].level].trail + 1 = k
                           /\ t.control[u.trail[k].level].decision = u.trail[k].lit
    BY <1>2 DEF Placed
  <2>1. CASE k \in Positions(t)
    BY <2>1, <1>1, <1>3 DEF Placed
  <2>2. CASE k = n + 1
    <3>1. \A i \in 1..e.level : i \in 1..Level(t)
      BY <1>4
    <3>2. ASSUME NEW i \in 1..e.level PROVE t.control[i].trail < k
      <4>1. i \in 1..Level(t)
        BY <3>1
      <4>2. t.control[i].trail <= n /\ t.control[i].trail \in Nat
        BY <4>1, <1>1, <1>4 DEF Heights
      <4> QED
        BY <4>2, <2>2, <1>4
    <3> QED
      BY <2>2, <3>2, <1>3, <1>4
  <2> QED
    BY <2>1, <2>2, <1>3
<1>7. u.propagated <= Len(u.trail)
      /\ (Level(u) > 0 => u.control[Level(u)].trail <= u.propagated)
  BY <1>2, <1>3, <1>4 DEF Shape
<1>8. Shape(u) /\ OnTop(t, u, e) /\ Level(u) = Level(t) /\ u.control = t.control
      /\ u.propagated = t.propagated
  BY <1>2, <1>3, <1>5, <1>6, <1>7 DEF Shape
<1> QED
  BY <1>8 DEF u

\* A level is opened on top of a trail that is propagated.
NewLevel(t, u, d) ==
  /\ u.control = Append(t.control, [trail |-> Len(t.trail), decision |-> d])
  /\ u.propagated = t.propagated

\* What opening a level does to the heights of the levels.
LEMMA NewLevelView ==
  ASSUME NEW t \in Trails, NEW u, NEW d \in Int, NewLevel(t, u, d)
  PROVE  /\ Level(u) = Level(t) + 1 /\ Level(t) \in Nat
         /\ \A i \in 1..Level(t) : u.control[i] = t.control[i]
         /\ u.control[Level(u)] = [trail |-> Len(t.trail), decision |-> d]
         /\ u.control \in Seq(Controls)
<1>1. t.control \in Seq(Controls) /\ [trail |-> Len(t.trail), decision |-> d] \in Controls
  BY TrailTypes DEF Trails, Controls
<1> DEFINE c == [trail |-> Len(t.trail), decision |-> d]
<1> HIDE DEF c
<1>2. /\ Append(t.control, c) \in Seq(Controls)
      /\ Len(Append(t.control, c)) = Len(t.control) + 1
      /\ Append(t.control, c)[Len(t.control) + 1] = c
      /\ \A i \in 1..Len(t.control) : Append(t.control, c)[i] = t.control[i]
      /\ Len(t.control) \in Nat
  BY <1>1 DEF c
<1> QED
  BY <1>2 DEF NewLevel, Level, c

\* A level that decides nothing.
LEMMA PseudoLevelShape ==
  ASSUME NEW t, Shape(t), t.propagated = Len(t.trail)
  PROVE  LET u == NewTrailLevel(t, 0)
         IN  Shape(u) /\ u.trail = t.trail /\ NewLevel(t, u, 0)
<1> DEFINE u == NewTrailLevel(t, 0)
           n == Len(t.trail)
           c == [trail |-> n, decision |-> 0]
<1>1. t \in Trails /\ Distinct(t) /\ Heights(t) /\ Placed(t)
  BY DEF Shape
<1>2. u = [trail |-> t.trail, control |-> Append(t.control, c), propagated |-> t.propagated]
  <2> HIDE DEF c
  <2> QED
    BY <1>1, TrailFields DEF NewTrailLevel, c
<1>3. u.trail = t.trail /\ NewLevel(t, u, 0)
  BY <1>2 DEF NewLevel
<1> HIDE DEF u
<1>4. /\ Level(u) = Level(t) + 1 /\ Level(t) \in Nat
      /\ \A i \in 1..Level(t) : u.control[i] = t.control[i]
      /\ u.control[Level(u)] = c
      /\ u.control \in Seq(Controls)
  BY <1>1, <1>3, NewLevelView
<1>5. u \in Trails
  BY <1>1, <1>2, <1>4 DEF Trails
<1>6. Distinct(u) /\ Positions(u) = Positions(t)
  BY <1>1, <1>3 DEF Distinct, Positions
<1>7. n \in Nat /\ \A k \in Positions(t) : t.trail[k].level \in Nat
  BY <1>1, TrailTypes
<1>8. Heights(u)
  <2> SUFFICES ASSUME NEW i \in 1..Level(u)
               PROVE  /\ u.control[i].trail <= n
                      /\ \A j \in i..Level(u) : u.control[i].trail <= u.control[j].trail
                      /\ u.control[i].decision # 0 =>
                           /\ u.control[i].trail < n
                           /\ \A j \in i + 1..Level(u) : u.control[i].trail < u.control[j].trail
                           /\ t.trail[u.control[i].trail + 1] =
                                [lit |-> u.control[i].decision, level |-> i, reason |-> NoReason]
    BY <1>3 DEF Heights
  <2>1. CASE i = Level(u)
    <3>1. u.control[i].trail = n /\ u.control[i].decision = 0 /\ i..Level(u) = {i}
      BY <1>4, <2>1
    <3> QED
      BY <3>1, <1>7
  <2>2. CASE i # Level(u)
    <3>1. i \in 1..Level(t) /\ u.control[i] = t.control[i]
      BY <2>2, <1>4
    <3>2. /\ t.control[i].trail <= n
          /\ \A j \in i..Level(t) : t.control[i].trail <= t.control[j].trail
          /\ t.control[i].decision # 0 =>
               /\ t.control[i].trail < n
               /\ \A j \in i + 1..Level(t) : t.control[i].trail < t.control[j].trail
               /\ t.trail[t.control[i].trail + 1] =
                    [lit |-> t.control[i].decision, level |-> i, reason |-> NoReason]
      BY <3>1, <1>1 DEF Heights
    <3>3. \A j \in i..Level(u) : (j \in i..Level(t) /\ u.control[j] = t.control[j])
                                 \/ u.control[j].trail = n
      BY <1>4, <3>1, SMTT(40)
    <3>4. \A j \in i + 1..Level(u) : j \in i..Level(u) /\
              ((j \in i + 1..Level(t) /\ u.control[j] = t.control[j]) \/ u.control[j].trail = n)
      BY <1>4, <3>1
    <3> HIDE DEF c, n
    <3> QED
      BY <3>1, <3>2, <3>3, <3>4
  <2> QED
    BY <2>1, <2>2
<1>9. Placed(u)
  <2> SUFFICES ASSUME NEW k \in Positions(t)
               PROVE  /\ t.trail[k].level <= Level(u)
                      /\ \A i \in 1..t.trail[k].level : u.control[i].trail < k
                      /\ t.trail[k].reason = NoReason /\ t.trail[k].level > 0 =>
                           /\ u.control[t.trail[k].level].trail + 1 = k
                           /\ u.control[t.trail[k].level].decision = t.trail[k].lit
    BY <1>3, <1>6 DEF Placed
  <2>1. /\ t.trail[k].level <= Level(t) /\ t.trail[k].level \in Nat
        /\ \A i \in 1..t.trail[k].level : t.control[i].trail < k
        /\ t.trail[k].reason = NoReason /\ t.trail[k].level > 0 =>
             /\ t.control[t.trail[k].level].trail + 1 = k
             /\ t.control[t.trail[k].level].decision = t.trail[k].lit
    BY <1>1, <1>7 DEF Placed
  <2>2. \A i \in 1..t.trail[k].level : u.control[i] = t.control[i]
    BY <2>1, <1>4
  <2>3. t.trail[k].level > 0 => t.trail[k].level \in 1..t.trail[k].level
    BY <2>1
  <2> HIDE DEF c, n
  <2>4. Level(t) + 1 = Level(u) /\ Level(t) \in Nat
    BY <1>4
  <2>5. \A i \in 1..t.trail[k].level : u.control[i].trail < k
    BY <2>1, <2>2
  <2> QED
    BY <2>1, <2>2, <2>3, <2>4, <2>5, SMTT(40)
<1>10. u.propagated = n
  BY <1>3 DEF NewLevel
<1>11. Shape(u)
  BY <1>3, <1>4, <1>5, <1>6, <1>7, <1>8, <1>9, <1>10 DEF Shape
<1> QED
  BY <1>3, <1>11 DEF u

\* A decision.
LEMMA DecisionShape ==
  ASSUME NEW t, Shape(t), t.propagated = Len(t.trail),
         NEW lit \in Int, lit # 0, Val(t, lit) = 0
  PROVE  LET u == AssumeDecision(t, lit)
         IN  /\ Shape(u) /\ NewLevel(t, u, lit)
             /\ OnTop(t, u, [lit |-> lit, level |-> Level(t) + 1, reason |-> NoReason])
<1> DEFINE u == AssumeDecision(t, lit)
           n == Len(t.trail)
           c == [trail |-> n, decision |-> lit]
           e == [lit |-> lit, level |-> Level(t) + 1, reason |-> NoReason]
<1>1. t \in Trails /\ Distinct(t) /\ Heights(t) /\ Placed(t)
  BY DEF Shape
<1>0. n \in Nat /\ Level(t) \in Nat /\ e \in Assignments /\ e.lit = lit /\ e.level = Level(t) + 1
      /\ e.reason = NoReason /\ \A k \in Positions(t) : t.trail[k].level \in Nat
  BY <1>1, TrailTypes DEF Assignments, NoReason
<1>2. u = [trail |-> Append(t.trail, e), control |-> Append(t.control, c),
           propagated |-> t.propagated]
  <2> DEFINE w == NewTrailLevel(t, lit)
  <2>1. w = [trail |-> t.trail, control |-> Append(t.control, c), propagated |-> t.propagated]
    <3> HIDE DEF c
    <3> QED
      BY <1>1, TrailFields DEF NewTrailLevel, c, w
  <2>2. NewLevel(t, w, lit)
    BY <2>1 DEF NewLevel
  <2> HIDE DEF w
  <2>3. Level(w) = Level(t) + 1
    BY <1>1, <2>2, NewLevelView
  <2>4. AssignmentLevel(0, <<>>, w, lit, DecisionReason) = Level(t) + 1
    BY <2>3 DEF AssignmentLevel, DecisionReason, NoReason
  <2>5. u = SearchAssign(0, <<>>, w, lit, DecisionReason)
    BY DEF AssumeDecision, w
  <2>6. Level(t) + 1 # 0
    BY <1>0
  <2> QED
    BY <2>1, <2>4, <2>5, <2>6 DEF SearchAssign, DecisionReason, NoReason
<1>3. OnTop(t, u, e) /\ NewLevel(t, u, lit)
  BY <1>2 DEF NewLevel, OnTop
<1> HIDE DEF u
<1>4. /\ Level(u) = Level(t) + 1
      /\ \A i \in 1..Level(t) : u.control[i] = t.control[i]
      /\ u.control[Level(u)] = c
      /\ u.control \in Seq(Controls)
  BY <1>1, <1>3, NewLevelView
<1>5. u \in Trails
  <2>1. Append(t.trail, e) \in Seq(Assignments)
    BY <1>0, <1>1 DEF Trails
  <2> HIDE DEF e
  <2> QED
    BY <1>1, <1>2, <1>4, <2>1 DEF Trails
<1> HIDE DEF e
<1>6. /\ Len(u.trail) = n + 1 /\ Positions(u) = Positions(t) \cup {n + 1}
      /\ \A k \in Positions(t) : u.trail[k] = t.trail[k]
      /\ u.trail[n + 1] = e /\ Distinct(u)
  BY <1>0, <1>1, <1>3, <1>5, OnTopView
<1>7. \A i \in 1..Level(t) : t.control[i].trail \in Nat
  BY <1>1, TrailTypes
<1>8. Heights(u)
  <2> SUFFICES ASSUME NEW i \in 1..Level(u)
               PROVE  /\ u.control[i].trail <= n + 1
                      /\ \A j \in i..Level(u) : u.control[i].trail <= u.control[j].trail
                      /\ u.control[i].decision # 0 =>
                           /\ u.control[i].trail < n + 1
                           /\ \A j \in i + 1..Level(u) : u.control[i].trail < u.control[j].trail
                           /\ u.trail[u.control[i].trail + 1] =
                                [lit |-> u.control[i].decision, level |-> i, reason |-> NoReason]
    BY <1>6 DEF Heights
  <2>1. CASE i = Level(u)
    <3>1. u.control[i].trail = n /\ u.control[i].decision = lit /\ i..Level(u) = {i}
          /\ i + 1..Level(u) = {} /\ i = Level(t) + 1
      BY <1>4, <2>1, <1>0
    <3>2. u.trail[n + 1] = [lit |-> lit, level |-> i, reason |-> NoReason]
      BY <3>1, <1>6 DEF e
    <3>3. \A j \in i..Level(u) : j = i
      BY <3>1
    <3>4. \A j \in i + 1..Level(u) : FALSE
      BY <3>1
    <3> HIDE DEF c, n
    <3> QED
      BY <3>1, <3>2, <3>3, <3>4, <1>0
  <2>2. CASE i # Level(u)
    <3>1. i \in 1..Level(t) /\ u.control[i] = t.control[i]
      BY <2>2, <1>0, <1>4
    <3>2. /\ t.control[i].trail <= n /\ t.control[i].trail \in Nat
          /\ \A j \in i..Level(t) : t.control[i].trail <= t.control[j].trail
          /\ t.control[i].decision # 0 =>
               /\ t.control[i].trail < n
               /\ \A j \in i + 1..Level(t) : t.control[i].trail < t.control[j].trail
               /\ t.trail[t.control[i].trail + 1] =
                    [lit |-> t.control[i].decision, level |-> i, reason |-> NoReason]
      BY <3>1, <1>1, <1>7 DEF Heights
    <3>3. \A j \in i..Level(u) : (j \in i..Level(t) /\ u.control[j] = t.control[j])
                                 \/ u.control[j].trail = n
      BY <1>0, <1>4, <3>1
    <3>4. ASSUME NEW j \in i + 1..Level(u)
          PROVE  (j \in i + 1..Level(t) /\ u.control[j] = t.control[j]) \/ u.control[j].trail = n
      <4>1. j \in i..Level(u) /\ j # i
        BY <1>0, <1>4, <3>1
      <4>2. j \in i..Level(t) => j \in i + 1..Level(t)
        BY <1>0, <4>1
      <4> QED
        BY <4>1, <4>2, <3>3
    <3>5. t.control[i].trail < n => t.control[i].trail + 1 \in Positions(t)
      BY <3>2, <1>0 DEF Positions
    <3> HIDE DEF c, n
    <3>6. n \in Nat /\ \A k \in Positions(t) : u.trail[k] = t.trail[k]
      BY <1>0, <1>6
    <3>7. \A j \in i..Level(u) : u.control[i].trail <= u.control[j].trail
      BY <3>1, <3>2, <3>3
    <3>8. t.control[i].trail < n /\ t.control[i].decision # 0 =>
            \A j \in i + 1..Level(u) : u.control[i].trail < u.control[j].trail
      BY <3>1, <3>2, <3>4
    <3>9. u.control[i].trail <= n + 1 /\ (t.control[i].trail < n => u.control[i].trail < n + 1)
      BY <3>1, <3>2, <3>6
    <3>10. u.control[i].decision # 0 =>
             u.trail[u.control[i].trail + 1] =
                                [lit |-> u.control[i].decision, level |-> i, reason |-> NoReason]
      BY <3>1, <3>2, <3>5, <3>6
    <3> QED
      BY <3>1, <3>2, <3>7, <3>8, <3>9, <3>10
  <2> QED
    BY <2>1, <2>2
<1>9. Placed(u)
  <2> SUFFICES ASSUME NEW k \in Positions(u)
               PROVE  /\ u.trail[k].level <= Level(u)
                      /\ \A i \in 1..u.trail[k].level : u.control[i].trail < k
                      /\ u.trail[k].reason = NoReason /\ u.trail[k].level > 0 =>
                           /\ u.control[u.trail[k].level].trail + 1 = k
                           /\ u.control[u.trail[k].level].decision = u.trail[k].lit
    BY DEF Placed
  <2>1. CASE k \in Positions(t)
    <3>1. /\ t.trail[k].level <= Level(t) /\ t.trail[k].level \in Nat
          /\ \A i \in 1..t.trail[k].level : t.control[i].trail < k
          /\ t.trail[k].reason = NoReason /\ t.trail[k].level > 0 =>
               /\ t.control[t.trail[k].level].trail + 1 = k
               /\ t.control[t.trail[k].level].decision = t.trail[k].lit
      BY <2>1, <1>0, <1>1 DEF Placed
    <3>2. \A i \in 1..t.trail[k].level : u.control[i] = t.control[i]
      BY <3>1, <1>0, <1>4
    <3>3. t.trail[k].level > 0 => t.trail[k].level \in 1..t.trail[k].level
      BY <3>1
    <3>4. u.trail[k] = t.trail[k]
      BY <2>1, <1>6
    <3> HIDE DEF c, n
    <3>5. Level(t) + 1 = Level(u) /\ Level(t) \in Nat
      BY <1>0, <1>4
    <3>6. \A i \in 1..t.trail[k].level : u.control[i].trail < k
      BY <3>1, <3>2
    <3> QED
      BY <3>1, <3>2, <3>3, <3>4, <3>5, <3>6, SMTT(40)
  <2>2. CASE k = n + 1
    <3>1. u.trail[k].level = Level(u) /\ u.trail[k].lit = lit
      BY <2>2, <1>0, <1>4, <1>6
    <3>2. \A i \in 1..Level(u) : u.control[i].trail <= n
      <4> SUFFICES ASSUME NEW i \in 1..Level(u) PROVE u.control[i].trail <= n
        OBVIOUS
      <4>1. i \in 1..Level(t) => t.control[i].trail <= n
        BY <1>1 DEF Heights
      <4> QED
        BY <4>1, <1>0, <1>4
    <3>3. \A i \in 1..Level(u) : u.control[i].trail \in Nat
      BY <1>5, TrailTypes
    <3> QED
      BY <2>2, <3>1, <3>2, <3>3, <1>0, <1>4
  <2> QED
    BY <2>1, <2>2, <1>6
<1>10. u.propagated = n
  BY <1>3 DEF NewLevel
<1>11. Shape(u)
  BY <1>0, <1>4, <1>5, <1>6, <1>8, <1>9, <1>10 DEF Shape
<1> QED
  BY <1>3, <1>11 DEF u, e

-----------------------------------------------------------------------------
(* Backtracking. *)

\* The recursive function of Backtrack exists.
LEMMA BacktrackUnfolds ==
  ASSUME NEW t \in Trails, NEW new \in Nat, new # Level(t),
         NEW cut \in 0..Len(t.trail), cut = t.control[new + 1].trail
  PROVE  \E kept :
           /\ kept[cut] = SubSeq(t.trail, 1, cut)
           /\ \A k \in cut + 1..Len(t.trail) :
                kept[k] = IF t.trail[k].level <= new THEN Append(kept[k - 1], t.trail[k])
                          ELSE kept[k - 1]
           /\ Backtrack(t, new) = [trail |-> kept[Len(t.trail)],
                                   control |-> SubSeq(t.control, 1, new),
                                   propagated |-> Min({t.propagated, cut})]
<1> DEFINE n == Len(t.trail)
           D == Seq(Assignments)
           a == SubSeq(t.trail, 1, cut)
           Step(s, k) == IF t.trail[k].level <= new THEN Append(s, t.trail[k]) ELSE s
           h == [p \in D \X (1..n - cut) |-> Step(p[1], cut + p[2])]
           Def(f) == f = [k \in cut..n |->
                            IF k = cut THEN SubSeq(t.trail, 1, cut)
                            ELSE IF t.trail[k].level <= new THEN Append(f[k - 1], t.trail[k])
                            ELSE f[k - 1]]
<1>1. n \in Nat /\ cut \in Nat /\ n - cut \in Nat /\ t.trail \in D
  BY TrailTypes DEF Trails
<1>2. a \in D
  BY <1>1
<1>3. ASSUME NEW s \in D, NEW i \in 1..n - cut
      PROVE  h[<<s, i>>] \in D /\ h[<<s, i>>] = Step(s, cut + i)
  <2>1. cut + i \in Positions(t)
    BY <1>1 DEF Positions
  <2>2. t.trail[cut + i] \in Assignments
    BY <2>1, TrailTypes
  <2> QED
    BY <2>2, SMTT(40)
<1> HIDE DEF h, D, a, n
<1>4. PICK f \in [0..n - cut -> D] : Iterates(f, n - cut, a, h)
  <2> HIDE DEF Def, Step
  <2>1. \A s \in D, i \in 1..n - cut : h[<<s, i>>] \in D
    BY <1>3
  <2> QED
    BY <1>1, <1>2, <2>1, IterationExists
<1> DEFINE g == [k \in cut..n |-> f[k - cut]]
<1>5. Def(g)
  <2>1. \A k \in cut..n : k # cut => g[k] = Step(g[k - 1], k)
    <3> SUFFICES ASSUME NEW k \in cut..n, k # cut PROVE g[k] = Step(g[k - 1], k)
      OBVIOUS
    <3> HIDE DEF Def, Step, g
    <3>0. k \in Int /\ cut \in Int /\ n \in Int /\ cut < k /\ k <= n
      BY <1>1
    <3>1. k - cut \in 1..n - cut /\ k - 1 \in cut..n /\ (k - 1) - cut = (k - cut) - 1
          /\ (k - cut) - 1 \in 0..n - cut /\ cut + (k - cut) = k
      <4>1. k - cut \in 1..n - cut
        BY <3>0
      <4>2. k - 1 \in cut..n
        BY <3>0
      <4>3. (k - 1) - cut = (k - cut) - 1
        <5>1. \A x, y \in Int : (x - 1) - y = (x - y) - 1
          OBVIOUS
        <5> QED
          BY <3>0, <5>1
      <4>5. cut + (k - cut) = k
        BY <3>0, SMTT(20)
      <4>4. (k - cut) - 1 \in 0..n - cut
        BY <3>0, SMTT(40)
      <4> QED
        BY <4>1, <4>2, <4>3, <4>4, <4>5
    <3>2. f[k - cut] = h[<<f[(k - cut) - 1], k - cut>>]
      BY <3>1, <1>4 DEF Iterates
    <3>3. f[(k - cut) - 1] \in D
      BY <3>1, <1>4
    <3>4. h[<<f[(k - cut) - 1], k - cut>>] = Step(f[(k - cut) - 1], k)
      <4>1. h[<<f[(k - cut) - 1], k - cut>>] = Step(f[(k - cut) - 1], cut + (k - cut))
        BY <3>1, <3>3, <1>3
      <4> QED
        BY <4>1, <3>1
    <3>5. g[k] = f[k - cut] /\ g[k - 1] = f[(k - cut) - 1]
      BY <3>1 DEF g
    <3> QED
      BY <3>2, <3>4, <3>5
  <2>2. g[cut] = a
    BY <1>1, <1>4 DEF Iterates
  <2> QED
    BY <2>1, <2>2 DEF a
<1> DEFINE kept[k \in cut..n] ==
             IF k = cut THEN SubSeq(t.trail, 1, cut)
             ELSE IF t.trail[k].level <= new THEN Append(kept[k - 1], t.trail[k])
             ELSE kept[k - 1]
<1>6. Def(kept)
  <2>1. kept = CHOOSE e : Def(e)
    OBVIOUS
  <2> HIDE DEF kept, Def, g
  <2> QED
    BY <1>5, <2>1
<1>7. Backtrack(t, new) = [trail |-> kept[n],
                           control |-> SubSeq(t.control, 1, new),
                           propagated |-> Min({t.propagated, cut})]
  BY DEF Backtrack, n
<1> HIDE DEF kept
<1>8. /\ kept[cut] = SubSeq(t.trail, 1, cut)
      /\ \A k \in cut + 1..n :
           kept[k] = IF t.trail[k].level <= new THEN Append(kept[k - 1], t.trail[k])
                     ELSE kept[k - 1]
  <2>1. \A k \in cut + 1..n : k \in cut..n /\ k # cut
    BY <1>1
  <2>2. cut \in cut..n
    BY <1>1
  <2> HIDE DEF g
  <2> QED
    BY <2>1, <2>2, <1>6
<1> QED
  BY <1>7, <1>8 DEF n

\* s holds the first literals of the trail and of the other ones below k those
\* of the levels up to lev; m maps their positions back.
Selects(t, s, m, k, cut, lev) ==
  /\ s \in Seq(Assignments) /\ m \in [1..Len(s) -> 1..k]
  /\ \A i \in 1..Len(s) :
       /\ s[i] = t.trail[m[i]]
       /\ m[i] <= cut \/ t.trail[m[i]].level <= lev
       /\ \A j \in 1..Len(s) : i < j => m[i] < m[j]
  /\ \A j \in 1..k : j <= cut \/ t.trail[j].level <= lev => \E i \in 1..Len(s) : m[i] = j
  /\ cut <= Len(s) /\ \A i \in 1..cut : m[i] = i

\* Backtracking moves the literals of the lower levels down, in their order.
LEMMA BacktrackSelects ==
  ASSUME NEW t \in Trails, NEW new \in 0..Level(t) - 1,
         t.control[new + 1].trail \in 0..Len(t.trail)
  PROVE  LET u == Backtrack(t, new)
             cut == t.control[new + 1].trail
         IN  /\ \E m : Selects(t, u.trail, m, Len(t.trail), cut, new)
             /\ u.control = SubSeq(t.control, 1, new)
             /\ u.propagated = Min({t.propagated, cut})
             /\ u \in Trails
<1> DEFINE u == Backtrack(t, new)
           cut == t.control[new + 1].trail
           n == Len(t.trail)
<1>1. t \in Trails /\ new \in Nat /\ new # Level(t) /\ n \in Nat /\ Level(t) \in Nat
      /\ new + 1 \in 1..Level(t) /\ Level(t) \in 1..Level(t) /\ t.propagated \in Nat
  BY TrailTypes
<1>2. cut \in 0..n
  OBVIOUS
<1> HIDE DEF cut
<1>3. PICK kept :
           /\ kept[cut] = SubSeq(t.trail, 1, cut)
           /\ \A k \in cut + 1..n :
                kept[k] = IF t.trail[k].level <= new THEN Append(kept[k - 1], t.trail[k])
                          ELSE kept[k - 1]
           /\ u = [trail |-> kept[n],
                   control |-> SubSeq(t.control, 1, new),
                   propagated |-> Min({t.propagated, cut})]
  BY <1>1, <1>2, BacktrackUnfolds DEF cut
<1>4. \E m : Selects(t, kept[cut], m, cut, cut, new)
  <2> DEFINE s == SubSeq(t.trail, 1, cut)
             m == [i \in 1..cut |-> i]
  <2>1. s \in Seq(Assignments) /\ Len(s) = cut /\ \A i \in 1..cut : s[i] = t.trail[i]
    BY <1>1, <1>2 DEF Trails
  <2> HIDE DEF s
  <2>2. m \in [1..cut -> 1..cut] /\ \A i \in 1..cut : m[i] = i
    OBVIOUS
  <2> HIDE DEF m
  <2>3. Selects(t, s, m, cut, cut, new)
    BY <2>1, <2>2, <1>2 DEF Selects
  <2> QED
    BY <2>3, <1>3 DEF s
<1>5. ASSUME NEW k \in cut + 1..n, \E m : Selects(t, kept[k - 1], m, k - 1, cut, new)
      PROVE  \E m : Selects(t, kept[k], m, k, cut, new)
  <2> DEFINE s == kept[k - 1]
  <2>1. PICK m : Selects(t, s, m, k - 1, cut, new)
    BY <1>5
  <2>2. k \in Positions(t) /\ k \in Nat /\ k - 1 \in Nat /\ k > cut /\ t.trail[k] \in Assignments
        /\ Len(s) \in Nat /\ cut \in Nat
    <3>1. k \in Positions(t) /\ k \in Nat /\ k - 1 \in Nat /\ k > cut /\ cut \in Nat
      BY <1>1, <1>2 DEF Positions
    <3>2. t.trail[k] \in Assignments
      BY <3>1, <1>1, TrailTypes
    <3>3. s \in Seq(Assignments)
      BY <2>1 DEF Selects
    <3> QED
      BY <3>1, <3>2, <3>3
  <2>3. CASE t.trail[k].level <= new
    <3> DEFINE r == Append(s, t.trail[k])
               p == [i \in 1..Len(s) + 1 |-> IF i = Len(s) + 1 THEN k ELSE m[i]]
    <3>1. kept[k] = r
      BY <1>3, <2>3
    <3>2. /\ r \in Seq(Assignments) /\ Len(r) = Len(s) + 1
          /\ r[Len(s) + 1] = t.trail[k] /\ \A i \in 1..Len(s) : r[i] = s[i]
      BY <2>1, <2>2 DEF Selects
    <3> HIDE DEF r
    <3>3. \A i \in 1..Len(s) : m[i] \in 1..k - 1
      BY <2>1 DEF Selects
    <3>4. p \in [1..Len(s) + 1 -> 1..k] /\ p[Len(s) + 1] = k /\ \A i \in 1..Len(s) : p[i] = m[i]
      <4>1. k \in 1..k /\ \A i \in 1..Len(s) : m[i] \in 1..k
        BY <2>2, <3>3
      <4> QED
        BY <4>1, <2>2
    <3> HIDE DEF p
    <3>5. ASSUME NEW i \in 1..Len(r)
          PROVE  /\ r[i] = t.trail[p[i]]
                 /\ p[i] <= cut \/ t.trail[p[i]].level <= new
                 /\ \A j \in 1..Len(r) : i < j => p[i] < p[j]
      <4>1. CASE i = Len(s) + 1
        BY <4>1, <2>2, <2>3, <3>2, <3>4
      <4>2. CASE i \in 1..Len(s)
        <5>1. /\ s[i] = t.trail[m[i]]
              /\ m[i] <= cut \/ t.trail[m[i]].level <= new
              /\ \A j \in 1..Len(s) : i < j => m[i] < m[j]
          BY <4>2, <2>1 DEF Selects
        <5>2. m[i] < k
          <6>1. m[i] \in 1..k - 1
            BY <4>2, <3>3
          <6> QED
            BY <6>1, <2>2
        <5>3. \A j \in 1..Len(r) : j \in 1..Len(s) \/ j = Len(s) + 1
          BY <3>2, <2>2
        <5> QED
          BY <4>2, <5>1, <5>2, <5>3, <3>2, <3>4
      <4> QED
        BY <4>1, <4>2, <3>2, <2>2
    <3>6. ASSUME NEW j \in 1..k, j <= cut \/ t.trail[j].level <= new
          PROVE  \E i \in 1..Len(r) : p[i] = j
      <4>1. CASE j = k
        BY <4>1, <3>2, <3>4, <2>2
      <4>2. CASE j # k
        <5>1. j \in 1..k - 1
          BY <4>2, <2>2
        <5>2. PICK i \in 1..Len(s) : m[i] = j
          BY <5>1, <3>6, <2>1 DEF Selects
        <5> QED
          BY <5>2, <3>2, <3>4, <2>2, SMTT(40)
      <4> QED
        BY <4>1, <4>2
    <3>7. cut <= Len(r) /\ \A i \in 1..cut : p[i] = i
      <4>1. cut <= Len(s) /\ \A i \in 1..cut : m[i] = i
        BY <2>1 DEF Selects
      <4>2. \A i \in 1..cut : i \in 1..Len(s)
        BY <4>1, <2>2
      <4>3. \A i \in 1..cut : p[i] = i
        BY <4>1, <4>2, <3>4
      <4>4. cut <= Len(s) + 1
        BY <4>1, <2>2
      <4> QED
        BY <4>3, <4>4, <3>2
    <3>8. Selects(t, r, p, k, cut, new)
      BY <3>2, <3>4, <3>5, <3>6, <3>7 DEF Selects
    <3> QED
      BY <3>1, <3>8
  <2>4. CASE ~(t.trail[k].level <= new)
    <3>1. kept[k] = s
      BY <1>3, <2>4
    <3>2. m \in [1..Len(s) -> 1..k]
      <4>1. \A i \in 1..Len(s) : m[i] \in 1..k - 1
        BY <2>1 DEF Selects
      <4>2. \A i \in 1..Len(s) : m[i] \in 1..k
        BY <4>1, <2>2
      <4> QED
        BY <4>2, <2>1 DEF Selects
    <3>3. \A j \in 1..k : j <= cut \/ t.trail[j].level <= new => j \in 1..k - 1
      BY <2>2, <2>4
    <3>4. Selects(t, s, m, k, cut, new)
      BY <2>1, <3>2, <3>3 DEF Selects
    <3> QED
      BY <3>1, <3>4
  <2> QED
    BY <2>3, <2>4
<1>6. \E m : Selects(t, kept[n], m, n, cut, new)
  <2> DEFINE S == {i \in Nat : cut + i <= n =>
                     \E m : Selects(t, kept[cut + i], m, cut + i, cut, new)}
  <2>1. 0 \in S
    <3>1. cut + 0 = cut
      BY <1>2
    <3> QED
      BY <1>4, <3>1
  <2>2. ASSUME NEW i \in Nat, i \in S PROVE i + 1 \in S
    <3> SUFFICES ASSUME cut + (i + 1) <= n
                 PROVE  \E m : Selects(t, kept[cut + (i + 1)], m, cut + (i + 1), cut, new)
      OBVIOUS
    <3>1. cut + i <= n /\ cut + (i + 1) \in cut + 1..n /\ (cut + (i + 1)) - 1 = cut + i
      BY <1>1, <1>2
    <3>2. \E m : Selects(t, kept[cut + i], m, cut + i, cut, new)
      BY <2>2, <3>1
    <3> QED
      BY <3>1, <3>2, <1>5
  <2>3. \A i \in Nat : i \in S
    <3> HIDE DEF S
    <3> QED
      BY <2>1, <2>2, NatSetInduction
  <2>4. n - cut \in Nat /\ cut + (n - cut) = n
    BY <1>1, <1>2
  <2>5. n - cut \in S
    BY <2>3, <2>4
  <2> QED
    BY <2>4, <2>5, <1>1
<1>7. u.trail = kept[n] /\ u.control = SubSeq(t.control, 1, new)
      /\ u.propagated = Min({t.propagated, cut})
  BY <1>3
<1>8. u \in Trails
  <2>1. u.trail \in Seq(Assignments)
    BY <1>6, <1>7 DEF Selects
  <2>2. u.control \in Seq(Controls) /\ u.propagated \in Nat
    <3>1. t.control \in Seq(Controls) /\ new <= Len(t.control)
      BY <1>1 DEF Trails, Level
    <3>2. Min({t.propagated, cut}) \in Nat
      BY <1>1, <1>2, MinOfTwo
    <3> QED
      BY <3>1, <3>2, <1>1, <1>2, <1>7
  <2> QED
    BY <2>1, <2>2, <1>3, <1>7 DEF Trails
<1> QED
  BY <1>2, <1>6, <1>7, <1>8 DEF cut

\* In a trail of the search the literals from there on were propagated.
THEOREM BacktrackMoves ==
  ASSUME NEW t, Shape(t), NEW new \in 0..Level(t) - 1
  PROVE  LET u == Backtrack(t, new)
             cut == t.control[new + 1].trail
         IN  /\ \E m : Selects(t, u.trail, m, Len(t.trail), cut, new)
             /\ u.control = SubSeq(t.control, 1, new)
             /\ u.propagated = cut
             /\ u \in Trails
             /\ cut \in 0..Len(t.trail)
<1> DEFINE cut == t.control[new + 1].trail
           n == Len(t.trail)
<1>1. t \in Trails /\ new \in Nat /\ n \in Nat /\ Level(t) \in Nat
      /\ new + 1 \in 1..Level(t) /\ Level(t) \in 1..Level(t) /\ t.propagated \in Nat
  <2>1. t \in Trails
    BY DEF Shape
  <2> QED
    BY <2>1, TrailTypes
<1>2. cut \in 0..n /\ cut <= t.propagated /\ cut \in Nat
  <2>1. cut \in Nat /\ t.control[Level(t)].trail \in Nat
    BY <1>1, TrailTypes
  <2>2. cut <= n /\ \A j \in new + 1..Level(t) : cut <= t.control[j].trail
    BY <1>1 DEF Shape, Heights
  <2>3. cut <= t.control[Level(t)].trail
    BY <1>1, <2>2
  <2>4. t.control[Level(t)].trail <= t.propagated
    BY <1>1 DEF Shape
  <2> HIDE DEF cut
  <2> QED
    BY <1>1, <2>1, <2>2, <2>3, <2>4
<1>3. Min({t.propagated, cut}) = cut
  <2> HIDE DEF cut
  <2>1. {t.propagated, cut} = {cut, t.propagated}
    OBVIOUS
  <2> QED
    BY <2>1, <1>1, <1>2, MinOfTwo
<1> QED
  BY <1>1, <1>2, <1>3, BacktrackSelects

\* What backtracking keeps of a trail t in u: the assigned literals of the
\* levels up to new, in their order; those from where the first undone level
\* started on are propagated again.
Kept(t, u, l, new) ==
  IF Val(t, l) # 0 /\ LevelOf(t, l) <= new
  THEN /\ Val(u, l) = Val(t, l) /\ LevelOf(u, l) = LevelOf(t, l)
       /\ Pos(u, l) \in Positions(u)
       /\ u.trail[Pos(u, l)] = t.trail[Pos(t, l)]
       /\ new < Level(t) => IF Pos(t, l) <= u.propagated THEN Pos(u, l) = Pos(t, l)
                            ELSE Pos(u, l) > u.propagated
  ELSE Val(u, l) = 0

KeepsLevels(t, u, new) ==
  /\ Level(u) = new /\ new <= Level(t)
  /\ \A i \in 1..new : u.control[i] = t.control[i]
  /\ \A l \in Int : Kept(t, u, l, new)
  /\ \A l, k \in Int : Val(u, l) # 0 /\ Val(u, k) # 0 =>
       (Pos(u, l) < Pos(u, k) <=> Pos(t, l) < Pos(t, k))
  /\ \A k \in Positions(u) : \E j \in Positions(t) :
       u.trail[k] = t.trail[j] /\ t.trail[j].level <= new
  /\ IF new = Level(t) THEN u = t
     ELSE u.propagated = t.control[new + 1].trail

\* Backtracking leaves a trail of the search.
LEMMA BacktrackShape ==
  ASSUME NEW t, Shape(t), NEW new \in 0..Level(t)
  PROVE  Shape(Backtrack(t, new)) /\ KeepsLevels(t, Backtrack(t, new), new)
<1> DEFINE u == Backtrack(t, new)
           cut == t.control[new + 1].trail
           n == Len(t.trail)
<1>1. t \in Trails /\ Distinct(t) /\ Heights(t) /\ Placed(t)
  BY DEF Shape
<1>2. n \in Nat /\ Level(t) \in Nat /\ new \in Nat /\ Positions(t) = 1..n
      /\ \A k \in Positions(t) : t.trail[k] \in Assignments /\ t.trail[k].level \in Nat
                                 /\ t.trail[k].lit \in Int /\ k \in Nat
  BY <1>1, TrailTypes DEF Positions
<1>3. CASE new = Level(t)
  <2>1. u = t
    BY <1>3 DEF Backtrack
  <2>2. KeepsLevels(t, t, Level(t))
    <3>1. ASSUME NEW l \in Int PROVE Kept(t, t, l, Level(t))
      <4>1. Val(t, l) # 0 =>
              Pos(t, l) \in Positions(t) /\ LevelOf(t, l) = t.trail[Pos(t, l)].level
        BY <1>1, Values
      <4>2. Val(t, l) # 0 => LevelOf(t, l) <= Level(t)
        BY <4>1, <1>1 DEF Placed
      <4> QED
        BY <4>1, <4>2, <1>2 DEF Kept
    <3>2. \A k \in Positions(t) : t.trail[k].level <= Level(t)
      BY <1>1 DEF Placed
    <3> QED
      BY <3>1, <3>2, <1>2 DEF KeepsLevels
  <2> QED
    BY <2>1, <2>2, <1>3
<1>4. CASE new # Level(t)
  <2>1. new \in 0..Level(t) - 1
    BY <1>2, <1>4
  <2>2. /\ \E m : Selects(t, u.trail, m, n, cut, new)
        /\ u.control = SubSeq(t.control, 1, new) /\ u.propagated = cut
        /\ u \in Trails /\ cut \in 0..n
    BY <2>1, BacktrackMoves
  <2> HIDE DEF u
  <2>3. PICK m : Selects(t, u.trail, m, n, cut, new)
    BY <2>2
  <2>4. /\ Level(u) = new /\ \A i \in 1..new : u.control[i] = t.control[i]
        /\ new < Level(t) /\ new + 1 \in 1..Level(t) /\ \A i \in 1..new : i \in 1..Level(t)
    <3>1. t.control \in Seq(Controls) /\ new \in 0..Len(t.control) /\ new <= Level(t)
      BY <1>1, <1>2 DEF Trails, Level
    <3>2. Len(SubSeq(t.control, 1, new)) = new
          /\ \A i \in 1..new : SubSeq(t.control, 1, new)[i] = t.control[i]
      BY <3>1
    <3> QED
      BY <3>2, <2>1, <2>2, <1>2 DEF Level
  <2>5. /\ Positions(u) \subseteq Nat /\ \A i \in Positions(u) : i \in Nat
        /\ Positions(u) = 1..Len(u.trail) /\ Len(u.trail) \in Nat /\ cut \in Nat
    BY <2>2, TrailTypes DEF Positions
  <2> HIDE DEF cut
  <2>6. \A k \in Positions(t) : k <= cut => t.trail[k].level <= new
    <3> SUFFICES ASSUME NEW k \in Positions(t), t.trail[k].level > new PROVE cut < k
      BY <1>2, <2>5
    <3>1. new + 1 \in 1..t.trail[k].level
      BY <1>2
    <3> QED
      BY <3>1, <1>1 DEF Placed, cut
  <2>7. /\ \A i \in Positions(u) :
             /\ m[i] \in Positions(t) /\ u.trail[i] = t.trail[m[i]]
             /\ t.trail[m[i]].level <= new
        /\ \A i, j \in Positions(u) : i < j => m[i] < m[j]
        /\ \A j \in Positions(t) : t.trail[j].level <= new => \E i \in Positions(u) : m[i] = j
        /\ cut <= Len(u.trail) /\ \A i \in 1..cut : m[i] = i
    <3>1. \A i \in Positions(u) : m[i] \in Positions(t)
      BY <2>3, <2>5, <1>2 DEF Selects
    <3>2. \A i \in Positions(u) :
            /\ u.trail[i] = t.trail[m[i]] /\ (m[i] <= cut \/ t.trail[m[i]].level <= new)
            /\ \A j \in Positions(u) : i < j => m[i] < m[j]
      BY <2>3, <2>5 DEF Selects
    <3>3. /\ \A j \in Positions(t) : t.trail[j].level <= new => \E i \in Positions(u) : m[i] = j
          /\ cut <= Len(u.trail) /\ \A i \in 1..cut : m[i] = i
      BY <2>3, <2>5, <1>2 DEF Selects
    <3> QED
      BY <3>1, <3>2, <3>3, <2>6
  <2>8. \A i, j \in Positions(u) : m[i] < m[j] <=> i < j
    <3> SUFFICES ASSUME NEW i \in Positions(u), NEW j \in Positions(u), m[i] < m[j]
                 PROVE  i < j
      BY <2>7
    <3>1. ~(j < i) /\ i # j
      <4>1. m[i] \in Nat /\ m[j] \in Nat
        BY <2>7, <1>2
      <4> QED
        BY <4>1, <2>7
    <3> QED
      BY <3>1, <2>5
  <2>9. \A i \in Positions(u) : IF m[i] <= cut THEN m[i] = i ELSE i > cut
    <3> SUFFICES ASSUME NEW i \in Positions(u)
                 PROVE  IF m[i] <= cut THEN m[i] = i ELSE i > cut
      OBVIOUS
    <3>1. m[i] \in Nat /\ m[i] >= 1 /\ i >= 1
      BY <2>5, <2>7, <1>2
    <3>2. CASE m[i] <= cut
      <4>1. m[i] \in 1..cut /\ m[i] \in Positions(u)
        BY <3>1, <3>2, <2>5, <2>7
      <4>2. m[m[i]] = m[i]
        BY <4>1, <2>7
      <4>3. ~(m[i] < i) /\ ~(i < m[i])
        BY <4>1, <4>2, <2>8, <3>1
      <4> QED
        BY <4>3, <3>1, <3>2, <2>5
    <3>3. CASE ~(m[i] <= cut)
      <4>1. i \notin 1..cut
        BY <3>3, <2>7, <3>1, <2>5
      <4> QED
        BY <4>1, <3>1, <3>3, <2>5
    <3> QED
      BY <3>2, <3>3
  <2>10. Distinct(u)
    <3> SUFFICES ASSUME NEW k \in Positions(u)
                 PROVE  /\ u.trail[k].lit # 0
                        /\ \A j \in Positions(u) \ {k} :
                             u.trail[j].lit # u.trail[k].lit /\ u.trail[j].lit # -u.trail[k].lit
      BY DEF Distinct
    <3>1. \A j \in Positions(u) \ {k} : m[j] \in Positions(t) \ {m[k]}
      <4> SUFFICES ASSUME NEW j \in Positions(u) \ {k} PROVE m[j] # m[k]
        BY <2>7
      <4>1. j < k \/ k < j
        BY <2>5
      <4>2. m[j] < m[k] \/ m[k] < m[j]
        BY <4>1, <2>7
      <4>3. m[j] \in Nat /\ m[k] \in Nat
        BY <2>7, <1>2
      <4> QED
        BY <4>2, <4>3
    <3> QED
      BY <3>1, <2>7, <1>1, SMTT(40) DEF Distinct
  <2>11. Heights(u)
    <3> SUFFICES ASSUME NEW i \in 1..new
                 PROVE  /\ t.control[i].trail <= Len(u.trail)
                        /\ \A j \in i..new : t.control[i].trail <= t.control[j].trail
                        /\ t.control[i].decision # 0 =>
                             /\ t.control[i].trail < Len(u.trail)
                             /\ \A j \in i + 1..new : t.control[i].trail < t.control[j].trail
                             /\ u.trail[t.control[i].trail + 1] =
                                  [lit |-> t.control[i].decision, level |-> i,
                                   reason |-> NoReason]
      <4>1. \A k \in 1..new : \A j \in k..new : j \in 1..new
        BY <1>2
      <4>2. \A k \in 1..new : \A j \in k + 1..new : j \in 1..new
        BY <1>2
      <4> QED
        BY <2>4, <4>1, <4>2 DEF Heights
    <3>1. i \in 1..Level(t) /\ t.control[i].trail \in Nat /\ new + 1 \in i..Level(t)
          /\ new + 1 \in i + 1..Level(t)
          /\ (\A j \in i..new : j \in i..Level(t)) /\ (\A j \in i + 1..new : j \in i + 1..Level(t))
      BY <2>4, <1>1, <1>2, TrailTypes
    <3>2. /\ \A j \in i..Level(t) : t.control[i].trail <= t.control[j].trail
          /\ t.control[i].decision # 0 =>
               /\ \A j \in i + 1..Level(t) : t.control[i].trail < t.control[j].trail
               /\ t.trail[t.control[i].trail + 1] =
                    [lit |-> t.control[i].decision, level |-> i, reason |-> NoReason]
      BY <3>1, <1>1 DEF Heights
    <3>3. t.control[i].trail <= cut
          /\ (t.control[i].decision # 0 => t.control[i].trail < cut)
      BY <3>1, <3>2 DEF cut
    <3>4. t.control[i].trail <= Len(u.trail)
          /\ (t.control[i].decision # 0 => t.control[i].trail < Len(u.trail))
      BY <3>1, <3>3, <2>5, <2>7
    <3>5. ASSUME t.control[i].decision # 0
          PROVE  u.trail[t.control[i].trail + 1] = t.trail[t.control[i].trail + 1]
      <4>1. t.control[i].trail + 1 \in 1..cut /\ t.control[i].trail + 1 \in Positions(u)
        BY <3>5, <3>1, <3>3, <3>4, <2>5
      <4> QED
        BY <4>1, <2>7
    <3> QED
      BY <3>1, <3>2, <3>4, <3>5
  <2>12. Placed(u)
    <3> SUFFICES ASSUME NEW k \in Positions(u)
                 PROVE  /\ u.trail[k].level <= new
                        /\ \A i \in 1..u.trail[k].level : t.control[i].trail < k
                        /\ u.trail[k].reason = NoReason /\ u.trail[k].level > 0 =>
                             /\ t.control[u.trail[k].level].trail + 1 = k
                             /\ t.control[u.trail[k].level].decision = u.trail[k].lit
      <4>1. \A j \in Positions(u) : u.trail[j].level \in Nat
        BY <2>2, TrailTypes
      <4>2. \A j \in Positions(u) : u.trail[j].level <= new =>
              \A i \in 1..u.trail[j].level : i \in 1..new
        BY <4>1, <1>2
      <4>3. \A j \in Positions(u) : u.trail[j].level <= new /\ u.trail[j].level > 0 =>
              u.trail[j].level \in 1..new
        BY <4>1, <1>2
      <4> QED
        BY <2>4, <4>2, <4>3 DEF Placed
    <3>1. /\ m[k] \in Positions(t) /\ u.trail[k] = t.trail[m[k]] /\ u.trail[k].level <= new
          /\ u.trail[k].level \in Nat
      BY <2>7, <1>2
    <3>2. /\ \A i \in 1..u.trail[k].level : t.control[i].trail < m[k]
          /\ u.trail[k].reason = NoReason /\ u.trail[k].level > 0 =>
               /\ t.control[u.trail[k].level].trail + 1 = m[k]
               /\ t.control[u.trail[k].level].decision = u.trail[k].lit
      BY <3>1, <1>1 DEF Placed
    <3>3. ASSUME NEW i \in 1..u.trail[k].level PROVE t.control[i].trail < k
      <4>1. i \in 1..Level(t) /\ new + 1 \in i..Level(t)
        BY <3>1, <2>4, <1>2
      <4>2. t.control[i].trail <= cut /\ t.control[i].trail \in Nat
        BY <4>1, <1>1, TrailTypes DEF Heights, cut
      <4> QED
        BY <4>2, <3>2, <2>5, <2>9
    <3>4. ASSUME u.trail[k].reason = NoReason, u.trail[k].level > 0
          PROVE  m[k] = k
      <4> DEFINE i == u.trail[k].level
      <4>1. i \in 1..Level(t) /\ new + 1 \in i + 1..Level(t) /\ m[k] \in Nat
        BY <3>1, <3>4, <2>4, <1>2
      <4>2. t.control[i].trail + 1 = m[k] /\ t.control[i].decision # 0
        BY <3>1, <3>2, <3>4, <1>1 DEF Distinct
      <4>3. t.control[i].trail < cut /\ t.control[i].trail \in Nat
        BY <4>1, <4>2, <1>1, TrailTypes DEF Heights, cut
      <4>4. m[k] <= cut
        <5> HIDE DEF i
        <5>1. \A x \in Nat : x < cut => x + 1 <= cut
          BY <2>5
        <5> QED
          BY <4>2, <4>3, <5>1
      <4> QED
        BY <4>4, <2>9
    <3> QED
      BY <3>1, <3>2, <3>3, <3>4
  <2>13. u.propagated <= Len(u.trail)
         /\ (Level(u) > 0 => u.control[Level(u)].trail <= u.propagated)
    <3>1. new > 0 => t.control[new].trail <= cut
      <4> SUFFICES ASSUME new > 0 PROVE t.control[new].trail <= cut
        OBVIOUS
      <4>1. new \in 1..Level(t) /\ new + 1 \in new..Level(t)
        BY <2>4, <1>2
      <4> QED
        BY <4>1, <1>1 DEF Heights, cut
    <3>2. new > 0 => new \in 1..new
      BY <1>2
    <3> QED
      BY <3>1, <3>2, <2>2, <2>4, <2>7 DEF cut
  <2>14. Shape(u)
    BY <2>2, <2>10, <2>11, <2>12, <2>13 DEF Shape
  <2>15. ASSUME NEW l \in Int
         PROVE  /\ Kept(t, u, l, new)
                /\ Val(u, l) # 0 => Pos(u, l) \in Positions(u) /\ m[Pos(u, l)] = Pos(t, l)
    <3>1. CASE Val(t, l) # 0 /\ LevelOf(t, l) <= new
      <4>1. /\ Pos(t, l) \in Positions(t) /\ LevelOf(t, l) = t.trail[Pos(t, l)].level
            /\ t.trail[Pos(t, l)].lit = IF Val(t, l) = 1 THEN l ELSE -l
            /\ Val(t, l) \in {-1, 0, 1}
        BY <3>1, <1>1, Values
      <4>2. PICK i \in Positions(u) : m[i] = Pos(t, l)
        BY <4>1, <3>1, <2>7
      <4>3. u.trail[i] = t.trail[Pos(t, l)]
        BY <4>2, <2>7
      <4>4. l \in {u.trail[i].lit, -u.trail[i].lit}
            /\ (Val(t, l) = 1 => l = u.trail[i].lit) /\ (Val(t, l) # 1 => l = -u.trail[i].lit)
        BY <4>1, <4>3
      <4>5. Pos(u, l) = i /\ LevelOf(u, l) = u.trail[i].level
            /\ (Val(t, l) = 1 => Val(u, l) = 1) /\ (Val(t, l) # 1 => Val(u, l) = -1)
        BY <4>4, <2>2, <2>10, AtPosition
      <4>6. Val(u, l) = Val(t, l)
        BY <4>1, <4>5, <3>1
      <4>7. IF Pos(t, l) <= cut THEN i = Pos(t, l) ELSE i > cut
        BY <4>2, <2>9
      <4> QED
        BY <3>1, <4>1, <4>2, <4>3, <4>5, <4>6, <4>7, <2>2 DEF Kept, cut
    <3>2. CASE ~(Val(t, l) # 0 /\ LevelOf(t, l) <= new)
      <4>1. ASSUME Val(u, l) # 0 PROVE FALSE
        <5>1. /\ Pos(u, l) \in Positions(u)
              /\ u.trail[Pos(u, l)].lit \in {l, -l}
          BY <4>1, <2>2, <2>10, Values
        <5> DEFINE i == Pos(u, l)
        <5>2. m[i] \in Positions(t) /\ t.trail[m[i]].lit \in {l, -l} /\ t.trail[m[i]].level <= new
          BY <5>1, <2>7
        <5>3. l \in {t.trail[m[i]].lit, -t.trail[m[i]].lit}
          BY <5>2
        <5>4. Val(t, l) # 0 /\ LevelOf(t, l) = t.trail[m[i]].level
          BY <5>2, <5>3, <1>1, AtPosition
        <5> QED
          BY <5>2, <5>4, <3>2
      <4> QED
        BY <4>1, <3>2 DEF Kept
    <3> QED
      BY <3>1, <3>2
  <2>16. KeepsLevels(t, u, new)
    <3>1. \A l, k \in Int : Val(u, l) # 0 /\ Val(u, k) # 0 =>
            (Pos(u, l) < Pos(u, k) <=> Pos(t, l) < Pos(t, k))
      BY <2>15, <2>8
    <3>2. \A k \in Positions(u) : \E j \in Positions(t) :
            u.trail[k] = t.trail[j] /\ t.trail[j].level <= new
      BY <2>7
    <3>3. new <= Level(t)
      BY <2>4, <1>2
    <3> QED
      BY <3>1, <3>2, <3>3, <2>2, <2>4, <2>15, <1>4 DEF KeepsLevels, cut
  <2> QED
    BY <2>14, <2>16 DEF u
<1> QED
  BY <1>3, <1>4

-----------------------------------------------------------------------------
(* The implication graph. *)

\* A clause of a database over n variables watches two of its literals.
Clauses(n) == [lits : SUBSET LitsOf(n), watch : SUBSET LitsOf(n),
               redundant : BOOLEAN, garbage : BOOLEAN]

\* A clause watches two of its literals.
Watching(c) == \E a, b \in c.lits : a # b /\ c.watch = {a, b}

\* The clause databases: finitely many clauses of at least two literals.
IsDatabase(n, db) ==
  /\ db = [i \in DOMAIN db |-> db[i]]
  /\ DOMAIN db \subseteq Nat \ {0} /\ IsFiniteSet(DOMAIN db)
  /\ \A i \in DOMAIN db :
       db[i] \in Clauses(n) /\ Cardinality(db[i].lits) >= 2 /\ Watching(db[i])

\* The trail assigns variables up to n.
Over(n, t) == \A k \in Positions(t) : t.trail[k].lit \in LitsOf(n)

\* The reason at position k implies the literal there from lower positions,
\* one of them of the same level.
Reasoned(db, t, k) ==
  t.trail[k].reason # NoReason =>
    /\ t.trail[k].reason \in DOMAIN db /\ t.trail[k].level > 0
    /\ t.trail[k].lit \in db[t.trail[k].reason].lits
    /\ \A l \in db[t.trail[k].reason].lits \ {t.trail[k].lit} :
         Val(t, l) = -1 /\ Pos(t, l) < k /\ LevelOf(t, l) <= t.trail[k].level
    /\ \E l \in db[t.trail[k].reason].lits \ {t.trail[k].lit} :
         LevelOf(t, l) = t.trail[k].level

\* A long clause is no garbage while it is a reason.
Protected(db, t, k) ==
  /\ t.trail[k].reason # NoReason
  /\ Cardinality(db[t.trail[k].reason].lits) > 2
  => ~db[t.trail[k].reason].garbage

\* The trail is an implication graph of the clauses.
Graph(db, t) == \A k \in Positions(t) : Reasoned(db, t, k) /\ Protected(db, t, k)

\* Without chronological backtracking no literal is out of order.
Ordered(t) ==
  \A k \in Positions(t), i \in 1..Level(t) : t.control[i].trail < k => i <= t.trail[k].level

\* Literals are numbers other than 0, closed under negation.
LEMMA LitFacts ==
  ASSUME NEW n
  PROVE  \A l \in LitsOf(n) : /\ l \in Int /\ l # 0 /\ -l \in LitsOf(n) /\ -(-l) = l
                              /\ l # -l /\ VarOf(l) \in 1..n
<1> SUFFICES ASSUME NEW l \in LitsOf(n)
             PROVE  l \in Int /\ l # 0 /\ -l \in LitsOf(n) /\ -(-l) = l /\ l # -l
                    /\ VarOf(l) \in 1..n
  OBVIOUS
<1>1. CASE l \in 1..n
  BY <1>1 DEF LitsOf, VarOf
<1>2. CASE l \in {-v : v \in 1..n}
  <2>1. PICK v \in 1..n : l = -v
    BY <1>2
  <2> QED
    BY <2>1 DEF LitsOf, VarOf
<1> QED
  BY <1>1, <1>2 DEF LitsOf

\* A literal is true or its negation is.
LEMMA SatNegation ==
  ASSUME NEW n, NEW l \in LitsOf(n), NEW T
  PROVE  SatLit(T, -l) <=> ~SatLit(T, l)
<1>1. l \in Int /\ l # 0
  BY LitFacts
<1>2. CASE l > 0
  BY <1>1, <1>2 DEF SatLit
<1>3. CASE ~(l > 0)
  BY <1>1, <1>3 DEF SatLit
<1> QED
  BY <1>2, <1>3

\* The types of a clause.
LEMMA ClauseTypes ==
  ASSUME NEW n \in Nat, NEW db, IsDatabase(n, db), NEW i \in DOMAIN db
  PROVE  /\ db[i].lits \subseteq LitsOf(n) /\ IsFiniteSet(db[i].lits)
         /\ db[i].watch \subseteq db[i].lits
         /\ Cardinality(db[i].lits) \in Nat /\ Cardinality(db[i].lits) >= 2
         /\ i \in Nat /\ i # 0 /\ i # NoReason
         /\ db[i].redundant \in BOOLEAN /\ db[i].garbage \in BOOLEAN
         /\ db[i] \in Clauses(n) /\ Watching(db[i])
<1>1. /\ db[i] \in Clauses(n) /\ Cardinality(db[i].lits) >= 2 /\ Watching(db[i])
      /\ i \in Nat /\ i # 0
  BY DEF IsDatabase
<1>2. /\ db[i].lits \subseteq LitsOf(n)
      /\ db[i].redundant \in BOOLEAN /\ db[i].garbage \in BOOLEAN
  BY <1>1 DEF Clauses
<1>3. IsFiniteSet(LitsOf(n))
  <2>1. IsFiniteSet(1..n)
    BY FS_Interval
  <2> DEFINE f == [v \in 1..n |-> -v]
  <2>2. f \in Surjection(1..n, {-v : v \in 1..n})
    BY DEF Surjection
  <2>3. IsFiniteSet({-v : v \in 1..n})
    BY <2>1, <2>2, FS_Surjection
  <2> QED
    BY <2>1, <2>3, FS_Union DEF LitsOf
<1>4. IsFiniteSet(db[i].lits)
  BY <1>2, <1>3, FS_Subset
<1>5. Cardinality(db[i].lits) \in Nat
  BY <1>4, FS_CardinalityType
<1> QED
  BY <1>1, <1>2, <1>4, <1>5 DEF Watching, NoReason

\* The literals of the clauses of a database.
LEMMA ClauseLits ==
  ASSUME NEW n \in Nat, NEW db, IsDatabase(n, db)
  PROVE  \A i \in DOMAIN db : \A l \in db[i].lits :
           l \in LitsOf(n) /\ -l \in LitsOf(n) /\ l \in Int /\ -l \in Int /\ l # 0 /\ -(-l) = l
BY ClauseTypes, LitFacts

\* Where an assigned literal is.
LEMMA AssignedFacts ==
  ASSUME NEW t, Shape(t)
  PROVE  \A l \in Int : Val(t, l) # 0 =>
           /\ Pos(t, l) \in Positions(t) /\ Pos(t, l) \in Nat /\ Pos(t, l) <= Len(t.trail)
           /\ Pos(t, l) >= 1
           /\ LevelOf(t, l) \in Nat /\ LevelOf(t, l) <= Level(t)
           /\ LevelOf(t, l) = t.trail[Pos(t, l)].level
           /\ t.trail[Pos(t, l)].lit = IF Val(t, l) = 1 THEN l ELSE -l
<1> SUFFICES ASSUME NEW l \in Int, Val(t, l) # 0
             PROVE  /\ Pos(t, l) \in Positions(t) /\ Pos(t, l) \in Nat
                    /\ Pos(t, l) <= Len(t.trail) /\ Pos(t, l) >= 1
                    /\ LevelOf(t, l) \in Nat /\ LevelOf(t, l) <= Level(t)
                    /\ LevelOf(t, l) = t.trail[Pos(t, l)].level
                    /\ t.trail[Pos(t, l)].lit = IF Val(t, l) = 1 THEN l ELSE -l
  OBVIOUS
<1>1. t \in Trails /\ Distinct(t) /\ Placed(t)
  BY DEF Shape
<1>2. /\ Pos(t, l) \in Positions(t) /\ LevelOf(t, l) = t.trail[Pos(t, l)].level
      /\ t.trail[Pos(t, l)].lit = IF Val(t, l) = 1 THEN l ELSE -l
  BY <1>1, Values
<1>3. Len(t.trail) \in Nat /\ t.trail[Pos(t, l)].level \in Nat
  BY <1>1, <1>2, TrailTypes
<1> QED
  BY <1>1, <1>2, <1>3 DEF Placed, Positions

\* The graph on top of which a literal is put.
LEMMA GraphOnTop ==
  ASSUME NEW n \in Nat, NEW db, IsDatabase(n, db), NEW t, Shape(t), Graph(db, t),
         NEW u \in Trails, NEW e \in Assignments, OnTop(t, u, e),
         e.lit # 0, Val(t, e.lit) = 0,
         e.reason # NoReason =>
           /\ e.reason \in DOMAIN db /\ e.level > 0 /\ e.lit \in db[e.reason].lits
           /\ \A l \in db[e.reason].lits \ {e.lit} : Val(t, l) = -1 /\ LevelOf(t, l) <= e.level
           /\ \E l \in db[e.reason].lits \ {e.lit} : LevelOf(t, l) = e.level
           /\ Cardinality(db[e.reason].lits) > 2 => ~db[e.reason].garbage
  PROVE  Graph(db, u)
<1> DEFINE N == Len(t.trail)
<1>1. t \in Trails /\ Distinct(t) /\ N \in Nat /\ Positions(t) = 1..N
  BY TrailTypes DEF Shape, Positions
<1>2. /\ Positions(u) = Positions(t) \cup {N + 1}
      /\ \A k \in Positions(t) : u.trail[k] = t.trail[k]
      /\ u.trail[N + 1] = e
      /\ \A l \in Int : Val(t, l) # 0 =>
           Val(u, l) = Val(t, l) /\ Pos(u, l) = Pos(t, l) /\ LevelOf(u, l) = LevelOf(t, l)
  BY <1>1, OnTopView
<1> HIDE DEF N
<1>3. \A i \in DOMAIN db : \A l \in db[i].lits : l \in Int
  BY ClauseTypes, LitFacts
<1>4. ASSUME NEW k \in Positions(u) PROVE Reasoned(db, u, k) /\ Protected(db, u, k)
  <2>1. CASE k \in Positions(t)
    <3>1. u.trail[k] = t.trail[k] /\ Reasoned(db, t, k) /\ Protected(db, t, k)
      BY <2>1, <1>2 DEF Graph
    <3>2. ASSUME t.trail[k].reason # NoReason
          PROVE  \A l \in db[t.trail[k].reason].lits \ {t.trail[k].lit} :
                   Val(u, l) = Val(t, l) /\ Pos(u, l) = Pos(t, l) /\ LevelOf(u, l) = LevelOf(t, l)
      <4>1. /\ t.trail[k].reason \in DOMAIN db
            /\ \A l \in db[t.trail[k].reason].lits \ {t.trail[k].lit} : Val(t, l) = -1
        BY <3>1, <3>2 DEF Reasoned
      <4> QED
        BY <4>1, <1>2, <1>3
    <3>3. Reasoned(db, u, k)
      BY <3>1, <3>2 DEF Reasoned
    <3> QED
      BY <3>1, <3>3 DEF Protected
  <2>2. CASE k = N + 1
    <3>1. u.trail[k] = e
      BY <2>2, <1>2
    <3>2. ASSUME e.reason # NoReason
          PROVE  \A l \in db[e.reason].lits \ {e.lit} :
                   Val(u, l) = -1 /\ Pos(u, l) < k /\ LevelOf(u, l) = LevelOf(t, l)
      <4> SUFFICES ASSUME NEW l \in db[e.reason].lits \ {e.lit}
                   PROVE  Val(u, l) = -1 /\ Pos(u, l) < k /\ LevelOf(u, l) = LevelOf(t, l)
        OBVIOUS
      <4>1. l \in Int /\ Val(t, l) = -1
        BY <3>2, <1>3
      <4>2. Pos(t, l) \in 1..N
        BY <4>1, <1>1, Values, SMTT(40)
      <4>3. Val(u, l) = -1 /\ Pos(u, l) = Pos(t, l) /\ LevelOf(u, l) = LevelOf(t, l)
        BY <4>1, <1>2
      <4> QED
        BY <4>2, <4>3, <1>1, <2>2
    <3>3. Reasoned(db, u, k)
      BY <3>1, <3>2 DEF Reasoned
    <3> QED
      BY <3>1, <3>3 DEF Protected
  <2> QED
    BY <2>1, <2>2, <1>2
<1> QED
  BY <1>4 DEF Graph

\* The entry of a literal that backtracking keeps.
LEMMA KeptEntry ==
  ASSUME NEW t, Shape(t), NEW u, Shape(u), NEW new \in Nat, KeepsLevels(t, u, new),
         NEW k \in Positions(u)
  PROVE  \E j \in Positions(t) :
           /\ u.trail[k] = t.trail[j] /\ t.trail[j].level <= new
           /\ Pos(u, t.trail[j].lit) = k /\ Pos(t, t.trail[j].lit) = j
           /\ new < Level(t) => IF j <= u.propagated THEN k = j ELSE k > u.propagated
<1>1. PICK j \in Positions(t) : u.trail[k] = t.trail[j] /\ t.trail[j].level <= new
  BY DEF KeepsLevels
<1> DEFINE l == t.trail[j].lit
<1>2. l \in Int /\ Pos(t, l) = j /\ Val(t, l) = 1 /\ LevelOf(t, l) = t.trail[j].level
  BY AtPosition, TrailTypes DEF Shape
<1>3. Pos(u, l) = k
  BY <1>1, AtPosition DEF Shape
<1>4. Kept(t, u, l, new)
  BY <1>2 DEF KeepsLevels
<1> QED
  BY <1>1, <1>2, <1>3, <1>4 DEF Kept

\* Backtracking keeps the reasons of what it keeps.
LEMMA GraphBacktrack ==
  ASSUME NEW n \in Nat, NEW db, IsDatabase(n, db), NEW t, Shape(t),
         NEW u, Shape(u), NEW new \in Nat, KeepsLevels(t, u, new),
         \A k \in Positions(t) :
           t.trail[k].level <= new => Reasoned(db, t, k) /\ Protected(db, t, k)
  PROVE  Graph(db, u)
<1>1. t \in Trails /\ Distinct(t)
  BY DEF Shape
<1> SUFFICES ASSUME NEW k \in Positions(u) PROVE Reasoned(db, u, k) /\ Protected(db, u, k)
  BY DEF Graph
<1>2. PICK j \in Positions(t) :
           /\ u.trail[k] = t.trail[j] /\ t.trail[j].level <= new
           /\ Pos(u, t.trail[j].lit) = k /\ Pos(t, t.trail[j].lit) = j
  BY KeptEntry
<1>3. Reasoned(db, t, j) /\ Protected(db, t, j)
  BY <1>2
<1>4. t.trail[j].lit \in Int /\ Val(u, t.trail[j].lit) = 1 /\ t.trail[j].level \in Nat
  <2>1. u \in Trails /\ Distinct(u) /\ t.trail[j].lit = u.trail[k].lit
    BY <1>2 DEF Shape
  <2> QED
    BY <2>1, <1>1, AtPosition, TrailTypes
<1>5. ASSUME t.trail[j].reason # NoReason,
             NEW l \in db[t.trail[j].reason].lits \ {t.trail[j].lit}
      PROVE  Val(u, l) = -1 /\ Pos(u, l) < k /\ LevelOf(u, l) = LevelOf(t, l)
  <2>1. /\ t.trail[j].reason \in DOMAIN db
        /\ Val(t, l) = -1 /\ Pos(t, l) < j /\ LevelOf(t, l) <= t.trail[j].level
    BY <1>3, <1>5 DEF Reasoned
  <2>2. l \in Int
    BY <2>1, ClauseLits
  <2>3. LevelOf(t, l) \in Nat
    BY <2>1, <2>2, AssignedFacts
  <2>4. LevelOf(t, l) <= new
    BY <1>2, <1>4, <2>1, <2>3
  <2>5. Val(u, l) = -1 /\ LevelOf(u, l) = LevelOf(t, l)
    BY <2>1, <2>2, <2>4 DEF KeepsLevels, Kept
  <2>6. Pos(u, l) < Pos(u, t.trail[j].lit) <=> Pos(t, l) < Pos(t, t.trail[j].lit)
    BY <2>2, <2>5, <1>4 DEF KeepsLevels
  <2> QED
    BY <2>1, <2>5, <2>6, <1>2
<1>6. Reasoned(db, u, k)
  BY <1>2, <1>3, <1>5 DEF Reasoned
<1> QED
  BY <1>2, <1>3, <1>6 DEF Protected

\* Backtracking an ordered trail cuts it.
LEMMA OrderedBacktrack ==
  ASSUME NEW t, Shape(t), Ordered(t), NEW u, Shape(u), NEW new \in Nat,
         KeepsLevels(t, u, new)
  PROVE  Ordered(u)
<1>1. CASE new = Level(t)
  BY <1>1 DEF KeepsLevels
<1>2. CASE new # Level(t)
  <2>1. /\ Level(u) = new /\ new < Level(t) /\ Level(t) \in Nat
        /\ \A i \in 1..new : u.control[i] = t.control[i]
        /\ u.propagated = t.control[new + 1].trail /\ new + 1 \in 1..Level(t)
        /\ u.propagated \in Nat
    BY <1>2, TrailTypes DEF KeepsLevels, Shape
  <2> SUFFICES ASSUME NEW k \in Positions(u), NEW i \in 1..new, t.control[i].trail < k
               PROVE  i <= u.trail[k].level
    BY <2>1 DEF Ordered
  <2>2. PICK j \in Positions(t) :
           /\ u.trail[k] = t.trail[j] /\ t.trail[j].level <= new
           /\ IF j <= u.propagated THEN k = j ELSE k > u.propagated
    BY <2>1, KeptEntry
  <2>3. j \in Nat /\ t.trail[j].level \in Nat /\ i \in 1..Level(t)
    BY <2>1, TrailTypes DEF Shape
  <2>4. CASE j <= u.propagated
    BY <2>2, <2>3, <2>4 DEF Ordered
  <2>5. CASE ~(j <= u.propagated)
    <3>1. new + 1 <= t.trail[j].level
      BY <2>1, <2>3, <2>5 DEF Ordered
    <3> QED
      BY <3>1, <2>2, <2>3
  <2> QED
    BY <2>4, <2>5
<1> QED
  BY <1>1, <1>2

\* A literal of the current level keeps the order.
LEMMA OrderedOnTop ==
  ASSUME NEW t, Shape(t), Ordered(t), NEW u \in Trails, NEW e \in Assignments,
         OnTop(t, u, e), e.lit # 0, Val(t, e.lit) = 0,
         u.control = t.control, e.level = Level(t)
  PROVE  Ordered(u)
<1>1. t \in Trails /\ Distinct(t) /\ Level(t) \in Nat
  BY TrailTypes DEF Shape
<1>2. /\ Positions(u) = Positions(t) \cup {Len(t.trail) + 1}
      /\ \A k \in Positions(t) : u.trail[k] = t.trail[k]
      /\ u.trail[Len(t.trail) + 1] = e
  BY <1>1, OnTopView
<1>3. Level(u) = Level(t)
  BY DEF Level
<1> QED
  BY <1>1, <1>2, <1>3 DEF Ordered

\* What the trail keeps stays over the same variables.
LEMMA OverBacktrack ==
  ASSUME NEW n, NEW t, Over(n, t), NEW u, NEW new, KeepsLevels(t, u, new)
  PROVE  Over(n, u)
BY DEF Over, KeepsLevels

-----------------------------------------------------------------------------
(* The watches. *)

\* The literal w is false and among the first b literals of the trail.
DoneTo(t, b, w) == Val(t, w) = -1 /\ Pos(t, w) <= b

\* When l is unassigned by backtracking, so is w, or it is propagated again.
Cover(t, l, w) ==
  LevelOf(t, l) <= LevelOf(t, w) \/ t.control[LevelOf(t, l)].trail < Pos(t, w)

\* The watches of clause c are right for the first b literals of the trail: a
\* clause with only false watches there, or with one of the root level, has a
\* true literal that lasts as long.
WatchOK(t, b, c) ==
  /\ \A w \in c.watch : DoneTo(t, b, w) /\ LevelOf(t, w) = 0 =>
       \E l \in c.lits : Val(t, l) = 1 /\ Cover(t, l, w)
  /\ (\A w \in c.watch : DoneTo(t, b, w)) =>
       \E l \in c.lits, w \in c.watch : Val(t, l) = 1 /\ Cover(t, l, w)

\* The watches of a clause of a database.
LEMMA WatchLits ==
  ASSUME NEW n \in Nat, NEW c \in Clauses(n)
  PROVE  \A l \in c.lits \cup c.watch : l \in LitsOf(n) /\ l \in Int /\ l # 0
BY LitFacts DEF Clauses

\* Watches that are right for more literals are right for fewer.
LEMMA WatchWeaker ==
  ASSUME NEW n \in Nat, NEW t, Shape(t), NEW c \in Clauses(n),
         NEW b \in Nat, NEW a \in Nat, a <= b, WatchOK(t, b, c)
  PROVE  WatchOK(t, a, c)
<1>1. \A w \in c.watch : DoneTo(t, a, w) => DoneTo(t, b, w)
  <2> SUFFICES ASSUME NEW w \in c.watch, DoneTo(t, a, w) PROVE DoneTo(t, b, w)
    OBVIOUS
  <2>1. w \in Int
    BY WatchLits
  <2>2. Pos(t, w) \in Nat
    BY <2>1, AssignedFacts DEF DoneTo
  <2> QED
    BY <2>2 DEF DoneTo
<1> QED
  BY <1>1 DEF WatchOK

\* Watches survive backtracking.
LEMMA WatchBacktrack ==
  ASSUME NEW n \in Nat, NEW t, Shape(t), NEW u, Shape(u), NEW new \in Nat,
         KeepsLevels(t, u, new), new < Level(t),
         NEW c \in Clauses(n), NEW b \in Nat, t.control[new + 1].trail <= b,
         WatchOK(t, b, c)
  PROVE  WatchOK(u, u.propagated, c)
<1>1. \A l \in c.lits \cup c.watch : l \in Int
  BY WatchLits
<1>2. /\ u.propagated = t.control[new + 1].trail /\ u.propagated \in Nat
      /\ Level(t) \in Nat /\ new + 1 \in 1..Level(t)
      /\ \A i \in 1..Level(t) : t.control[i].trail \in Nat
      /\ \A i \in 1..new : u.control[i] = t.control[i] /\ i \in 1..Level(t)
      /\ t \in Trails
  <2>1. t \in Trails /\ u \in Trails
    BY DEF Shape
  <2> QED
    BY <2>1, TrailTypes DEF KeepsLevels
<1>3. ASSUME NEW w \in c.watch, DoneTo(u, u.propagated, w)
      PROVE  /\ DoneTo(t, b, w) /\ LevelOf(u, w) = LevelOf(t, w) /\ Pos(u, w) = Pos(t, w)
             /\ LevelOf(t, w) \in Nat /\ LevelOf(t, w) <= new /\ Pos(t, w) \in Nat
             /\ Pos(t, w) <= u.propagated
  <2>1. w \in Int /\ Val(u, w) = -1 /\ Pos(u, w) <= u.propagated
    BY <1>1, <1>3 DEF DoneTo
  <2>2. /\ Val(t, w) # 0 /\ LevelOf(t, w) <= new
        /\ Val(u, w) = Val(t, w) /\ LevelOf(u, w) = LevelOf(t, w)
        /\ IF Pos(t, w) <= u.propagated THEN Pos(u, w) = Pos(t, w) ELSE Pos(u, w) > u.propagated
    BY <2>1 DEF KeepsLevels, Kept
  <2>3. Pos(u, w) \in Nat /\ Pos(t, w) \in Nat /\ LevelOf(t, w) \in Nat
    BY <2>1, <2>2, AssignedFacts
  <2> QED
    BY <2>1, <2>2, <2>3, <1>2 DEF DoneTo
<1>4. ASSUME NEW w \in c.watch, DoneTo(u, u.propagated, w), NEW l \in c.lits,
             Val(t, l) = 1, Cover(t, l, w)
      PROVE  Val(u, l) = 1 /\ Cover(u, l, w)
  <2>1. /\ LevelOf(u, w) = LevelOf(t, w) /\ Pos(u, w) = Pos(t, w)
        /\ LevelOf(t, w) \in Nat /\ LevelOf(t, w) <= new /\ Pos(t, w) \in Nat
        /\ Pos(t, w) <= u.propagated
    BY <1>3, <1>4
  <2>2. l \in Int /\ LevelOf(t, l) \in Nat /\ LevelOf(t, l) <= Level(t)
    BY <1>1, <1>4, AssignedFacts
  <2>3. LevelOf(t, l) <= new
    <3> SUFFICES ASSUME LevelOf(t, l) > new PROVE FALSE
      BY <2>2
    <3>1. LevelOf(t, l) \in new + 1..Level(t) /\ ~(LevelOf(t, l) <= LevelOf(t, w))
      BY <2>1, <2>2
    <3>2. t.control[LevelOf(t, l)].trail < Pos(t, w)
      BY <3>1, <1>4 DEF Cover
    <3>3. t.control[new + 1].trail <= t.control[LevelOf(t, l)].trail
      BY <3>1, <1>2 DEF Shape, Heights
    <3>4. LevelOf(t, l) \in 1..Level(t)
      BY <3>1, <1>2
    <3> QED
      BY <3>2, <3>3, <3>4, <2>1, <1>2
  <2>4. Val(u, l) = 1 /\ LevelOf(u, l) = LevelOf(t, l)
    BY <2>2, <2>3, <1>4 DEF KeepsLevels, Kept
  <2>5. LevelOf(t, l) = 0 \/ u.control[LevelOf(t, l)] = t.control[LevelOf(t, l)]
    BY <2>2, <2>3, <1>2
  <2>6. LevelOf(t, l) = 0 => LevelOf(t, l) <= LevelOf(t, w)
    BY <2>1
  <2> QED
    BY <2>1, <2>4, <2>5, <2>6, <1>4 DEF Cover
<1>5. ASSUME NEW w \in c.watch, DoneTo(u, u.propagated, w), LevelOf(u, w) = 0
      PROVE  \E l \in c.lits : Val(u, l) = 1 /\ Cover(u, l, w)
  BY <1>3, <1>4, <1>5 DEF WatchOK
<1>6. ASSUME \A w \in c.watch : DoneTo(u, u.propagated, w)
      PROVE  \E l \in c.lits, w \in c.watch : Val(u, l) = 1 /\ Cover(u, l, w)
  BY <1>3, <1>4, <1>6 DEF WatchOK
<1> QED
  BY <1>5, <1>6 DEF WatchOK

\* u has the literals of t, maybe another one on top, and its levels, maybe
\* another one.
Extends(t, u) ==
  /\ Level(t) <= Level(u) /\ \A i \in 1..Level(t) : u.control[i] = t.control[i]
  /\ u.propagated = t.propagated
  /\ \A l \in Int :
       /\ Val(t, l) # 0 =>
            Val(u, l) = Val(t, l) /\ Pos(u, l) = Pos(t, l) /\ LevelOf(u, l) = LevelOf(t, l)
       /\ Val(t, l) = 0 /\ Val(u, l) # 0 => Pos(u, l) = Len(t.trail) + 1

\* Putting a literal on top extends the trail.
LEMMA OnTopExtends ==
  ASSUME NEW t, Shape(t), NEW u \in Trails, NEW e \in Assignments, OnTop(t, u, e),
         e.lit # 0, Val(t, e.lit) = 0, u.propagated = t.propagated,
         u.control = t.control \/ \E d \in Int : NewLevel(t, u, d)
  PROVE  Extends(t, u)
<1>1. t \in Trails /\ Distinct(t) /\ Level(t) \in Nat
  BY TrailTypes DEF Shape
<1>2. \A l \in Int :
              IF Val(t, l) # 0
              THEN Val(u, l) = Val(t, l) /\ Pos(u, l) = Pos(t, l) /\ LevelOf(u, l) = LevelOf(t, l)
              ELSE /\ Val(u, l) = IF l = e.lit THEN 1 ELSE IF l = -e.lit THEN -1 ELSE 0
                   /\ l \in {e.lit, -e.lit} =>
                        Pos(u, l) = Len(t.trail) + 1 /\ LevelOf(u, l) = e.level
  BY <1>1, OnTopView
<1>3. Level(t) <= Level(u) /\ \A i \in 1..Level(t) : u.control[i] = t.control[i]
  <2>1. CASE u.control = t.control
    BY <2>1, <1>1 DEF Level
  <2>2. CASE \E d \in Int : NewLevel(t, u, d)
    <3>1. PICK d \in Int : NewLevel(t, u, d)
      BY <2>2
    <3>2. \A i \in 1..Level(t) : u.control[i] = t.control[i]
      <4> HIDE DEF NewLevel
      <4> QED
        BY <3>1, <1>1, NewLevelView, ZenonT(60)
    <3>3. Level(u) = Level(t) + 1
      BY <3>1, <1>1, NewLevelView
    <3> QED
      BY <3>2, <3>3, <1>1
  <2> QED
    BY <2>1, <2>2
<1>4. ASSUME NEW l \in Int, Val(t, l) = 0, Val(u, l) # 0
      PROVE  Pos(u, l) = Len(t.trail) + 1
  BY <1>2, <1>4
<1>5. ASSUME NEW l \in Int, Val(t, l) # 0
      PROVE  Val(u, l) = Val(t, l) /\ Pos(u, l) = Pos(t, l) /\ LevelOf(u, l) = LevelOf(t, l)
  BY <1>2, <1>5
<1> QED
  BY <1>3, <1>4, <1>5 DEF Extends

\* So does a level that decides nothing.
LEMMA PseudoLevelExtends ==
  ASSUME NEW t, Shape(t), NEW u, u.trail = t.trail, NewLevel(t, u, 0)
  PROVE  Extends(t, u)
<1>1. t \in Trails /\ Level(t) \in Nat
  BY TrailTypes DEF Shape
<1>0. 0 \in Int
  OBVIOUS
<1>2. /\ Level(u) = Level(t) + 1 /\ \A i \in 1..Level(t) : u.control[i] = t.control[i]
  BY <1>0, <1>1, NewLevelView, ZenonT(60)
<1>3. \A l \in Int : Val(u, l) = Val(t, l) /\ Pos(u, l) = Pos(t, l) /\ LevelOf(u, l) = LevelOf(t, l)
  BY DEF Val, Pos, LevelOf, TrueLits, Positions
<1>4. u.propagated = t.propagated
  BY DEF NewLevel
<1>5. Level(t) <= Level(u)
  BY <1>1, <1>2
<1> QED
  BY <1>2, <1>3, <1>4, <1>5 DEF Extends

\* Watches do not mind.
LEMMA WatchExtends ==
  ASSUME NEW n \in Nat, NEW t, Shape(t), NEW u, Shape(u), Extends(t, u),
         NEW c \in Clauses(n), NEW b \in Nat, b <= Len(t.trail), WatchOK(t, b, c)
  PROVE  WatchOK(u, b, c)
<1>1. \A l \in c.lits \cup c.watch : l \in Int
  BY WatchLits
<1>2. Len(t.trail) \in Nat /\ Level(t) \in Nat
  BY TrailTypes DEF Shape
<1>3. ASSUME NEW w \in c.watch, DoneTo(u, b, w)
      PROVE  DoneTo(t, b, w) /\ LevelOf(u, w) = LevelOf(t, w) /\ Pos(u, w) = Pos(t, w)
             /\ LevelOf(t, w) \in Nat
  <2>1. w \in Int /\ Val(u, w) = -1 /\ Pos(u, w) <= b
    BY <1>1, <1>3 DEF DoneTo
  <2>2. Val(t, w) # 0
    BY <2>1, <1>2 DEF Extends
  <2> QED
    BY <2>1, <2>2, AssignedFacts DEF Extends, DoneTo
<1>4. ASSUME NEW w \in c.watch, DoneTo(u, b, w), NEW l \in c.lits, Val(t, l) = 1, Cover(t, l, w)
      PROVE  Val(u, l) = 1 /\ Cover(u, l, w)
  <2>1. /\ l \in Int /\ Val(u, l) = 1 /\ LevelOf(u, l) = LevelOf(t, l)
        /\ LevelOf(t, l) \in Nat /\ LevelOf(t, l) <= Level(t)
    BY <1>1, <1>4, AssignedFacts DEF Extends
  <2>2. LevelOf(t, l) = 0 \/ u.control[LevelOf(t, l)] = t.control[LevelOf(t, l)]
    BY <2>1, <1>2 DEF Extends
  <2> QED
    BY <2>1, <2>2, <1>3, <1>4 DEF Cover
<1>5. ASSUME NEW w \in c.watch, DoneTo(u, b, w), LevelOf(u, w) = 0
      PROVE  \E l \in c.lits : Val(u, l) = 1 /\ Cover(u, l, w)
  BY <1>3, <1>4, <1>5 DEF WatchOK
<1>6. ASSUME \A w \in c.watch : DoneTo(u, b, w)
      PROVE  \E l \in c.lits, w \in c.watch : Val(u, l) = 1 /\ Cover(u, l, w)
  BY <1>3, <1>4, <1>6 DEF WatchOK
<1> QED
  BY <1>5, <1>6 DEF WatchOK

\* A true literal covers a literal that is propagated above the current level.
LEMMA TrueCovers ==
  ASSUME NEW t, Shape(t), NEW l \in Int, Val(t, l) = 1, NEW w \in Int, Val(t, w) # 0,
         Level(t) > 0 => t.control[Level(t)].trail < Pos(t, w)
  PROVE  Cover(t, l, w)
<1>1. /\ LevelOf(t, l) \in Nat /\ LevelOf(t, l) <= Level(t) /\ LevelOf(t, w) \in Nat
      /\ Pos(t, w) \in Nat
  BY AssignedFacts
<1>2. CASE LevelOf(t, l) = 0
  BY <1>1, <1>2 DEF Cover
<1>3. CASE LevelOf(t, l) # 0
  <2>1. Level(t) \in Nat /\ LevelOf(t, l) \in 1..Level(t) /\ Level(t) \in LevelOf(t, l)..Level(t)
        /\ Level(t) \in 1..Level(t)
    BY <1>1, <1>3, TrailTypes DEF Shape
  <2>2. t.control[LevelOf(t, l)].trail <= t.control[Level(t)].trail
    BY <2>1 DEF Shape, Heights
  <2>3. t.control[LevelOf(t, l)].trail \in Nat /\ t.control[Level(t)].trail \in Nat
    BY <2>1, TrailTypes DEF Shape
  <2>4. t.control[LevelOf(t, l)].trail < Pos(t, w)
    BY <2>1, <2>2, <2>3, <1>1
  <2> QED
    BY <2>4 DEF Cover
<1> QED
  BY <1>2, <1>3

\* A clause with a true literal may be left as it is when a watch of it is
\* propagated.
LEMMA WatchVisited ==
  ASSUME NEW n \in Nat, NEW t, Shape(t), NEW c \in Clauses(n), Watching(c),
         NEW p \in Nat, p > 0, Level(t) > 0 => t.control[Level(t)].trail < p,
         WatchOK(t, p - 1, c), \E l \in c.lits : Val(t, l) = 1
  PROVE  WatchOK(t, p, c)
<1>1. \A l \in c.lits \cup c.watch : l \in Int
  BY WatchLits
<1>2. PICK l \in c.lits : Val(t, l) = 1
  OBVIOUS
<1>3. ASSUME NEW w \in c.watch, DoneTo(t, p, w)
      PROVE  DoneTo(t, p - 1, w) \/ Cover(t, l, w)
  <2>1. w \in Int /\ l \in Int /\ Val(t, w) # 0 /\ Pos(t, w) \in Nat /\ Pos(t, w) <= p
    BY <1>1, <1>3, AssignedFacts DEF DoneTo
  <2>2. CASE Pos(t, w) <= p - 1
    BY <2>2, <1>3 DEF DoneTo
  <2>3. CASE ~(Pos(t, w) <= p - 1)
    <3>1. Pos(t, w) = p
      BY <2>1, <2>3
    <3> QED
      BY <3>1, <2>1, <1>2, TrueCovers
  <2> QED
    BY <2>2, <2>3
<1>4. ASSUME NEW w \in c.watch, DoneTo(t, p, w), LevelOf(t, w) = 0
      PROVE  \E k \in c.lits : Val(t, k) = 1 /\ Cover(t, k, w)
  BY <1>2, <1>3, <1>4 DEF WatchOK
<1>5. ASSUME \A w \in c.watch : DoneTo(t, p, w)
      PROVE  \E k \in c.lits, w \in c.watch : Val(t, k) = 1 /\ Cover(t, k, w)
  <2>1. CASE \E w \in c.watch : Cover(t, l, w)
    BY <2>1, <1>2
  <2>2. CASE ~\E w \in c.watch : Cover(t, l, w)
    BY <2>2, <1>3, <1>5 DEF WatchOK
  <2> QED
    BY <2>1, <2>2
<1> QED
  BY <1>4, <1>5 DEF WatchOK

-----------------------------------------------------------------------------
(* What the clauses and the units of the root level say. *)

\* T satisfies the units of the root level.
RootHolds(T, t) ==
  \A k \in Positions(t) : t.trail[k].level = 0 => SatLit(T, t.trail[k].lit)

\* T satisfies every clause.
AllHold(T, db) == \A i \in DOMAIN db : SatClause(T, db[i].lits)

\* T satisfies every irredundant clause.
CoreHolds(T, db) ==
  \A i \in DOMAIN db : ~db[i].redundant /\ ~db[i].garbage => SatClause(T, db[i].lits)

\* The value of a literal of the root level.
LEMMA RootValue ==
  ASSUME NEW n, NEW t, Shape(t), NEW T, RootHolds(T, t),
         NEW l \in LitsOf(n), Val(t, l) # 0, LevelOf(t, l) = 0
  PROVE  SatLit(T, l) <=> Val(t, l) = 1
<1>1. l \in Int /\ -l \in LitsOf(n) /\ -(-l) = l
  BY LitFacts
<1>2. /\ Pos(t, l) \in Positions(t) /\ t.trail[Pos(t, l)].level = 0
      /\ t.trail[Pos(t, l)].lit = IF Val(t, l) = 1 THEN l ELSE -l
  BY <1>1, AssignedFacts
<1>3. SatLit(T, IF Val(t, l) = 1 THEN l ELSE -l)
  BY <1>2 DEF RootHolds
<1> QED
  BY <1>3, SatNegation

\* Backtracking keeps the units of the root level.
LEMMA RootBacktrack ==
  ASSUME NEW t, Shape(t), NEW u, Shape(u), NEW new \in Nat, KeepsLevels(t, u, new), NEW T
  PROVE  RootHolds(T, u) <=> RootHolds(T, t)
<1>1. ASSUME RootHolds(T, t) PROVE RootHolds(T, u)
  BY <1>1 DEF RootHolds, KeepsLevels
<1>2. ASSUME RootHolds(T, u) PROVE RootHolds(T, t)
  <2> SUFFICES ASSUME NEW k \in Positions(t), t.trail[k].level = 0
               PROVE  SatLit(T, t.trail[k].lit)
    BY DEF RootHolds
  <2> DEFINE l == t.trail[k].lit
  <2>1. l \in Int /\ Val(t, l) = 1 /\ Pos(t, l) = k /\ LevelOf(t, l) = 0
    BY AtPosition, TrailTypes DEF Shape
  <2>2. Pos(u, l) \in Positions(u) /\ u.trail[Pos(u, l)] = t.trail[k]
    BY <2>1 DEF KeepsLevels, Kept
  <2> QED
    BY <2>2, <1>2 DEF RootHolds
<1> QED
  BY <1>1, <1>2

\* A literal put on top is one more unit if its level is the root level.
LEMMA RootOnTop ==
  ASSUME NEW t, Shape(t), NEW u \in Trails, NEW e \in Assignments, OnTop(t, u, e),
         e.lit # 0, Val(t, e.lit) = 0, NEW T
  PROVE  RootHolds(T, u) <=> RootHolds(T, t) /\ (e.level = 0 => SatLit(T, e.lit))
<1>1. /\ Positions(u) = Positions(t) \cup {Len(t.trail) + 1}
      /\ \A k \in Positions(t) : u.trail[k] = t.trail[k]
      /\ u.trail[Len(t.trail) + 1] = e
  BY OnTopView DEF Shape
<1> QED
  BY <1>1 DEF RootHolds

-----------------------------------------------------------------------------
(* Assigning a literal by a clause. *)

\* The highest level of some assigned literals.
LEMMA MaxLevelFacts ==
  ASSUME NEW t, Shape(t), NEW lits, lits \subseteq Int, \A l \in lits : Val(t, l) # 0
  PROVE  /\ MaxLevel(t, lits) \in Nat /\ MaxLevel(t, lits) <= Level(t)
         /\ \A l \in lits : LevelOf(t, l) <= MaxLevel(t, lits)
         /\ MaxLevel(t, lits) # 0 => \E l \in lits : LevelOf(t, l) = MaxLevel(t, lits)
<1> DEFINE S == {0} \cup {LevelOf(t, l) : l \in lits}
<1>1. Level(t) \in Nat /\ \A l \in lits : LevelOf(t, l) \in Nat /\ LevelOf(t, l) <= Level(t)
  BY AssignedFacts, TrailTypes DEF Shape
<1>2. S \subseteq Nat /\ S # {} /\ \A x \in S : x <= Level(t)
  BY <1>1
<1>3. MaxLevel(t, lits) = Max(S)
  BY DEF MaxLevel
<1>4. Max(S) \in S /\ \A x \in S : x <= Max(S)
  <2> HIDE DEF S
  <2> QED
    BY <1>1, <1>2, MaxIsGreatest
<1>5. \A l \in lits : LevelOf(t, l) \in S
  OBVIOUS
<1>6. \A x \in S : x = 0 \/ \E l \in lits : LevelOf(t, l) = x
  OBVIOUS
<1> HIDE DEF S
<1> QED
  BY <1>2, <1>3, <1>4, <1>5, <1>6

\* What the search keeps of its trail and its clauses.
Founded(chrono, n, db, t) ==
  /\ IsDatabase(n, db) /\ Shape(t) /\ Over(n, t) /\ Graph(db, t)
  /\ chrono = 0 => Ordered(t)

\* All literals of clause i but l are false; without chronological
\* backtracking one of them is of the current level, unless that is the root.
Forces(chrono, db, t, i, l) ==
  /\ i \in DOMAIN db /\ l \in db[i].lits /\ Val(t, l) = 0
  /\ \A k \in db[i].lits \ {l} : Val(t, k) = -1
  /\ chrono = 0 /\ Level(t) > 0 => \E k \in db[i].lits \ {l} : LevelOf(t, k) = Level(t)
  /\ Cardinality(db[i].lits) > 2 => ~db[i].garbage

\* The assignment that clause i makes of l.
ForcedEntry(db, t, i, l) ==
  LET lev == MaxLevel(t, db[i].lits \ {l})
  IN  [lit |-> l, level |-> lev, reason |-> IF lev = 0 THEN NoReason ELSE i]

\* u is t with an implied literal on top.
ImpliedOnTop(t, u, e) ==
  /\ OnTop(t, u, e) /\ e \in Assignments /\ e.lit # 0 /\ Val(t, e.lit) = 0
  /\ e.level <= Level(t) /\ u.control = t.control /\ u.propagated = t.propagated

\* A clause with one literal left forces it.
LEMMA AssignByClause ==
  ASSUME NEW n \in Nat, NEW db, NEW t, NEW chrono \in Nat, Founded(chrono, n, db, t),
         NEW i, NEW l, Forces(chrono, db, t, i, l)
  PROVE  LET u == SearchAssign(chrono, db, t, l, i)
         IN  /\ Founded(chrono, n, db, u) /\ ImpliedOnTop(t, u, ForcedEntry(db, t, i, l))
             /\ \A T : AllHold(T, db) /\ RootHolds(T, t) => RootHolds(T, u)
<1> DEFINE others == db[i].lits \ {l}
           lev == MaxLevel(t, others)
           e == ForcedEntry(db, t, i, l)
           u == SearchAssign(chrono, db, t, l, i)
<1>1. /\ i \in Nat /\ i # 0 /\ i # NoReason /\ l \in Int /\ l # 0 /\ l \in LitsOf(n)
      /\ others \subseteq Int /\ \A k \in others : k \in LitsOf(n)
  BY ClauseTypes, ClauseLits DEF Founded, Forces
<1>2. /\ lev \in Nat /\ lev <= Level(t)
      /\ \A k \in others : LevelOf(t, k) <= lev
      /\ lev # 0 => \E k \in others : LevelOf(t, k) = lev
  <2>1. \A k \in others : Val(t, k) # 0
    BY DEF Forces
  <2> HIDE DEF others
  <2> QED
    BY <1>1, <2>1, MaxLevelFacts DEF Founded
<1>3. Level(t) \in Nat
  BY TrailTypes DEF Founded, Shape
<1>4. chrono = 0 => lev = Level(t)
  <2> SUFFICES ASSUME chrono = 0, Level(t) > 0 PROVE lev = Level(t)
    BY <1>2, <1>3
  <2>1. \E k \in others : LevelOf(t, k) = Level(t)
    BY DEF Forces
  <2> HIDE DEF others, lev
  <2> QED
    BY <2>1, <1>2, <1>3
<1>5. AssignmentLevel(chrono, db, t, l, i) = lev
  <2> HIDE DEF lev
  <2>1. ~(i < 0)
    BY <1>1
  <2> QED
    BY <2>1, <1>1, <1>4 DEF AssignmentLevel, lev
<1>6. u = [t EXCEPT !.trail = Append(@, e)]
  <2>1. i # DecisionReason
    BY <1>1 DEF DecisionReason
  <2>2. e = [lit |-> l, level |-> lev, reason |-> IF lev = 0 THEN NoReason ELSE i]
    BY DEF ForcedEntry
  <2> HIDE DEF lev, e
  <2> QED
    BY <2>1, <2>2, <1>5 DEF SearchAssign
<1>7. /\ e \in Assignments /\ e.lit = l /\ e.level = lev
      /\ e.reason = IF lev = 0 THEN NoReason ELSE i
  BY <1>1, <1>2 DEF ForcedEntry, Assignments, NoReason
<1> HIDE DEF e, lev
<1>8. Shape(u) /\ OnTop(t, u, e) /\ Level(u) = Level(t) /\ u.control = t.control
      /\ u.propagated = t.propagated
  <2>1. e.reason # NoReason \/ e.level = 0
    BY <1>1, <1>7
  <2>2. Shape(t) /\ e.lit # 0 /\ Val(t, e.lit) = 0 /\ e.level <= Level(t)
    BY <1>1, <1>2, <1>7 DEF Founded, Forces
  <2> HIDE DEF u
  <2> QED
    BY <1>6, <1>7, <2>1, <2>2, ImpliedShape
<1> HIDE DEF u
<1>9. ImpliedOnTop(t, u, e)
  BY <1>1, <1>2, <1>7, <1>8 DEF ImpliedOnTop, Forces
<1>10. u \in Trails /\ t \in Trails /\ Distinct(t)
  BY <1>8 DEF Shape, Founded
<1>11. Over(n, u)
  <2>1. /\ Positions(u) = Positions(t) \cup {Len(t.trail) + 1}
        /\ \A k \in Positions(t) : u.trail[k] = t.trail[k]
        /\ u.trail[Len(t.trail) + 1] = e
    BY <1>9, <1>10, OnTopView DEF ImpliedOnTop
  <2> QED
    BY <2>1, <1>1, <1>7 DEF Over, Founded
<1>12. Graph(db, u)
  <2>1. ASSUME e.reason # NoReason
        PROVE  /\ e.reason \in DOMAIN db /\ e.level > 0 /\ e.lit \in db[e.reason].lits
               /\ \A k \in db[e.reason].lits \ {e.lit} : Val(t, k) = -1 /\ LevelOf(t, k) <= e.level
               /\ \E k \in db[e.reason].lits \ {e.lit} : LevelOf(t, k) = e.level
               /\ Cardinality(db[e.reason].lits) > 2 => ~db[e.reason].garbage
    <3>1. lev # 0 /\ e.reason = i
      BY <2>1, <1>7
    <3>2. lev > 0
      BY <3>1, <1>2
    <3> QED
      BY <3>1, <3>2, <1>2, <1>7 DEF Forces
  <2> QED
    BY <2>1, <1>9, <1>10, GraphOnTop DEF ImpliedOnTop, Founded
<1>13. chrono = 0 => Ordered(u)
  BY <1>4, <1>7, <1>8, <1>9, <1>10, OrderedOnTop DEF ImpliedOnTop, Founded
<1>14. ASSUME NEW T, AllHold(T, db), RootHolds(T, t) PROVE RootHolds(T, u)
  <2>1. SUFFICES ASSUME e.level = 0 PROVE SatLit(T, e.lit)
    BY <1>9, <1>10, <1>14, RootOnTop DEF ImpliedOnTop, Founded
  <2>2. PICK k \in db[i].lits : SatLit(T, k)
    BY <1>14 DEF AllHold, SatClause, Forces
  <2>3. ASSUME k # l PROVE FALSE
    <3>1. k \in others /\ Val(t, k) = -1 /\ k \in LitsOf(n) /\ k \in Int
      BY <2>3, <1>1 DEF Forces
    <3>2. LevelOf(t, k) = 0
      BY <3>1, <2>1, <1>2, <1>7, AssignedFacts DEF Founded
    <3> QED
      BY <3>1, <3>2, <2>2, <1>14, RootValue DEF Founded
  <2> QED
    BY <2>2, <2>3, <1>7
<1>15. Founded(chrono, n, db, u)
  BY <1>8, <1>11, <1>12, <1>13 DEF Founded
<1> QED
  BY <1>9, <1>14, <1>15 DEF u, e
-----------------------------------------------------------------------------
(* New clauses. *)

\* There is an id no clause of a database has.
LEMMA FreshFacts ==
  ASSUME NEW n, NEW db, IsDatabase(n, db)
  PROVE  FreshId(db) \in Nat \ {0} /\ FreshId(db) \notin DOMAIN db
<1> DEFINE c == Cardinality(DOMAIN db)
           S == {i \in Nat : i >= 1 /\ i \notin DOMAIN db}
<1>1. IsFiniteSet(DOMAIN db) /\ DOMAIN db \subseteq Nat \ {0} /\ c \in Nat
  BY FS_CardinalityType DEF IsDatabase
<1>2. \E i \in 1..c + 1 : i \notin DOMAIN db
  <2> SUFFICES ASSUME 1..c + 1 \subseteq DOMAIN db PROVE FALSE
    OBVIOUS
  <2>1. Cardinality(1..c + 1) <= c
    BY <1>1, FS_Subset
  <2>2. Cardinality(1..c + 1) = c + 1
    <3>1. Cardinality(1..c + 1) = IF 1 > c + 1 THEN 0 ELSE (c + 1) - 1 + 1
      <4> HIDE DEF c
      <4> QED
        BY <1>1, FS_Interval
    <3> HIDE DEF c
    <3> QED
      BY <3>1, <1>1
  <2> HIDE DEF c
  <2> QED
    BY <2>1, <2>2, <1>1
<1> HIDE DEF c
<1>3. PICK m \in S : \A x \in S : m <= x
  <2>1. S \subseteq Nat
    OBVIOUS
  <2>2. S # {}
    BY <1>1, <1>2
  <2> HIDE DEF S
  <2> QED
    BY <2>1, <2>2, NatLeast
<1>4. m \in 1..c + 1 /\ m \notin DOMAIN db /\ 1..m - 1 \subseteq DOMAIN db
  <2>1. m \in Nat /\ m >= 1 /\ m \notin DOMAIN db
    BY <1>3
  <2>2. m <= c + 1
    BY <1>1, <1>2, <1>3
  <2>3. \A x \in 1..m - 1 : x \in DOMAIN db
    BY <1>3, <2>1
  <2> QED
    BY <2>1, <2>2, <2>3, <1>1
<1>5. FreshId(db) \in 1..c + 1 /\ FreshId(db) \notin DOMAIN db
  BY <1>4 DEF FreshId, c
<1> QED
  BY <1>1, <1>5

\* A clause is added.
LEMMA AddToFacts ==
  ASSUME NEW n \in Nat, NEW db, IsDatabase(n, db), NEW c \in Clauses(n),
         Cardinality(c.lits) >= 2, Watching(c)
  PROVE  /\ IsDatabase(n, AddTo(db, c))
         /\ DOMAIN AddTo(db, c) = DOMAIN db \cup {FreshId(db)}
         /\ AddTo(db, c)[FreshId(db)] = c
         /\ \A i \in DOMAIN db : AddTo(db, c)[i] = db[i] /\ i # FreshId(db)
<1> DEFINE m == FreshId(db)
           d == [i \in DOMAIN db \cup {m} |-> IF i = m THEN c ELSE db[i]]
<1>1. m \in Nat \ {0} /\ m \notin DOMAIN db
  BY FreshFacts
<1>2. AddTo(db, c) = d
  BY DEF AddTo
<1> HIDE DEF m
<1>3. /\ DOMAIN d = DOMAIN db \cup {m} /\ d[m] = c
      /\ \A i \in DOMAIN db : d[i] = db[i] /\ i # m
  BY <1>1
<1>4. IsDatabase(n, d)
  <2>1. IsFiniteSet(DOMAIN db \cup {m})
    BY FS_AddElement DEF IsDatabase
  <2>2. d = [i \in DOMAIN d |-> d[i]]
    OBVIOUS
  <2> HIDE DEF d
  <2> QED
    BY <1>1, <1>3, <2>1, <2>2 DEF IsDatabase
<1> QED
  BY <1>2, <1>3, <1>4 DEF m

-----------------------------------------------------------------------------
(* Literals that are false below the root level, and the highest of them. *)

\* The literals are false at t.
FalseLit(n, t, l) == l \in LitsOf(n) /\ Val(t, l) = -1

\* The trail falsifies all of lits.
FalseLits(n, t, lits) == \A l \in lits : FalseLit(n, t, l)

\* They are and none of them is a unit.
Loose(n, t, lits) == FalseLits(n, t, lits) /\ \A l \in lits : LevelOf(t, l) > 0

\* Where false literals are assigned.
LEMMA FalseFacts ==
  ASSUME NEW n, NEW t, Shape(t), NEW l, FalseLit(n, t, l)
  PROVE  /\ l \in Int /\ l \in LitsOf(n) /\ -l \in LitsOf(n)
         /\ Val(t, l) = -1 /\ Val(t, l) # 0
         /\ Pos(t, l) \in Positions(t) /\ Pos(t, l) \in Nat
         /\ LevelOf(t, l) \in Nat /\ LevelOf(t, l) <= Level(t)
<1>1. /\ l \in Int /\ l \in LitsOf(n) /\ -l \in LitsOf(n)
      /\ Val(t, l) = -1 /\ Val(t, l) # 0
  BY LitFacts DEF FalseLit
<1> QED
  BY <1>1, AssignedFacts

\* The entry of a false literal.
LEMMA FalseEntry ==
  ASSUME NEW n, NEW t, Shape(t), NEW l, FalseLit(n, t, l)
  PROVE  /\ t.trail[Pos(t, l)].lit = -l
         /\ t.trail[Pos(t, l)].level = LevelOf(t, l)
<1>1. l \in Int /\ Val(t, l) = -1 /\ Val(t, l) # 0
  BY LitFacts DEF FalseLit
<1> QED
  BY <1>1, AssignedFacts

\* The same for a set of them.
LEMMA FalseTypes ==
  ASSUME NEW n, NEW t, Shape(t), NEW lits, FalseLits(n, t, lits)
  PROVE  \A l \in lits : /\ l \in Int /\ l \in LitsOf(n) /\ Val(t, l) = -1
                         /\ Pos(t, l) \in Nat /\ Pos(t, l) \in Positions(t)
                         /\ LevelOf(t, l) \in Nat /\ LevelOf(t, l) <= Level(t)
BY FalseFacts DEF FalseLits

\* A finite set without one of its elements.
LEMMA WithoutOne ==
  ASSUME NEW S, IsFiniteSet(S), NEW x \in S
  PROVE  /\ IsFiniteSet(S \ {x}) /\ Cardinality(S) \in Nat
         /\ Cardinality(S \ {x}) \in Nat /\ Cardinality(S \ {x}) = Cardinality(S) - 1
<1>1. /\ IsFiniteSet(S \ {x})
      /\ Cardinality(S \ {x}) = IF x \in S THEN Cardinality(S) - 1 ELSE Cardinality(S)
  BY FS_RemoveElement
<1>2. Cardinality(S) \in Nat /\ Cardinality(S \ {x}) \in Nat
  BY <1>1, FS_CardinalityType
<1> QED
  BY <1>1, <1>2

\* Some of the literals are of the highest level.
LEMMA HighestExists ==
  ASSUME NEW n, NEW t, Shape(t), NEW lits, FalseLits(n, t, lits), lits # {}
  PROVE  \E l \in lits : \A k \in lits : LevelOf(t, l) >= LevelOf(t, k)
<1>0. /\ lits \subseteq Int
      /\ \A l \in lits : l \in Int /\ Val(t, l) # 0 /\ LevelOf(t, l) \in Nat
  BY FalseFacts DEF FalseLits
<1>1. /\ MaxLevel(t, lits) \in Nat
      /\ \A l \in lits : LevelOf(t, l) <= MaxLevel(t, lits) /\ LevelOf(t, l) \in Nat
      /\ MaxLevel(t, lits) # 0 => \E l \in lits : LevelOf(t, l) = MaxLevel(t, lits)
  BY <1>0, MaxLevelFacts
<1>2. CASE MaxLevel(t, lits) = 0
  BY <1>1, <1>2
<1>3. CASE MaxLevel(t, lits) # 0
  BY <1>1, <1>3
<1> QED
  BY <1>2, <1>3

\* One of those is assigned last.
LEMMA LatestExists ==
  ASSUME NEW n, NEW t, Shape(t), NEW lits, FalseLits(n, t, lits), lits # {}
  PROVE  \E l \in lits : \A k \in lits :
           \/ LevelOf(t, l) > LevelOf(t, k)
           \/ LevelOf(t, l) = LevelOf(t, k) /\ Pos(t, l) >= Pos(t, k)
<1>1. PICK h \in lits : \A k \in lits : LevelOf(t, h) >= LevelOf(t, k)
  BY HighestExists
<1> DEFINE S == {Pos(t, l) : l \in {k \in lits : LevelOf(t, k) = LevelOf(t, h)}}
<1>2. S \subseteq Nat /\ S # {} /\ Len(t.trail) \in Nat /\ \A x \in S : x <= Len(t.trail)
  <2>1. Len(t.trail) \in Nat /\ \A l \in lits : Pos(t, l) \in Nat /\ Pos(t, l) <= Len(t.trail)
    <3>1. \A l \in lits : Pos(t, l) \in Positions(t)
      BY FalseFacts DEF FalseLits
    <3>2. Len(t.trail) \in Nat
      BY TrailTypes DEF Shape
    <3> QED
      BY <3>1, <3>2 DEF Positions
  <2> QED
    BY <2>1
<1>3. Max(S) \in S /\ \A x \in S : x <= Max(S)
  <2> HIDE DEF S
  <2> QED
    BY <1>2, MaxIsGreatest
<1> HIDE DEF Max
<1>4. PICK l \in lits : LevelOf(t, l) = LevelOf(t, h) /\ Pos(t, l) = Max(S)
  BY <1>3
<1>5. ASSUME NEW k \in lits, LevelOf(t, k) = LevelOf(t, h) PROVE Pos(t, l) >= Pos(t, k)
  <2>1. Pos(t, k) \in S
    BY <1>5
  <2>2. Pos(t, k) <= Max(S)
    BY <2>1, <1>3
  <2> HIDE DEF S
  <2>3. Pos(t, k) \in Nat /\ Pos(t, l) \in Nat
    BY FalseFacts DEF FalseLits
  <2> QED
    BY <2>2, <2>3, <1>4
<1>6. \A k \in lits : LevelOf(t, k) \in Nat /\ LevelOf(t, h) \in Nat
  BY FalseFacts DEF FalseLits
<1> QED
  BY <1>1, <1>4, <1>5, <1>6
-----------------------------------------------------------------------------
(* Resolution along the trail. *)

\* The clause watches a literal of the current level and none of the root
\* level: it loses a false watch when the level is undone.
Raised(t, c) ==
  /\ \A w \in c.watch : Val(t, w) = -1 /\ LevelOf(t, w) > 0
  /\ \E w \in c.watch : LevelOf(t, w) = Level(t)

\* The clauses of d are those of db, some of them strengthened or subsumed.
Refined(n, t, db, d) ==
  /\ IsDatabase(n, d) /\ DOMAIN d = DOMAIN db
  /\ \A i \in DOMAIN db :
       \/ d[i].lits = db[i].lits /\ d[i].watch = db[i].watch
       \/ Raised(t, d[i])
  /\ \A i \in DOMAIN db : ~d[i].garbage => ~db[i].garbage
  /\ \A T : RootHolds(T, t) /\ AllHold(T, db) => AllHold(T, d)
  /\ \A T : RootHolds(T, t) /\ CoreHolds(T, d) => CoreHolds(T, db)

\* The graph of the positions that are still to be resolved.
GraphBelow(d, t, k) ==
  \A j \in Positions(t) : t.trail[j].level < Level(t) \/ j <= k =>
    Reasoned(d, t, j) /\ Protected(d, t, j)

\* A clause is the reason of one literal only.
LEMMA ReasonsDiffer ==
  ASSUME NEW d, NEW t, Shape(t), NEW j \in Positions(t), NEW k \in Positions(t), j # k,
         Reasoned(d, t, j), Reasoned(d, t, k), t.trail[j].reason # NoReason
  PROVE  t.trail[j].reason # t.trail[k].reason
<1> SUFFICES ASSUME t.trail[j].reason = t.trail[k].reason PROVE FALSE
  OBVIOUS
<1>1. t.trail[j].lit # t.trail[k].lit
  BY DEF Shape, Distinct
<1>2. Val(t, t.trail[j].lit) = -1
  BY <1>1 DEF Reasoned
<1>3. Val(t, t.trail[j].lit) = 1
  BY AtPosition DEF Shape
<1> QED
  BY <1>2, <1>3

\* Above the start of the current level every literal of it has a reason.
LEMMA LaterHasReason ==
  ASSUME NEW t, Shape(t), Level(t) > 0, NEW k \in Positions(t), t.trail[k].level > 0,
         NEW l \in Int, Val(t, l) # 0, LevelOf(t, l) = t.trail[k].level, Pos(t, l) < k
  PROVE  t.trail[k].reason # NoReason
<1> DEFINE v == t.trail[k].level
<1>1. /\ Pos(t, l) \in Positions(t) /\ Pos(t, l) \in Nat /\ t.trail[Pos(t, l)].level = v
      /\ v \in Nat /\ k \in Nat /\ Level(t) \in Nat /\ v <= Level(t)
  BY AssignedFacts, TrailTypes DEF Shape, Placed
<1>2. v \in 1..v /\ v \in 1..Level(t)
  BY <1>1
<1> HIDE DEF v
<1>3. t.control[v].trail < Pos(t, l) /\ t.control[v].trail \in Nat
  BY <1>1, <1>2, TrailTypes DEF Shape, Placed
<1>4. ASSUME t.trail[k].reason = NoReason PROVE FALSE
  <2>1. t.control[v].trail + 1 = k
    BY <1>4 DEF Shape, Placed, v
  <2> QED
    BY <2>1, <1>1, <1>3
<1> QED
  BY <1>4

\* Changing fields of a clause.
LEMMA ClauseFields ==
  ASSUME NEW n, NEW c \in Clauses(n), NEW x
  PROVE  /\ [c EXCEPT !.lits = x] =
              [lits |-> x, watch |-> c.watch, redundant |-> c.redundant, garbage |-> c.garbage]
         /\ [c EXCEPT !.watch = x] =
              [lits |-> c.lits, watch |-> x, redundant |-> c.redundant, garbage |-> c.garbage]
         /\ [c EXCEPT !.redundant = x] =
              [lits |-> c.lits, watch |-> c.watch, redundant |-> x, garbage |-> c.garbage]
         /\ [c EXCEPT !.garbage = x] =
              [lits |-> c.lits, watch |-> c.watch, redundant |-> c.redundant, garbage |-> x]
BY DEF Clauses

\* A strengthened clause: the reason at position k loses its literal.
LEMMA StrengthenFacts ==
  ASSUME NEW n \in Nat, NEW d, IsDatabase(n, d), NEW t, Shape(t), Level(t) > 0,
         NEW k \in Positions(t), t.trail[k].level = Level(t),
         t.trail[k].reason # NoReason, Reasoned(d, t, k),
         Cardinality(NonRoot(t, d[t.trail[k].reason].lits)) > 2
  PROVE  LET i == t.trail[k].reason
             s == OnTheFlyStrengthen(d, t, i, t.trail[k].lit)
         IN  /\ IsDatabase(n, s) /\ DOMAIN s = DOMAIN d /\ i \in DOMAIN d
             /\ \A j \in DOMAIN d : j # i => s[j] = d[j]
             /\ s[i].lits = NonRoot(t, d[i].lits) \ {t.trail[k].lit}
             /\ s[i].redundant = d[i].redundant /\ s[i].garbage = d[i].garbage
             /\ Loose(n, t, s[i].lits) /\ Raised(t, s[i])
<1> DEFINE i == t.trail[k].reason
           uip == t.trail[k].lit
           lits == NonRoot(t, d[i].lits) \ {uip}
           old == d[i].watch \cap lits
           other == CHOOSE l \in (IF old = {} THEN lits ELSE old) : TRUE
           high == CHOOSE l \in lits \ {other} :
                     \A m \in lits \ {other} : LevelOf(t, l) >= LevelOf(t, m)
           s == OnTheFlyStrengthen(d, t, i, uip)
<1>1. i \in DOMAIN d /\ d[i] \in Clauses(n) /\ IsFiniteSet(d[i].lits)
      /\ d[i].lits \subseteq LitsOf(n) /\ uip \in d[i].lits
  BY ClauseTypes DEF Reasoned
<1>2. Loose(n, t, lits) /\ lits \subseteq d[i].lits
  <2>1. \A l \in lits : l \in d[i].lits \ {uip} /\ LevelOf(t, l) > 0 /\ l \in LitsOf(n)
    BY <1>1 DEF NonRoot
  <2>2. \A l \in lits : Val(t, l) = -1
    BY <2>1 DEF Reasoned
  <2> HIDE DEF lits
  <2> QED
    BY <2>1, <2>2 DEF Loose, FalseLits, FalseLit
<1>3. IsFiniteSet(lits) /\ Cardinality(lits) >= 2 /\ Cardinality(lits) \in Nat
  <2>1. IsFiniteSet(NonRoot(t, d[i].lits))
    BY <1>1, FS_Subset DEF NonRoot
  <2>2. Cardinality(NonRoot(t, d[i].lits)) \in Nat
    BY <2>1, FS_CardinalityType
  <2>3. /\ IsFiniteSet(lits)
        /\ Cardinality(lits) = IF uip \in NonRoot(t, d[i].lits)
                               THEN Cardinality(NonRoot(t, d[i].lits)) - 1
                               ELSE Cardinality(NonRoot(t, d[i].lits))
    BY <2>1, FS_RemoveElement
  <2> HIDE DEF lits
  <2> QED
    BY <2>2, <2>3
<1>4. \E l \in lits : LevelOf(t, l) = Level(t)
  <2>1. PICK l \in d[i].lits \ {uip} : LevelOf(t, l) = Level(t)
    BY DEF Reasoned
  <2>2. l \in lits
    BY <2>1 DEF NonRoot
  <2> QED
    BY <2>1, <2>2
<1> HIDE DEF lits
<1>5. other \in lits
  <2>1. lits # {}
    BY <1>4
  <2>2. other \in IF old = {} THEN lits ELSE old
    <3>1. (IF old = {} THEN lits ELSE old) # {}
      BY <2>1
    <3> HIDE DEF old
    <3> QED
      BY <3>1
  <2> QED
    BY <2>2
<1> HIDE DEF other
<1>6. lits \ {other} # {}
  <2> SUFFICES ASSUME lits \ {other} = {} PROVE FALSE
    OBVIOUS
  <2>1. lits = {other}
    BY <1>5
  <2>2. Cardinality(lits) = 1
    BY <2>1, FS_Singleton
  <2> QED
    BY <2>2, <1>3
<1>7. high \in lits \ {other} /\ \A m \in lits \ {other} : LevelOf(t, high) >= LevelOf(t, m)
  <2>1. FalseLits(n, t, lits \ {other})
    BY <1>2 DEF Loose, FalseLits, FalseLit
  <2>2. \E l \in lits \ {other} : \A m \in lits \ {other} : LevelOf(t, l) >= LevelOf(t, m)
    <3> DEFINE R == lits \ {other}
    <3>1. FalseLits(n, t, R) /\ R # {}
      BY <2>1, <1>6
    <3> HIDE DEF R
    <3>2. \E l \in R : \A m \in R : LevelOf(t, l) >= LevelOf(t, m)
      BY <3>1, HighestExists
    <3> QED
      BY <3>2 DEF R
  <2> QED
    BY <2>2
<1>8. s = [d EXCEPT ![i].lits = lits, ![i].watch = {other, high}]
  BY DEF OnTheFlyStrengthen, lits, other
<1> HIDE DEF high
<1> DEFINE c == [lits |-> lits, watch |-> {other, high},
                 redundant |-> d[i].redundant, garbage |-> d[i].garbage]
<1>9. s = [d EXCEPT ![i] = c]
  <2>1. [[d[i] EXCEPT !.lits = lits] EXCEPT !.watch = {other, high}] = c
    <3>1. ASSUME NEW e \in Clauses(n), NEW w
          PROVE  [[e EXCEPT !.lits = lits] EXCEPT !.watch = w] =
                   [lits |-> lits, watch |-> w,
                    redundant |-> e.redundant, garbage |-> e.garbage]
      <4> DEFINE f == [lits |-> lits, watch |-> e.watch,
                       redundant |-> e.redundant, garbage |-> e.garbage]
      <4>1. [e EXCEPT !.lits = lits] = f
        BY ClauseFields
      <4>2. [f EXCEPT !.watch = w] = [lits |-> lits, watch |-> w,
                                      redundant |-> e.redundant, garbage |-> e.garbage]
        OBVIOUS
      <4> HIDE DEF f
      <4> QED
        BY <4>1, <4>2
    <3> QED
      BY <1>1, <3>1
  <2> HIDE DEF c, i
  <2> QED
    BY <1>1, <1>8, <2>1
<1>10. c \in Clauses(n) /\ Watching(c) /\ Cardinality(c.lits) >= 2
  <2>1. lits \subseteq LitsOf(n) /\ {other, high} \subseteq LitsOf(n)
    BY <1>1, <1>2, <1>5, <1>7
  <2>2. d[i].redundant \in BOOLEAN /\ d[i].garbage \in BOOLEAN
    BY <1>1 DEF Clauses
  <2>3. Watching(c)
    BY <1>5, <1>7 DEF Watching
  <2> QED
    BY <2>1, <2>2, <2>3, <1>3 DEF Clauses
<1> HIDE DEF s
<1>11. /\ DOMAIN s = DOMAIN d /\ \A j \in DOMAIN d : j # i => s[j] = d[j]
       /\ s[i] = c /\ s = [j \in DOMAIN s |-> s[j]]
  <2> HIDE DEF c, i
  <2> QED
    BY <1>1, <1>9
<1>12. IsDatabase(n, s)
  <2> HIDE DEF c
  <2> QED
    BY <1>10, <1>11 DEF IsDatabase
<1>13. Raised(t, c)
  <2>1. \A w \in {other, high} : Val(t, w) = -1 /\ LevelOf(t, w) > 0
    BY <1>2, <1>5, <1>7 DEF Loose, FalseLits, FalseLit
  <2>2. LevelOf(t, other) = Level(t) \/ LevelOf(t, high) = Level(t)
    <3> SUFFICES ASSUME LevelOf(t, other) # Level(t) PROVE LevelOf(t, high) = Level(t)
      OBVIOUS
    <3>1. PICK l \in lits \ {other} : LevelOf(t, l) = Level(t)
      BY <1>4
    <3>2. LevelOf(t, high) >= LevelOf(t, l)
      BY <1>7
    <3>3. LevelOf(t, high) \in Nat /\ LevelOf(t, high) <= Level(t) /\ Level(t) \in Nat
      BY <1>2, <1>7, FalseFacts, TrailTypes DEF Loose, Shape, FalseLits
    <3> QED
      BY <3>1, <3>2, <3>3
  <2> QED
    BY <2>1, <2>2 DEF Raised
<1>14. s[i].lits = NonRoot(t, d[i].lits) \ {uip} /\ Loose(n, t, s[i].lits)
       /\ s[i].redundant = d[i].redundant /\ s[i].garbage = d[i].garbage
  BY <1>2, <1>11, SMTT(40) DEF lits
<1> HIDE DEF c
<1> QED
  BY <1>1, <1>11, <1>12, <1>13, <1>14 DEF s

\* There are finitely many literals.
LEMMA LitsFinite ==
  ASSUME NEW n \in Nat
  PROVE  IsFiniteSet(LitsOf(n)) /\ \A S : S \subseteq LitsOf(n) => IsFiniteSet(S)
<1>1. IsFiniteSet(1..n)
  BY FS_Interval
<1> DEFINE f == [v \in 1..n |-> -v]
<1>2. f \in Surjection(1..n, {-v : v \in 1..n})
  BY DEF Surjection
<1>3. IsFiniteSet({-v : v \in 1..n})
  BY <1>1, <1>2, FS_Surjection
<1>4. IsFiniteSet(LitsOf(n))
  BY <1>1, <1>3, FS_Union DEF LitsOf
<1> QED
  BY <1>4, FS_Subset

\* The clause follows from the others and the units.
Follows(t, db, lits) == \A T : RootHolds(T, t) /\ AllHold(T, db) => SatClause(T, lits)

\* The clause that remains of the literals seen when the positions above k are
\* resolved.
Resolvent(t, seen, k) == {l \in seen : LevelOf(t, l) < Level(t) \/ Pos(t, l) <= k}

\* The fields of an analysis.
IsAnalysis(a) ==
  a = [db |-> a.db, conflict |-> a.conflict, seen |-> a.seen, size |-> a.size,
       first |-> a.first, uip |-> a.uip, otfs |-> a.otfs]

\* The analysis has looked at the positions above k.
Analyzing(t, db, a, k) ==
  /\ Follows(t, db, Resolvent(t, a.seen, k))
  /\ \E l \in a.seen : LevelOf(t, l) = Level(t) /\ Pos(t, l) <= k
  /\ a.first =>
       /\ a.seen = NonRoot(t, a.db[a.conflict].lits) /\ a.size = Cardinality(a.seen)
       /\ \A l \in a.db[a.conflict].lits : Val(t, l) = -1
       /\ a.seen = Resolvent(t, a.seen, k)

\* The analysis has ended at the unique implication point uip.
FoundUip(t, db, a) ==
  /\ a.uip \in Int /\ -a.uip \in a.seen /\ LevelOf(t, -a.uip) = Level(t)
  /\ Follows(t, db, {l \in a.seen : LevelOf(t, l) < Level(t)} \cup {-a.uip})

\* The analysis has ended at a strengthened clause, which is the conflict now
\* and drives the search.
FoundStrengthened(t, a) ==
  /\ a.seen = a.db[a.conflict].lits /\ ~a.db[a.conflict].garbage
  /\ \E l \in a.seen : LevelOf(t, l) = Level(t)
                       /\ \A m \in a.seen : LevelOf(t, m) = Level(t) => m = l

\* What holds while the analysis walks down the trail.
AnalysisInv(n, t, db, a, k) ==
  /\ IsAnalysis(a) /\ a.otfs \in BOOLEAN /\ a.conflict \in DOMAIN db
  /\ Refined(n, t, db, a.db) /\ GraphBelow(a.db, t, k)
  /\ Loose(n, t, a.seen)
  /\ a.uip = 0 /\ ~a.otfs => Analyzing(t, db, a, k)
  /\ a.uip # 0 /\ ~a.otfs => FoundUip(t, db, a)
  /\ a.otfs => FoundStrengthened(t, a)

\* The literal of seen at position k.
LEMMA SeenAt ==
  ASSUME NEW n, NEW t, Shape(t), NEW seen, FalseLits(n, t, seen),
         NEW k \in Positions(t), NEW l \in seen, Pos(t, l) = k
  PROVE  l = -t.trail[k].lit /\ LevelOf(t, l) = t.trail[k].level
<1>1. t.trail[k].lit = -l /\ l \in Int /\ t.trail[k].level = LevelOf(t, l)
  BY FalseFacts, FalseEntry DEF FalseLits
<1> QED
  BY <1>1

\* A literal is the negation of the one at its position.
LEMMA NegationAt ==
  ASSUME NEW n, NEW t, Shape(t), Over(n, t), NEW k \in Positions(t)
  PROVE  LET l == -t.trail[k].lit
         IN  /\ l \in LitsOf(n) /\ l \in Int /\ Val(t, l) = -1 /\ Pos(t, l) = k
             /\ LevelOf(t, l) = t.trail[k].level /\ -l = t.trail[k].lit
             /\ t.trail[k].lit \in LitsOf(n)
<1>1. t.trail[k].lit \in LitsOf(n)
  BY DEF Over
<1>2. -t.trail[k].lit \in LitsOf(n) /\ -t.trail[k].lit \in Int
      /\ -(-t.trail[k].lit) = t.trail[k].lit
  BY <1>1, LitFacts
<1>3. /\ Pos(t, -t.trail[k].lit) = k /\ LevelOf(t, -t.trail[k].lit) = t.trail[k].level
      /\ Val(t, -t.trail[k].lit) = -1
  BY AtPosition DEF Shape
<1> QED
  BY <1>1, <1>2, <1>3

\* A clause with more literals follows too.
LEMMA FollowsMore ==
  ASSUME NEW t, NEW db, NEW lits, Follows(t, db, lits), NEW more, lits \subseteq more
  PROVE  Follows(t, db, more)
BY DEF Follows, SatClause

\* Positions that are not resolved on leave the resolvent as it is.
LEMMA SkipPosition ==
  ASSUME NEW n, NEW t, Shape(t), NEW seen, FalseLits(n, t, seen), NEW k \in Positions(t),
         -t.trail[k].lit \notin seen \/ t.trail[k].level # Level(t)
  PROVE  /\ Resolvent(t, seen, k - 1) = Resolvent(t, seen, k)
         /\ \A l \in seen : LevelOf(t, l) = Level(t) /\ Pos(t, l) <= k => Pos(t, l) <= k - 1
<1>1. k \in Nat /\ k >= 1 /\ Level(t) \in Nat /\ t.trail[k].level <= Level(t)
      /\ t.trail[k].level \in Nat
  BY TrailTypes DEF Shape, Positions, Placed
<1>2. \A l \in seen : Pos(t, l) \in Nat /\ LevelOf(t, l) \in Nat
  BY FalseFacts DEF FalseLits
<1>3. ASSUME NEW l \in seen, Pos(t, l) = k PROVE LevelOf(t, l) < Level(t)
  <2>1. l = -t.trail[k].lit /\ LevelOf(t, l) = t.trail[k].level
    BY <1>3, SeenAt
  <2> QED
    BY <2>1, <1>1
<1>4. \A l \in seen : Pos(t, l) <= k <=> Pos(t, l) <= k - 1 \/ Pos(t, l) = k
  BY <1>1, <1>2
<1>5. \A l \in seen : ~(LevelOf(t, l) = Level(t) /\ LevelOf(t, l) < Level(t))
  BY <1>1, <1>2
<1> QED
  BY <1>3, <1>4, <1>5 DEF Resolvent

\* One step of resolution.
LEMMA ResolveStep ==
  ASSUME NEW n \in Nat, NEW t, Shape(t), Over(n, t), NEW db, NEW d, Refined(n, t, db, d),
         Level(t) > 0, NEW k \in Positions(t), t.trail[k].level = Level(t),
         GraphBelow(d, t, k), NEW seen, Loose(n, t, seen), -t.trail[k].lit \in seen,
         Follows(t, db, Resolvent(t, seen, k)),
         NEW m \in seen, LevelOf(t, m) = Level(t), Pos(t, m) < k
  PROVE  LET e == t.trail[k]
             reason == NonRoot(t, d[e.reason].lits)
             new == seen \cup (reason \ {e.lit})
         IN  /\ e.reason # NoReason /\ Reasoned(d, t, k) /\ e.reason \in DOMAIN db
             /\ e.lit \in reason /\ Loose(n, t, reason \ {e.lit})
             /\ Loose(n, t, new)
             /\ \A l \in reason \ {e.lit} : Pos(t, l) < k
             /\ Follows(t, db, Resolvent(t, new, k - 1))
             /\ m \in Resolvent(t, new, k - 1)
<1> DEFINE e == t.trail[k]
           i == e.reason
           reason == NonRoot(t, d[i].lits)
           others == reason \ {e.lit}
           new == seen \cup others
<1>1. /\ FalseLits(n, t, seen) /\ k \in Nat /\ k >= 1 /\ Level(t) \in Nat
      /\ IsDatabase(n, d) /\ DOMAIN d = DOMAIN db
  BY TrailTypes DEF Loose, Refined, Shape, Positions
<1>2. i # NoReason
  <2>1. m \in Int /\ Val(t, m) # 0
    BY <1>1, FalseFacts DEF FalseLits
  <2> QED
    BY <2>1, LaterHasReason
<1>3. Reasoned(d, t, k) /\ i \in DOMAIN d /\ e.lit \in d[i].lits
  <2>1. Reasoned(d, t, k)
    BY <1>1 DEF GraphBelow
  <2> QED
    BY <2>1, <1>2 DEF Reasoned
<1>4. /\ e.lit \in LitsOf(n) /\ -e.lit \in LitsOf(n) /\ LevelOf(t, -e.lit) = Level(t)
      /\ Pos(t, -e.lit) = k /\ e.lit \in reason
  <2>1. LevelOf(t, e.lit) = Level(t)
    BY AtPosition DEF Shape
  <2>2. e.lit \in reason
    BY <2>1, <1>3 DEF NonRoot
  <2> QED
    BY <2>2, NegationAt
<1>5. ASSUME NEW l \in d[i].lits \ {e.lit}
      PROVE  /\ l \in LitsOf(n) /\ l \in Int /\ Val(t, l) = -1 /\ Pos(t, l) < k
             /\ Pos(t, l) \in Nat /\ LevelOf(t, l) \in Nat
             /\ LevelOf(t, l) # 0 => l \in others
  <2>1. l \in LitsOf(n) /\ l \in Int
    BY <1>1, <1>3, ClauseLits
  <2>2. Val(t, l) = -1 /\ Pos(t, l) < k
    BY <1>2, <1>3 DEF Reasoned
  <2>3. Pos(t, l) \in Nat /\ LevelOf(t, l) \in Nat
    BY <2>1, <2>2, AssignedFacts
  <2> QED
    BY <2>1, <2>2, <2>3 DEF NonRoot
<1>6. \A l \in others : l \in d[i].lits \ {e.lit} /\ LevelOf(t, l) > 0
  BY DEF NonRoot
<1> HIDE DEF others
<1>7. Loose(n, t, others) /\ Loose(n, t, new) /\ \A l \in others : Pos(t, l) < k
  BY <1>5, <1>6 DEF Loose, FalseLits, FalseLit
<1>8. \A l \in seen : Pos(t, l) \in Nat /\ LevelOf(t, l) \in Nat
  BY <1>1, FalseFacts DEF FalseLits
<1>9. \A l \in seen : LevelOf(t, l) < Level(t) \/ Pos(t, l) < k => l \in Resolvent(t, new, k - 1)
  BY <1>1, <1>8 DEF Resolvent
<1>10. \A l \in others : l \in Resolvent(t, new, k - 1)
  BY <1>1, <1>5, <1>6, <1>7 DEF Resolvent
<1>11. Follows(t, db, Resolvent(t, new, k - 1))
  <2> SUFFICES ASSUME NEW T, RootHolds(T, t), AllHold(T, db)
               PROVE  \E l \in Resolvent(t, new, k - 1) : SatLit(T, l)
    BY DEF Follows, SatClause
  <2>1. PICK l \in Resolvent(t, seen, k) : SatLit(T, l)
    BY DEF Follows, SatClause
  <2>2. l \in seen /\ (LevelOf(t, l) < Level(t) \/ Pos(t, l) <= k)
    BY <2>1 DEF Resolvent
  <2>3. CASE l # -e.lit
    <3>1. Pos(t, l) # k
      BY <2>2, <2>3, <1>1, SeenAt
    <3>2. LevelOf(t, l) < Level(t) \/ Pos(t, l) < k
      BY <2>2, <3>1, <1>1, <1>8
    <3> QED
      BY <2>1, <2>2, <3>2, <1>9
  <2>4. CASE l = -e.lit
    <3>1. ~SatLit(T, e.lit)
      BY <2>1, <2>4, <1>4, SatNegation
    <3>2. AllHold(T, d)
      BY DEF Refined
    <3>3. PICK l2 \in d[i].lits : SatLit(T, l2)
      BY <3>2, <1>3 DEF AllHold, SatClause
    <3>4. l2 \in d[i].lits \ {e.lit}
      BY <3>1, <3>3
    <3>5. LevelOf(t, l2) # 0
      <4> SUFFICES ASSUME LevelOf(t, l2) = 0 PROVE FALSE
        OBVIOUS
      <4>1. l2 \in LitsOf(n) /\ Val(t, l2) = -1
        BY <3>4, <1>5
      <4> QED
        BY <4>1, <3>3, RootValue
    <3> QED
      BY <3>3, <3>4, <3>5, <1>5, <1>10
  <2> QED
    BY <2>3, <2>4
<1>12. m \in Resolvent(t, new, k - 1)
  BY <1>9
<1> QED
  BY <1>1, <1>2, <1>3, <1>4, <1>7, <1>11, <1>12 DEF others

\* Changing fields of the state of an analysis.
LEMMA AnalysisFields ==
  ASSUME NEW a, IsAnalysis(a), NEW s, NEW f, NEW u
  PROVE  /\ [a EXCEPT !.uip = u] =
              [db |-> a.db, conflict |-> a.conflict, seen |-> a.seen, size |-> a.size,
               first |-> a.first, uip |-> u, otfs |-> a.otfs]
         /\ [a EXCEPT !.seen = s, !.first = f] =
              [db |-> a.db, conflict |-> a.conflict, seen |-> s, size |-> a.size,
               first |-> f, uip |-> a.uip, otfs |-> a.otfs]
<1> DEFINE R(s1, f1, u1) ==
             [db |-> a.db, conflict |-> a.conflict, seen |-> s1, size |-> a.size,
              first |-> f1, uip |-> u1, otfs |-> a.otfs]
           r == R(a.seen, a.first, a.uip)
           r1 == R(s, a.first, a.uip)
<1>1. a = r
  BY DEF IsAnalysis
<1>2. [r EXCEPT !.uip = u] = R(a.seen, a.first, u)
  OBVIOUS
<1>3. [r EXCEPT !.seen = s] = r1 /\ [r1 EXCEPT !.first = f] = R(s, f, a.uip)
  OBVIOUS
<1> HIDE DEF r, r1
<1>4. [r EXCEPT !.seen = s, !.first = f] = [[r EXCEPT !.seen = s] EXCEPT !.first = f]
  OBVIOUS
<1>5. [r EXCEPT !.seen = s, !.first = f] = R(s, f, a.uip)
  BY <1>3, <1>4
<1> QED
  BY <1>1, <1>2, <1>5

\* A position that the clauses resolved so far do not have.
LEMMA AnalysisSkips ==
  ASSUME NEW n \in Nat, NEW t, Shape(t), NEW db, NEW a, NEW k \in Positions(t),
         AnalysisInv(n, t, db, a, k),
         a.uip # 0 \/ a.otfs \/ -t.trail[k].lit \notin a.seen \/ t.trail[k].level # Level(t)
  PROVE  AnalysisInv(n, t, db, a, k - 1)
<1>1. FalseLits(n, t, a.seen) /\ k \in Nat
  BY DEF AnalysisInv, Loose, Positions
<1>2. GraphBelow(a.db, t, k - 1)
  <2>1. \A j \in Positions(t) : j <= k - 1 => j <= k
    BY <1>1 DEF Positions
  <2> QED
    BY <2>1 DEF AnalysisInv, GraphBelow
<1>3. ASSUME a.uip = 0, ~a.otfs PROVE Analyzing(t, db, a, k - 1)
  <2>1. Analyzing(t, db, a, k)
    BY <1>3 DEF AnalysisInv
  <2>2. /\ Resolvent(t, a.seen, k - 1) = Resolvent(t, a.seen, k)
        /\ \A l \in a.seen : LevelOf(t, l) = Level(t) /\ Pos(t, l) <= k => Pos(t, l) <= k - 1
    BY <1>1, <1>3, SkipPosition
  <2> QED
    BY <2>1, <2>2 DEF Analyzing
<1> QED
  BY <1>2, <1>3 DEF AnalysisInv

\* The first unique implication point.
LEMMA AnalysisFindsUip ==
  ASSUME NEW n \in Nat, NEW t, Shape(t), Over(n, t), NEW db, NEW a, NEW k \in Positions(t),
         AnalysisInv(n, t, db, a, k), a.uip = 0, ~a.otfs,
         -t.trail[k].lit \in a.seen, t.trail[k].level = Level(t),
         \A l \in a.seen : ~(LevelOf(t, l) = Level(t) /\ Pos(t, l) < k)
  PROVE  AnalysisInv(n, t, db, [a EXCEPT !.uip = t.trail[k].lit], k - 1)
<1> DEFINE e == t.trail[k]
           b == [db |-> a.db, conflict |-> a.conflict, seen |-> a.seen, size |-> a.size,
                 first |-> a.first, uip |-> e.lit, otfs |-> a.otfs]
<1>1. [a EXCEPT !.uip = e.lit] = b
  BY AnalysisFields DEF AnalysisInv
<1>2. /\ b.db = a.db /\ b.conflict = a.conflict /\ b.seen = a.seen /\ b.uip = e.lit
      /\ b.otfs = a.otfs /\ IsAnalysis(b)
  BY DEF IsAnalysis
<1> HIDE DEF b
<1>3. FalseLits(n, t, a.seen) /\ k \in Nat
  BY DEF AnalysisInv, Loose, Positions
<1>4. GraphBelow(a.db, t, k - 1)
  <2>1. \A j \in Positions(t) : j <= k - 1 => j <= k
    BY <1>3 DEF Positions
  <2> QED
    BY <2>1 DEF AnalysisInv, GraphBelow
<1>5. /\ e.lit \in Int /\ e.lit # 0 /\ LevelOf(t, -e.lit) = Level(t)
  BY NegationAt, LitFacts
<1>6. Follows(t, db, {l \in a.seen : LevelOf(t, l) < Level(t)} \cup {-e.lit})
  <2>1. Follows(t, db, Resolvent(t, a.seen, k))
    BY DEF AnalysisInv, Analyzing
  <2>2. ASSUME NEW l \in a.seen, Pos(t, l) <= k, ~(LevelOf(t, l) < Level(t))
        PROVE  l = -e.lit
    <3>1. LevelOf(t, l) \in Nat /\ LevelOf(t, l) <= Level(t) /\ Pos(t, l) \in Nat
      BY <1>3, FalseFacts DEF FalseLits
    <3>2. Level(t) \in Nat
      BY TrailTypes DEF Shape
    <3>3. Pos(t, l) = k
      BY <3>1, <3>2, <2>2, <1>3
    <3> QED
      BY <3>3, <1>3, SeenAt
  <2>3. Resolvent(t, a.seen, k) \subseteq {l \in a.seen : LevelOf(t, l) < Level(t)} \cup {-e.lit}
    BY <2>2 DEF Resolvent
  <2> QED
    BY <2>1, <2>3, FollowsMore
<1>7. FoundUip(t, db, b)
  BY <1>2, <1>5, <1>6 DEF FoundUip
<1>8. AnalysisInv(n, t, db, b, k - 1)
  BY <1>2, <1>4, <1>5, <1>7 DEF AnalysisInv
<1> QED
  BY <1>1, <1>8

\* A resolution step.
LEMMA AnalysisResolves ==
  ASSUME NEW n \in Nat, NEW t, Shape(t), Over(n, t), Level(t) > 0, NEW db, NEW a,
         NEW k \in Positions(t), AnalysisInv(n, t, db, a, k), a.uip = 0, ~a.otfs,
         -t.trail[k].lit \in a.seen, t.trail[k].level = Level(t),
         NEW m \in a.seen, LevelOf(t, m) = Level(t), Pos(t, m) < k
  PROVE  LET e == t.trail[k]
             new == a.seen \cup (NonRoot(t, a.db[e.reason].lits) \ {e.lit})
         IN  AnalysisInv(n, t, db, [a EXCEPT !.seen = new, !.first = FALSE], k - 1)
<1> DEFINE e == t.trail[k]
           new == a.seen \cup (NonRoot(t, a.db[e.reason].lits) \ {e.lit})
           b == [db |-> a.db, conflict |-> a.conflict, seen |-> new, size |-> a.size,
                 first |-> FALSE, uip |-> a.uip, otfs |-> a.otfs]
<1> HIDE DEF new
<1>1. [a EXCEPT !.seen = new, !.first = FALSE] = b
  BY AnalysisFields DEF AnalysisInv
<1>2. /\ b.db = a.db /\ b.conflict = a.conflict /\ b.seen = new /\ b.uip = a.uip
      /\ b.otfs = a.otfs /\ b.first = FALSE /\ IsAnalysis(b)
  BY DEF IsAnalysis
<1> HIDE DEF b
<1>3. k \in Nat /\ Pos(t, m) \in Nat
  <2>1. FalseLits(n, t, a.seen)
    BY DEF AnalysisInv, Loose
  <2>2. k \in Nat
    BY DEF Positions
  <2> QED
    BY <2>1, <2>2, FalseTypes
<1>4. GraphBelow(a.db, t, k - 1)
  <2>1. \A j \in Positions(t) : j <= k - 1 => j <= k
    BY <1>3 DEF Positions
  <2> QED
    BY <2>1 DEF AnalysisInv, GraphBelow
<1>5. /\ Loose(n, t, new) /\ Follows(t, db, Resolvent(t, new, k - 1))
  <2>1. /\ Refined(n, t, db, a.db) /\ GraphBelow(a.db, t, k) /\ Loose(n, t, a.seen)
        /\ Follows(t, db, Resolvent(t, a.seen, k))
    BY DEF AnalysisInv, Analyzing
  <2> QED
    BY <2>1, ResolveStep DEF new
<1>6. m \in new /\ Pos(t, m) <= k - 1
  BY <1>3 DEF new
<1>7. Analyzing(t, db, b, k - 1)
  BY <1>2, <1>5, <1>6 DEF Analyzing
<1>8. AnalysisInv(n, t, db, b, k - 1)
  BY <1>2, <1>4, <1>5, <1>7 DEF AnalysisInv
<1> QED
  BY <1>1, <1>8 DEF new

\* The literals seen are resolved with a reason at position k, and what is
\* left of both is shorter than the reason.
ShortStep(n, t, seen, k, reason, r) ==
  /\ FalseLits(n, t, seen) /\ IsFiniteSet(seen) /\ IsFiniteSet(reason)
  /\ t.trail[k].level = Level(t) /\ -t.trail[k].lit \in seen /\ t.trail[k].lit \in reason
  /\ FalseLits(n, t, reason \ {t.trail[k].lit})
  /\ \A l \in reason \ {t.trail[k].lit} : Pos(t, l) < k
  /\ r = Resolvent(t, seen \cup (reason \ {t.trail[k].lit}), k - 1)
  /\ Cardinality(r) < Cardinality(reason)

\* Then what is left is the reason without the literal resolved on; if it is
\* shorter than the literals seen as well it is those without it.
LEMMA ShortResolvent ==
  ASSUME NEW n \in Nat, NEW t, Shape(t), NEW k \in Positions(t),
         NEW seen, NEW reason, NEW r, ShortStep(n, t, seen, k, reason, r)
  PROVE  /\ r = reason \ {t.trail[k].lit}
         /\ seen = Resolvent(t, seen, k) /\ Cardinality(r) < Cardinality(seen)
              => r = seen \ {-t.trail[k].lit}
<1> DEFINE e == t.trail[k]
           others == reason \ {e.lit}
<1>0. /\ FalseLits(n, t, seen) /\ IsFiniteSet(seen) /\ IsFiniteSet(reason)
      /\ e.level = Level(t) /\ -e.lit \in seen /\ e.lit \in reason
      /\ FalseLits(n, t, others) /\ \A l \in others : Pos(t, l) < k
      /\ r = Resolvent(t, seen \cup others, k - 1)
      /\ Cardinality(r) < Cardinality(reason)
  BY DEF ShortStep
<1>1. /\ k \in Nat /\ \A l \in seen : Pos(t, l) \in Nat
      /\ \A l \in others : Pos(t, l) \in Nat
  <2>1. k \in Nat
    BY DEF Positions
  <2> QED
    BY <2>1, <1>0, FalseTypes
<1>2. /\ IsFiniteSet(others) /\ Cardinality(others) = Cardinality(reason) - 1
      /\ Cardinality(reason) \in Nat /\ Cardinality(others) \in Nat
  BY <1>0, WithoutOne
<1>3. IsFiniteSet(seen \cup others)
  BY <1>0, <1>2, FS_Union
<1>4. IsFiniteSet(r) /\ Cardinality(r) \in Nat
  <2>1. r \subseteq seen \cup others
    BY <1>0 DEF Resolvent
  <2> QED
    BY <2>1, <1>3, FS_Subset, FS_CardinalityType
<1>5. others \subseteq r
  <2>1. \A l \in others : Pos(t, l) <= k - 1
    BY <1>0, <1>1
  <2> HIDE DEF others
  <2> QED
    BY <2>1, <1>0 DEF Resolvent
<1>11. Cardinality(r) < Cardinality(reason)
  BY <1>0
<1> HIDE DEF others
<1>6. r = others
  <2>1. Cardinality(others) <= Cardinality(r) /\ Cardinality(others) \in Nat
        /\ (Cardinality(r) = Cardinality(others) => r = others)
    BY <1>4, <1>5, <1>2, FS_Subset
  <2> QED
    BY <2>1, <1>2, <1>4, <1>11
<1>7. ASSUME seen = Resolvent(t, seen, k), Cardinality(r) < Cardinality(seen)
      PROVE  r = seen \ {-e.lit}
  <2> DEFINE rest == seen \ {-e.lit}
  <2>1. /\ IsFiniteSet(rest) /\ Cardinality(rest) = Cardinality(seen) - 1
        /\ Cardinality(seen) \in Nat /\ Cardinality(rest) \in Nat
    BY <1>0, WithoutOne
  <2>2. ASSUME NEW l \in rest PROVE l \in r
    <3>1. LevelOf(t, l) < Level(t) \/ Pos(t, l) <= k
      BY <1>7, <2>2 DEF Resolvent
    <3>2. Pos(t, l) # k
      BY <2>2, <1>0, SeenAt
    <3>3. LevelOf(t, l) < Level(t) \/ Pos(t, l) <= k - 1
      BY <3>1, <3>2, <1>1, <2>2
    <3> QED
      BY <3>3, <2>2, <1>0 DEF Resolvent
  <2> HIDE DEF rest
  <2>3. Cardinality(rest) <= Cardinality(r) /\ (Cardinality(r) = Cardinality(rest) => r = rest)
    BY <1>4, <2>2, FS_Subset
  <2>4. Cardinality(r) = Cardinality(rest)
    BY <2>1, <2>3, <1>4, <1>7
  <2> QED
    BY <2>3, <2>4 DEF rest
<1> QED
  BY <1>4, <1>6, <1>7 DEF others

\* The databases a strengthening step can leave: clause i lost the literal
\* resolved on, and the conflict may be subsumed by it.
Strengthens(n, t, d, s, i, r, conflict, subsumes) ==
  /\ IsDatabase(n, s) /\ DOMAIN s = DOMAIN d /\ i \in DOMAIN d
  /\ s[i].lits = r /\ \A j \in DOMAIN d : j # i => s[j].lits = d[j].lits
  /\ \A j \in DOMAIN d : j # i => s[j].watch = d[j].watch
  /\ \A j \in DOMAIN d :
       s[j].garbage = (d[j].garbage \/ (subsumes /\ j = conflict))
  /\ \A j \in DOMAIN d :
       s[j].redundant = (d[j].redundant /\ (subsumes /\ j = i => d[conflict].redundant))
  /\ Raised(t, s[i])

\* Two clauses change.
LEMMA SubsumeFacts ==
  ASSUME NEW n \in Nat, NEW d, IsDatabase(n, d), NEW i \in DOMAIN d, NEW j \in DOMAIN d, i # j
  PROVE  LET s == OtfsSubsumeClause(d, i, j)
         IN  /\ IsDatabase(n, s) /\ DOMAIN s = DOMAIN d
             /\ \A k \in DOMAIN d :
                  /\ s[k].lits = d[k].lits /\ s[k].watch = d[k].watch
                  /\ s[k].garbage = (d[k].garbage \/ k = j)
                  /\ s[k].redundant = (d[k].redundant /\ (k = i => d[j].redundant))
<1> DEFINE s == OtfsSubsumeClause(d, i, j)
           both == d[i].redundant /\ d[j].redundant
           ci == [lits |-> d[i].lits, watch |-> d[i].watch,
                  redundant |-> both, garbage |-> d[i].garbage]
           cj == [lits |-> d[j].lits, watch |-> d[j].watch,
                  redundant |-> d[j].redundant, garbage |-> TRUE]
           s1 == [d EXCEPT ![j] = cj]
<1>1. d[i] \in Clauses(n) /\ d[j] \in Clauses(n) /\ \A k \in DOMAIN d : d[k] \in Clauses(n)
      /\ Watching(d[i]) /\ Watching(d[j])
      /\ Cardinality(d[i].lits) >= 2 /\ Cardinality(d[j].lits) >= 2
  BY DEF IsDatabase
<1>2. [d[j] EXCEPT !.garbage = TRUE] = cj
  BY <1>1, ClauseFields
<1>0. both \in BOOLEAN
  OBVIOUS
<1> HIDE DEF both
<1>3. [d[i] EXCEPT !.redundant = both] = ci
  <2>1. \A x : [d[i] EXCEPT !.redundant = x] =
                 [lits |-> d[i].lits, watch |-> d[i].watch, redundant |-> x,
                  garbage |-> d[i].garbage]
    <3>1. ASSUME NEW c \in Clauses(n), NEW x
          PROVE  [c EXCEPT !.redundant = x] =
                   [lits |-> c.lits, watch |-> c.watch, redundant |-> x, garbage |-> c.garbage]
      BY DEF Clauses
    <3> QED
      BY <1>1, <3>1, Zenon
  <2> QED
    BY <2>1, Zenon
<1>4. ci \in Clauses(n) /\ cj \in Clauses(n)
  BY <1>0, <1>1 DEF Clauses
<1>5. Watching(ci) /\ Watching(cj) /\ Cardinality(ci.lits) >= 2 /\ Cardinality(cj.lits) >= 2
  BY <1>1 DEF Watching
<1>6. /\ ci.lits = d[i].lits /\ ci.watch = d[i].watch /\ ci.garbage = d[i].garbage
      /\ ci.redundant = both
      /\ cj.lits = d[j].lits /\ cj.watch = d[j].watch /\ cj.garbage = TRUE
      /\ cj.redundant = d[j].redundant
  OBVIOUS
<1> HIDE DEF ci, cj
<1>7. s = [s1 EXCEPT ![i] = ci]
  <2>1. s1 = [d EXCEPT ![j].garbage = TRUE]
    BY <1>2
  <2>2. s = [[d EXCEPT ![j].garbage = TRUE]
               EXCEPT ![i].redundant = both]
    <3>1. s = [d EXCEPT ![j].garbage = TRUE, ![i].redundant = @ /\ d[j].redundant]
      BY DEF OtfsSubsumeClause
    <3>2. [d EXCEPT ![j].garbage = TRUE][i].redundant = d[i].redundant
      OBVIOUS
    <3> QED
      BY <3>1, <3>2 DEF both
  <2>3. s1[i] = d[i] /\ i \in DOMAIN s1
    OBVIOUS
  <2> HIDE DEF s1, s
  <2>4. s = [s1 EXCEPT ![i].redundant = both]
    BY <2>1, <2>2
  <2>5. s = [s1 EXCEPT ![i] = [s1[i] EXCEPT !.redundant = both]]
    BY <2>4
  <2> QED
    BY <2>3, <2>5, <1>3
<1> HIDE DEF s
<1>8. /\ DOMAIN s = DOMAIN d /\ s[i] = ci /\ s[j] = cj
      /\ \A k \in DOMAIN d : k # i /\ k # j => s[k] = d[k]
      /\ s = [k \in DOMAIN s |-> s[k]]
  BY <1>7
<1> HIDE DEF s1
<1>9. IsDatabase(n, s)
  BY <1>4, <1>5, <1>8 DEF IsDatabase
<1>10. \A k \in DOMAIN d : d[k].garbage \in BOOLEAN /\ d[k].redundant \in BOOLEAN
  BY <1>1 DEF Clauses
<1>11. ASSUME NEW k \in DOMAIN d
       PROVE  /\ s[k].lits = d[k].lits /\ s[k].watch = d[k].watch
              /\ s[k].garbage = (d[k].garbage \/ k = j)
              /\ s[k].redundant = (d[k].redundant /\ (k = i => d[j].redundant))
  <2>1. CASE k = i
    BY <2>1, <1>6, <1>8, <1>10 DEF both
  <2>2. CASE k = j
    BY <2>2, <1>6, <1>8, <1>10
  <2>3. CASE k # i /\ k # j
    BY <2>3, <1>8, <1>10
  <2> QED
    BY <2>1, <2>2, <2>3
<1> QED
  BY <1>8, <1>9, <1>11 DEF s

\* Strengthening the reason at position k, and perhaps subsuming the conflict.
LEMMA StrengthensFacts ==
  ASSUME NEW n \in Nat, NEW d, IsDatabase(n, d), NEW t, Shape(t), Level(t) > 0,
         NEW k \in Positions(t), t.trail[k].level = Level(t),
         t.trail[k].reason # NoReason, Reasoned(d, t, k),
         Cardinality(NonRoot(t, d[t.trail[k].reason].lits)) > 2,
         NEW conflict \in DOMAIN d, NEW subsumes \in BOOLEAN,
         subsumes => conflict # t.trail[k].reason
  PROVE  LET i == t.trail[k].reason
             s == OnTheFlyStrengthen(d, t, i, t.trail[k].lit)
         IN  Strengthens(n, t, d, IF subsumes THEN OtfsSubsumeClause(s, i, conflict) ELSE s,
                         i, NonRoot(t, d[i].lits) \ {t.trail[k].lit}, conflict, subsumes)
<1> DEFINE i == t.trail[k].reason
           s == OnTheFlyStrengthen(d, t, i, t.trail[k].lit)
           r == NonRoot(t, d[i].lits) \ {t.trail[k].lit}
           u == OtfsSubsumeClause(s, i, conflict)
<1>0. /\ IsDatabase(n, s) /\ DOMAIN s = DOMAIN d /\ i \in DOMAIN d
      /\ \A j \in DOMAIN d : j # i => s[j] = d[j]
      /\ s[i].lits = NonRoot(t, d[i].lits) \ {t.trail[k].lit}
      /\ s[i].redundant = d[i].redundant /\ s[i].garbage = d[i].garbage
      /\ Loose(n, t, s[i].lits) /\ Raised(t, s[i])
  <2> HIDE DEF r, u
  <2> QED
    BY ONLY StrengthenFacts, ZenonT(60), n \in Nat, IsDatabase(n, d), Shape(t), Level(t) > 0,
            k \in Positions(t), t.trail[k].level = Level(t),
            t.trail[k].reason # NoReason, Reasoned(d, t, k),
            Cardinality(NonRoot(t, d[t.trail[k].reason].lits)) > 2
<1>1. /\ IsDatabase(n, s) /\ DOMAIN s = DOMAIN d /\ i \in DOMAIN d
      /\ \A j \in DOMAIN d : j # i => s[j] = d[j]
      /\ s[i].lits = r
      /\ s[i].redundant = d[i].redundant /\ s[i].garbage = d[i].garbage
      /\ Raised(t, s[i])
  BY <1>0
<1>2. \A j \in DOMAIN d : d[j].garbage \in BOOLEAN /\ d[j].redundant \in BOOLEAN
  BY DEF IsDatabase, Clauses
<1> HIDE DEF s, r, i
<1>3. CASE ~subsumes
  <2>1. \A j \in DOMAIN d :
          /\ s[j].garbage = d[j].garbage /\ s[j].redundant = d[j].redundant
          /\ j # i => s[j].watch = d[j].watch
          /\ j # i => s[j].lits = d[j].lits
    BY <1>1
  <2>2. Strengthens(n, t, d, s, i, r, conflict, subsumes)
    BY <1>1, <1>2, <1>3, <2>1 DEF Strengthens
  <2> QED
    BY <1>3, <2>2 DEF s, r, i
<1>4. CASE subsumes
  <2>1. conflict # i
    BY <1>4 DEF i
  <2>2. /\ IsDatabase(n, u) /\ DOMAIN u = DOMAIN d
        /\ \A j \in DOMAIN d :
             /\ u[j].lits = s[j].lits /\ u[j].watch = s[j].watch
             /\ u[j].garbage = (s[j].garbage \/ j = conflict)
             /\ u[j].redundant = (s[j].redundant /\ (j = i => s[conflict].redundant))
    BY <1>1, <2>1, SubsumeFacts
  <2> HIDE DEF u
  <2>3. s[conflict].redundant = d[conflict].redundant
    BY <1>1, <2>1
  <2>4. \A j \in DOMAIN d :
          /\ s[j].garbage = d[j].garbage /\ s[j].redundant = d[j].redundant
          /\ j # i => s[j].watch = d[j].watch
          /\ j # i => s[j].lits = d[j].lits
    BY <1>1
  <2>5. Raised(t, u[i])
    BY <1>1, <2>2 DEF Raised
  <2>6. Strengthens(n, t, d, u, i, r, conflict, subsumes)
    BY <1>1, <1>4, <2>2, <2>3, <2>4, <2>5 DEF Strengthens
  <2> QED
    BY <1>4, <2>6 DEF s, r, i, u
<1> QED
  BY <1>3, <1>4

\* What the clauses say after a strengthening step.
LEMMA StrengthensRefined ==
  ASSUME NEW n, NEW t, NEW db, NEW d, Refined(n, t, db, d), NEW s, NEW i, NEW r,
         NEW conflict \in DOMAIN d, NEW subsumes \in BOOLEAN,
         Strengthens(n, t, d, s, i, r, conflict, subsumes),
         ~d[i].garbage, r \subseteq d[i].lits, Follows(t, db, r),
         subsumes => conflict # i /\ r \subseteq d[conflict].lits
  PROVE  Refined(n, t, db, s)
<1>1. /\ IsDatabase(n, s) /\ DOMAIN s = DOMAIN d /\ DOMAIN d = DOMAIN db /\ i \in DOMAIN d
      /\ s[i].lits = r /\ Raised(t, s[i])
  BY DEF Strengthens, Refined
<1>2. \A j \in DOMAIN d : j # i => s[j].lits = d[j].lits /\ s[j].watch = d[j].watch
  BY DEF Strengthens
<1>3. \A j \in DOMAIN d : s[j].garbage = (d[j].garbage \/ (subsumes /\ j = conflict))
  BY DEF Strengthens
<1>4. \A j \in DOMAIN d :
        s[j].redundant = (d[j].redundant /\ (subsumes /\ j = i => d[conflict].redundant))
  BY DEF Strengthens
<1>5. ASSUME NEW j \in DOMAIN db
      PROVE  (s[j].lits = db[j].lits /\ s[j].watch = db[j].watch) \/ Raised(t, s[j])
  <2>1. CASE j = i
    BY <2>1, <1>1
  <2>2. CASE j # i
    <3>1. s[j].lits = d[j].lits /\ s[j].watch = d[j].watch
      BY <2>2, <1>1, <1>2
    <3>2. (d[j].lits = db[j].lits /\ d[j].watch = db[j].watch) \/ Raised(t, d[j])
      BY DEF Refined
    <3>3. Raised(t, d[j]) => Raised(t, s[j])
      BY <3>1 DEF Raised
    <3> QED
      BY <3>1, <3>2, <3>3
  <2> QED
    BY <2>1, <2>2
<1>6. ASSUME NEW j \in DOMAIN db, ~s[j].garbage PROVE ~db[j].garbage
  <2>1. ~d[j].garbage
    BY <1>1, <1>3, <1>6
  <2> QED
    BY <2>1 DEF Refined
<1>7. ASSUME NEW T, RootHolds(T, t), AllHold(T, db) PROVE AllHold(T, s)
  <2>1. AllHold(T, d)
    BY <1>7 DEF Refined
  <2>2. SatClause(T, s[i].lits)
    BY <1>7, <1>1 DEF Follows
  <2>3. ASSUME NEW j \in DOMAIN s PROVE SatClause(T, s[j].lits)
    <3>1. CASE j = i
      BY <3>1, <2>2
    <3>2. CASE j # i
      <4>1. s[j].lits = d[j].lits
        BY <3>2, <1>1, <1>2
      <4> QED
        BY <4>1, <2>1, <1>1 DEF AllHold
    <3> QED
      BY <3>1, <3>2
  <2> QED
    BY <2>3 DEF AllHold
<1>8. ASSUME NEW T, RootHolds(T, t), CoreHolds(T, s) PROVE CoreHolds(T, db)
  <2>1. ASSUME NEW j \in DOMAIN d, ~d[j].redundant, ~d[j].garbage
        PROVE  SatClause(T, d[j].lits)
    <3>1. ASSUME ~s[i].redundant, r \subseteq d[j].lits PROVE SatClause(T, d[j].lits)
      <4>1. ~s[i].garbage
        BY <1>1, <1>3
      <4>2. SatClause(T, r)
        BY <4>1, <3>1, <1>1, <1>8 DEF CoreHolds
      <4> QED
        BY <4>2, <3>1 DEF SatClause
    <3>2. CASE j = i
      <4>1. ~s[i].redundant
        BY <3>2, <2>1, <1>4
      <4> QED
        BY <4>1, <3>1, <3>2
    <3>3. CASE j # i /\ ~(subsumes /\ j = conflict)
      <4>1. ~s[j].redundant /\ ~s[j].garbage /\ s[j].lits = d[j].lits
        BY <3>3, <2>1, <1>2, <1>3, <1>4
      <4> QED
        BY <4>1, <1>1, <1>8 DEF CoreHolds
    <3>4. CASE subsumes /\ j = conflict
      <4>1. ~s[i].redundant
        BY <3>4, <2>1, <1>1, <1>4
      <4> QED
        BY <4>1, <3>1, <3>4
    <3> QED
      BY <3>2, <3>3, <3>4
  <2>2. CoreHolds(T, d)
    BY <2>1 DEF CoreHolds
  <2> QED
    BY <2>2, <1>8 DEF Refined
<1> QED
  BY <1>1, <1>5, <1>6, <1>7, <1>8 DEF Refined

\* The reasons of the positions below stay.
LEMMA StrengthensGraph ==
  ASSUME NEW n, NEW t, Shape(t), NEW d, NEW s, NEW k \in Positions(t), GraphBelow(d, t, k),
         NEW i, i = t.trail[k].reason, i # NoReason, Reasoned(d, t, k), t.trail[k].level = Level(t),
         NEW r, NEW conflict \in DOMAIN d, NEW subsumes \in BOOLEAN,
         Strengthens(n, t, d, s, i, r, conflict, subsumes),
         subsumes => \A l \in d[conflict].lits : Val(t, l) = -1
  PROVE  GraphBelow(s, t, k - 1)
<1> SUFFICES ASSUME NEW j \in Positions(t), t.trail[j].level < Level(t) \/ j <= k - 1
             PROVE  Reasoned(s, t, j) /\ Protected(s, t, j)
  BY DEF GraphBelow
<1>1. j \in Nat /\ k \in Nat
  BY DEF Positions
<1>2. Reasoned(d, t, j) /\ Protected(d, t, j)
  <2>1. t.trail[j].level < Level(t) \/ j <= k
    BY <1>1
  <2> QED
    BY <2>1 DEF GraphBelow
<1>3. j # k
  <2>1. Level(t) \in Nat
    BY TrailTypes DEF Shape
  <2>2. ~(Level(t) < Level(t)) /\ ~(k <= k - 1)
    BY <2>1, <1>1
  <2> QED
    BY <2>2
<1>4. CASE t.trail[j].reason = NoReason
  BY <1>4 DEF Reasoned, Protected
<1>5. CASE t.trail[j].reason # NoReason
  <2> DEFINE q == t.trail[j].reason
  <2>1. q # i
    BY <1>2, <1>3, <1>5, ReasonsDiffer
  <2>2. q \in DOMAIN d /\ t.trail[j].lit \in d[q].lits
    BY <1>2, <1>5 DEF Reasoned
  <2>3. s[q].lits = d[q].lits /\ DOMAIN s = DOMAIN d
        /\ s[q].garbage = (d[q].garbage \/ (subsumes /\ q = conflict))
    BY <2>1, <2>2 DEF Strengthens
  <2>4. ~(subsumes /\ q = conflict)
    <3>1. Val(t, t.trail[j].lit) = 1
      BY AtPosition DEF Shape
    <3>2. \A x : x = 1 => x # -1
      OBVIOUS
    <3> QED
      BY <3>1, <3>2, <2>2
  <2>5. Reasoned(s, t, j)
    BY <1>2, <1>5, <2>2, <2>3 DEF Reasoned
  <2>6. Protected(s, t, j)
    BY <1>2, <1>5, <2>3, <2>4 DEF Protected
  <2> QED
    BY <2>5, <2>6
<1> QED
  BY <1>4, <1>5

\* What is left of the reason at position k when it is strengthened.
Shortened(n, t, db, a, k, i, r) ==
  /\ i = t.trail[k].reason /\ i # NoReason /\ i \in DOMAIN a.db /\ Reasoned(a.db, t, k)
  /\ r = NonRoot(t, a.db[i].lits) \ {t.trail[k].lit} /\ r \subseteq a.db[i].lits
  /\ ~a.db[i].garbage
  /\ Loose(n, t, r) /\ Follows(t, db, r)
  /\ \A l \in r : Pos(t, l) <= k - 1
  /\ \E l \in r : LevelOf(t, l) = Level(t)
  /\ a.first => /\ a.conflict # i /\ \A l \in a.db[a.conflict].lits : Val(t, l) = -1
                /\ Cardinality(r) < a.size => r \subseteq a.db[a.conflict].lits

\* The reason i at position k is to be strengthened to r.
Strengthening(t, a, k, i, reason, r) ==
  /\ a.uip = 0 /\ ~a.otfs /\ -t.trail[k].lit \in a.seen /\ t.trail[k].level = Level(t)
  /\ \E m \in a.seen : LevelOf(t, m) = Level(t) /\ Pos(t, m) < k
  /\ i = t.trail[k].reason /\ reason = NonRoot(t, a.db[i].lits)
  /\ r = Resolvent(t, a.seen \cup (reason \ {t.trail[k].lit}), k - 1)
  /\ Cardinality(reason) > 2 /\ Cardinality(r) < Cardinality(reason)

\* What remains of it still follows from the clauses and still has a literal
\* of the conflict level.
LEMMA ShortenedFacts ==
  ASSUME NEW n \in Nat, NEW t, Shape(t), Over(n, t), Level(t) > 0, NEW db, NEW a,
         NEW k \in Positions(t), AnalysisInv(n, t, db, a, k),
         NEW i, NEW reason, NEW r, Strengthening(t, a, k, i, reason, r)
  PROVE  Shortened(n, t, db, a, k, i, r)
<1>0. /\ a.uip = 0 /\ ~a.otfs /\ -t.trail[k].lit \in a.seen /\ t.trail[k].level = Level(t)
      /\ i = t.trail[k].reason /\ reason = NonRoot(t, a.db[i].lits)
      /\ r = Resolvent(t, a.seen \cup (reason \ {t.trail[k].lit}), k - 1)
      /\ Cardinality(reason) > 2 /\ Cardinality(r) < Cardinality(reason)
  BY DEF Strengthening
<1>20. PICK m \in a.seen : LevelOf(t, m) = Level(t) /\ Pos(t, m) < k
  BY DEF Strengthening
<1>1. /\ Refined(n, t, db, a.db) /\ GraphBelow(a.db, t, k) /\ Loose(n, t, a.seen)
      /\ FalseLits(n, t, a.seen) /\ Follows(t, db, Resolvent(t, a.seen, k))
      /\ IsDatabase(n, a.db)
  BY <1>0 DEF AnalysisInv, Analyzing, Refined, Loose
<1>2. /\ i # NoReason /\ Reasoned(a.db, t, k)
      /\ t.trail[k].lit \in reason /\ Loose(n, t, reason \ {t.trail[k].lit})
      /\ \A l \in reason \ {t.trail[k].lit} : Pos(t, l) < k
      /\ Follows(t, db, r) /\ m \in r
  BY <1>0, <1>1, <1>20, ResolveStep, ZenonT(60)
<1>3. i \in DOMAIN a.db
  BY <1>0, <1>2 DEF Reasoned
<1>4. IsFiniteSet(a.seen) /\ IsFiniteSet(reason)
  <2>1. a.seen \subseteq LitsOf(n)
    BY <1>1, FalseTypes
  <2>2. reason \subseteq LitsOf(n)
    <3>1. a.db[i].lits \subseteq LitsOf(n)
      BY <1>1, <1>3, ClauseTypes
    <3> QED
      BY <3>1, <1>0 DEF NonRoot
  <2> QED
    BY <2>1, <2>2, LitsFinite
<1>5. FalseLits(n, t, reason \ {t.trail[k].lit})
  BY <1>2 DEF Loose
<1>6. /\ r = reason \ {t.trail[k].lit}
      /\ a.seen = Resolvent(t, a.seen, k) /\ Cardinality(r) < Cardinality(a.seen)
           => r = a.seen \ {-t.trail[k].lit}
  <2>1. ShortStep(n, t, a.seen, k, reason, r)
    BY <1>0, <1>1, <1>2, <1>4, <1>5 DEF ShortStep
  <2> QED
    BY <2>1, ShortResolvent
<1>7. ASSUME a.first
      PROVE  /\ a.conflict # i /\ \A l \in a.db[a.conflict].lits : Val(t, l) = -1
             /\ Cardinality(r) < a.size => r \subseteq a.db[a.conflict].lits
  <2>1. /\ a.seen = NonRoot(t, a.db[a.conflict].lits) /\ a.size = Cardinality(a.seen)
        /\ \A l \in a.db[a.conflict].lits : Val(t, l) = -1
        /\ a.seen = Resolvent(t, a.seen, k)
    BY <1>0, <1>7 DEF AnalysisInv, Analyzing
  <2>2. ASSUME a.conflict = i PROVE FALSE
    <3>1. t.trail[k].lit \in a.db[a.conflict].lits
      BY <2>2, <1>0, <1>2 DEF NonRoot
    <3>2. Val(t, t.trail[k].lit) = 1
      BY AtPosition DEF Shape
    <3> QED
      BY <3>1, <3>2, <2>1
  <2>3. a.seen \subseteq a.db[a.conflict].lits
    BY <2>1 DEF NonRoot
  <2>4. Cardinality(r) < a.size => r \subseteq a.db[a.conflict].lits
    BY <2>1, <2>3, <1>6
  <2> QED
    BY <2>1, <2>2, <2>4
<1>8. ~a.db[i].garbage
  <2>1. Protected(a.db, t, k)
    <3>1. k <= k
      BY DEF Positions
    <3> QED
      BY <3>1, <1>1 DEF GraphBelow
  <2>2. Cardinality(a.db[i].lits) > 2
    <3>1. IsFiniteSet(a.db[i].lits) /\ reason \subseteq a.db[i].lits
      BY <1>0, <1>1, <1>3, ClauseTypes DEF NonRoot
    <3>2. Cardinality(reason) <= Cardinality(a.db[i].lits)
          /\ Cardinality(reason) \in Nat /\ Cardinality(a.db[i].lits) \in Nat
      BY <3>1, <1>4, FS_Subset, FS_CardinalityType
    <3>3. \A x, y \in Nat : x > 2 /\ x <= y => y > 2
      OBVIOUS
    <3> QED
      BY <3>2, <3>3, <1>0
  <2> QED
    BY <2>1, <2>2, <1>0, <1>2 DEF Protected
<1>9. \A l \in reason \ {t.trail[k].lit} : Pos(t, l) <= k - 1
  <2>1. \A l \in reason \ {t.trail[k].lit} : Pos(t, l) \in Nat
    BY <1>5, FalseTypes
  <2>2. k \in Nat
    BY DEF Positions
  <2>3. \A x \in Nat : x < k => x <= k - 1
    BY <2>2
  <2> QED
    BY <2>1, <2>3, <1>2
<1>10. reason \ {t.trail[k].lit} \subseteq a.db[i].lits
  BY <1>0 DEF NonRoot
<1>11. r = NonRoot(t, a.db[i].lits) \ {t.trail[k].lit}
  BY <1>0, <1>6
<1> QED
  BY <1>0, <1>20, <1>2, <1>3, <1>6, <1>7, <1>8, <1>9, <1>10, <1>11 DEF Shortened

\* A resolution step that strengthens the reason.
LEMMA AnalysisStrengthens ==
  ASSUME NEW n \in Nat, NEW t, Shape(t), NEW db, NEW a,
         NEW k \in Positions(t), AnalysisInv(n, t, db, a, k), a.uip = 0,
         t.trail[k].level = Level(t), NEW i, NEW r, Shortened(n, t, db, a, k, i, r),
         NEW subsumes \in BOOLEAN, subsumes => a.first /\ Cardinality(r) < a.size,
         NEW s, Strengthens(n, t, a.db, s, i, r, a.conflict, subsumes),
         NEW otfs \in BOOLEAN,
         otfs => \E l \in r : LevelOf(t, l) = Level(t)
                   /\ \A x \in r : LevelOf(t, x) = Level(t) => x = l
  PROVE  AnalysisInv(n, t, db, StartAnalysis(s, i, r, otfs), k - 1)
<1> DEFINE b == StartAnalysis(s, i, r, otfs)
<1>2. /\ b.db = s /\ b.conflict = i /\ b.seen = r /\ b.uip = 0 /\ b.size = Cardinality(r)
      /\ b.otfs = otfs /\ b.first = TRUE /\ IsAnalysis(b)
  BY DEF IsAnalysis, StartAnalysis
<1> HIDE DEF b
<1>3. /\ Refined(n, t, db, a.db) /\ GraphBelow(a.db, t, k)
      /\ DOMAIN a.db = DOMAIN db /\ a.conflict \in DOMAIN a.db
  BY DEF AnalysisInv, Refined
<1>4. Refined(n, t, db, s)
  BY <1>3, StrengthensRefined DEF Shortened
<1>5. GraphBelow(s, t, k - 1)
  BY <1>3, StrengthensGraph DEF Shortened
<1>6. /\ s[i].lits = r /\ i \in DOMAIN db
      /\ s[i].garbage = (a.db[i].garbage \/ (subsumes /\ i = a.conflict))
  BY <1>3 DEF Strengthens, Shortened
<1>7. /\ Loose(n, t, r) /\ Follows(t, db, r) /\ \A l \in r : Pos(t, l) <= k - 1
      /\ \E l \in r : LevelOf(t, l) = Level(t)
  BY DEF Shortened
<1>8. r = Resolvent(t, r, k - 1)
  BY <1>7 DEF Resolvent
<1>9. r = NonRoot(t, s[i].lits)
  BY <1>6, <1>7 DEF NonRoot, Loose
<1>10. \A l \in s[i].lits : Val(t, l) = -1
  BY <1>6, <1>7 DEF Loose, FalseLits, FalseLit
<1>11. Analyzing(t, db, b, k - 1)
  BY <1>2, <1>7, <1>8, <1>9, <1>10 DEF Analyzing
<1>12. ASSUME otfs PROVE FoundStrengthened(t, b)
  <2>1. ~s[i].garbage
    BY <1>6 DEF Shortened
  <2> QED
    BY <1>2, <1>6, <1>12, <2>1 DEF FoundStrengthened
<1>13. AnalysisInv(n, t, db, b, k - 1)
  BY <1>2, <1>4, <1>5, <1>6, <1>7, <1>11, <1>12 DEF AnalysisInv
<1> QED
  BY <1>13 DEF b

\* One literal of the trail is looked at.
LEMMA AnalysisStep ==
  ASSUME NEW n \in Nat, NEW t, Shape(t), Over(n, t), Level(t) > 0, NEW db, NEW a,
         NEW k \in Positions(t), AnalysisInv(n, t, db, a, k), NEW o
  PROVE  AnalysisInv(n, t, db, AnalyzePosition(o, t, a, k), k - 1)
<1> DEFINE e == t.trail[k]
           Open(s) == {l \in s : LevelOf(t, l) = Level(t) /\ Pos(t, l) < k}
           i == e.reason
           reason == NonRoot(t, a.db[i].lits)
           seen == a.seen \cup (reason \ {e.lit})
           r == {l \in seen : LevelOf(t, l) < Level(t) \/ Pos(t, l) < k}
           strengthened == OnTheFlyStrengthen(a.db, t, i, e.lit)
           subsumes == a.first /\ Cardinality(r) < a.size
           otfs == Cardinality(Open(r)) = 1
           s == IF subsumes THEN OtfsSubsumeClause(strengthened, i, a.conflict)
                ELSE strengthened
           next == AnalyzePosition(o, t, a, k)
           skips == a.uip # 0 \/ a.otfs \/ -e.lit \notin a.seen \/ e.level # Level(t)
           short == o.otfs /\ Cardinality(reason) > 2 /\ Cardinality(r) < Cardinality(reason)
<1>1. next =
        IF skips THEN a
        ELSE IF Open(a.seen) = {} THEN [a EXCEPT !.uip = e.lit]
        ELSE IF short THEN StartAnalysis(s, i, r, otfs)
        ELSE [a EXCEPT !.seen = seen, !.first = FALSE]
  BY DEF AnalyzePosition
<1>2. CASE skips
  <2>1. next = a
    BY <1>1, <1>2
  <2>2. AnalysisInv(n, t, db, a, k - 1)
    BY <1>2, AnalysisSkips
  <2> QED
    BY <2>1, <2>2
<1>3. CASE ~skips /\ Open(a.seen) = {}
  <2>1. next = [a EXCEPT !.uip = e.lit]
    BY <1>1, <1>3
  <2>2. AnalysisInv(n, t, db, [a EXCEPT !.uip = e.lit], k - 1)
    BY <1>3, AnalysisFindsUip
  <2> QED
    BY <2>1, <2>2
<1>4. CASE ~skips /\ Open(a.seen) # {} /\ ~short
  <2>1. next = [a EXCEPT !.seen = seen, !.first = FALSE]
    BY <1>1, <1>4
  <2>2. PICK m \in a.seen : LevelOf(t, m) = Level(t) /\ Pos(t, m) < k
    BY <1>4
  <2>3. AnalysisInv(n, t, db, [a EXCEPT !.seen = seen, !.first = FALSE], k - 1)
    BY <1>4, <2>2, AnalysisResolves
  <2> QED
    BY <2>1, <2>3
<1>5. CASE ~skips /\ Open(a.seen) # {} /\ short
  <2>1. next = StartAnalysis(s, i, r, otfs)
    BY <1>1, <1>5
  <2>2. r = Resolvent(t, a.seen \cup (reason \ {e.lit}), k - 1)
    <3>1. k \in Nat
      BY DEF Positions
    <3>2. \A l \in seen : LevelOf(t, l) < Level(t) \/ Pos(t, l) \in Nat
      <4>1. \A l \in a.seen : Pos(t, l) \in Nat
        BY FalseTypes DEF AnalysisInv, Loose
      <4>2. \A l \in reason \ {e.lit} : Pos(t, l) \in Nat
        <5>1. GraphBelow(a.db, t, k) /\ k <= k
          BY <3>1 DEF AnalysisInv
        <5>2. Reasoned(a.db, t, k)
          BY <5>1 DEF GraphBelow
        <5>3. IsDatabase(n, a.db)
          BY DEF AnalysisInv, Refined
        <5>4. PICK m \in a.seen : LevelOf(t, m) = Level(t) /\ Pos(t, m) < k
          BY <1>5
        <5>5. i # NoReason
          <6>1. m \in Int /\ Val(t, m) # 0
            <7>1. m \in Int /\ Val(t, m) = -1
              BY <5>4, FalseTypes DEF AnalysisInv, Loose
            <7> QED
              BY <7>1
          <6> QED
            BY <6>1, <5>4, <1>5, LaterHasReason
        <5>6. i \in DOMAIN a.db /\ \A l \in a.db[i].lits \ {e.lit} : Val(t, l) = -1
          BY <5>2, <5>5 DEF Reasoned
        <5>7. FalseLits(n, t, reason \ {e.lit})
          BY <5>3, <5>6, ClauseTypes DEF NonRoot, FalseLits, FalseLit
        <5> QED
          BY <5>7, FalseTypes
      <4> HIDE DEF reason
      <4> QED
        BY <4>1, <4>2
    <3>3. \A x \in Nat : x < k <=> x <= k - 1
      BY <3>1
    <3> HIDE DEF seen
    <3>4. r = Resolvent(t, seen, k - 1)
      BY <3>2, <3>3 DEF Resolvent
    <3> QED
      BY <3>4 DEF seen
  <2> HIDE DEF r, reason, next, s
  <2>3. Strengthening(t, a, k, i, reason, r)
    <3>1. \E m \in a.seen : LevelOf(t, m) = Level(t) /\ Pos(t, m) < k
      BY <1>5
    <3>2. reason = NonRoot(t, a.db[i].lits)
      BY DEF reason
    <3> QED
      BY <1>5, <2>2, <3>1, <3>2 DEF Strengthening
  <2>4. Shortened(n, t, db, a, k, i, r)
    BY <2>3, ShortenedFacts
  <2>5. subsumes => a.first /\ Cardinality(r) < a.size /\ a.conflict # i
    BY <2>4 DEF Shortened
  <2>6. Strengthens(n, t, a.db, s, i, r, a.conflict, subsumes)
    <3>1. IsDatabase(n, a.db) /\ a.conflict \in DOMAIN a.db
      BY DEF AnalysisInv, Refined
    <3>2. /\ i # NoReason /\ Reasoned(a.db, t, k)
          /\ r = NonRoot(t, a.db[i].lits) \ {e.lit}
      BY <2>4 DEF Shortened
    <3>3. Cardinality(NonRoot(t, a.db[i].lits)) > 2
      BY <1>5 DEF reason
    <3> DEFINE u == OnTheFlyStrengthen(a.db, t, i, t.trail[k].lit)
    <3>4. Strengthens(n, t, a.db, IF subsumes THEN OtfsSubsumeClause(u, i, a.conflict) ELSE u,
                      i, NonRoot(t, a.db[i].lits) \ {t.trail[k].lit}, a.conflict, subsumes)
      <4>1. subsumes \in BOOLEAN /\ (subsumes => a.conflict # i)
        BY <2>5
      <4> HIDE DEF subsumes
      <4>2. e.level = Level(t)
        BY <1>5
      <4>3. ASSUME NEW q \in BOOLEAN, q => a.conflict # i
            PROVE  Strengthens(n, t, a.db, IF q THEN OtfsSubsumeClause(u, i, a.conflict) ELSE u,
                               i, NonRoot(t, a.db[i].lits) \ {t.trail[k].lit}, a.conflict, q)
        BY <4>2, <4>3, <3>1, <3>2, <3>3, StrengthensFacts, SMTT(40)
      <4> QED
        BY <4>1, <4>3, Zenon
    <3> QED
      BY <3>2, <3>4 DEF s
  <2>7. otfs \in BOOLEAN
        /\ (otfs => \E l \in r : LevelOf(t, l) = Level(t)
                      /\ \A x \in r : LevelOf(t, x) = Level(t) => x = l)
    <3> SUFFICES ASSUME otfs
                 PROVE  \E l \in r : LevelOf(t, l) = Level(t)
                          /\ \A x \in r : LevelOf(t, x) = Level(t) => x = l
      OBVIOUS
    <3>1. \A l \in r : Pos(t, l) < k
      <4>1. \A l \in r : Pos(t, l) <= k - 1 /\ Pos(t, l) \in Nat
        BY <2>4, FalseTypes DEF Shortened, Loose
      <4>2. \A x \in Nat : x <= k - 1 => x < k
        BY DEF Positions
      <4> QED
        BY <4>1, <4>2
    <3>2. IsFiniteSet(Open(r))
      <4>1. r \subseteq LitsOf(n)
        BY <2>4, FalseTypes DEF Shortened, Loose
      <4> QED
        BY <4>1, LitsFinite
    <3> DEFINE O == Open(r)
    <3>3. \E l : O = {l}
      <4>1. IsFiniteSet(O) /\ Cardinality(O) = 1
        BY <3>2
      <4> HIDE DEF O
      <4> QED
        BY <4>1, FS_Singleton
    <3>4. PICK l : O = {l}
      BY <3>3
    <3>5. l \in r /\ LevelOf(t, l) = Level(t)
      <4>1. l \in O
        BY <3>4
      <4> QED
        BY <4>1
    <3>6. ASSUME NEW x \in r, LevelOf(t, x) = Level(t) PROVE x = l
      <4>1. x \in O
        BY <3>1, <3>6
      <4> HIDE DEF O
      <4> QED
        BY <4>1, <3>4
    <3> QED
      BY <3>5, <3>6
  <2> HIDE DEF otfs
  <2>8. AnalysisInv(n, t, db, StartAnalysis(s, i, r, otfs), k - 1)
    <3>1. subsumes \in BOOLEAN
      OBVIOUS
    <3>2. a.uip = 0 /\ e.level = Level(t)
      BY <1>5
    <3>3. subsumes => a.first /\ Cardinality(r) < a.size
      OBVIOUS
    <3> HIDE DEF subsumes
    <3> QED
      BY <2>4, <2>6, <2>7, <3>1, <3>2, <3>3, AnalysisStrengthens
  <2> QED
    BY <2>1, <2>8 DEF next
<1> QED
  BY <1>2, <1>3, <1>4, <1>5

\* The conflict that is analyzed: falsified, with a literal of the current level.
Falsifies(n, db, t, conflict) ==
  /\ conflict \in DOMAIN db /\ FalseLits(n, t, db[conflict].lits)
  /\ \E l \in db[conflict].lits : LevelOf(t, l) = Level(t)

\* The literals, the units and the clauses after an analysis.
Analyzed(n, t, db, a) ==
  /\ IsAnalysis(a) /\ a.conflict \in DOMAIN db /\ Refined(n, t, db, a.db)
  /\ \A j \in Positions(t) : t.trail[j].level < Level(t) =>
       Reasoned(a.db, t, j) /\ Protected(a.db, t, j)
  /\ Loose(n, t, a.seen) /\ a.otfs \in BOOLEAN
  /\ IF a.otfs THEN FoundStrengthened(t, a) ELSE FoundUip(t, db, a)

\* The analysis of a conflict below the root level finds a unique implication
\* point or a strengthened clause that is unit below the current level.
LEMMA FirstUipFacts ==
  ASSUME NEW n \in Nat, NEW chrono, NEW db, NEW t, Founded(chrono, n, db, t), Level(t) > 0,
         NEW conflict, Falsifies(n, db, t, conflict), NEW o
  PROVE  Analyzed(n, t, db, FirstUip(o, db, t, conflict))
<1> DEFINE N == Len(t.trail)
           lits == NonRoot(t, db[conflict].lits)
           start == StartAnalysis(db, conflict, lits, FALSE)
           Step(a, m) == AnalyzePosition(o, t, a, N + 1 - m)
<1>1. /\ Shape(t) /\ Over(n, t) /\ Graph(db, t) /\ IsDatabase(n, db) /\ N \in Nat
      /\ Level(t) \in Nat
  BY TrailTypes DEF Founded, Shape
<1>2. AnalysisInv(n, t, db, start, N)
  <2>1. /\ start.db = db /\ start.conflict = conflict /\ start.seen = lits /\ start.uip = 0
        /\ start.otfs = FALSE /\ start.first = TRUE /\ start.size = Cardinality(lits)
        /\ IsAnalysis(start)
    BY DEF StartAnalysis, IsAnalysis
  <2> HIDE DEF start
  <2>2. Refined(n, t, db, db)
    BY <1>1 DEF Refined
  <2>3. GraphBelow(db, t, N)
    BY <1>1 DEF GraphBelow, Graph
  <2>4. Loose(n, t, lits) /\ FalseLits(n, t, lits) /\ lits \subseteq db[conflict].lits
    BY DEF Falsifies, Loose, FalseLits, NonRoot
  <2>5. \A l \in lits : Pos(t, l) <= N
    <3>1. \A l \in lits : Pos(t, l) \in Positions(t)
      BY <1>1, <2>4, FalseTypes
    <3> QED
      BY <3>1 DEF Positions
  <2>6. \E l \in lits : LevelOf(t, l) = Level(t)
    BY <1>1 DEF Falsifies, NonRoot
  <2>7. Resolvent(t, lits, N) = lits
    BY <2>5 DEF Resolvent
  <2>8. Follows(t, db, lits)
    <3> SUFFICES ASSUME NEW T, RootHolds(T, t), AllHold(T, db) PROVE \E l \in lits : SatLit(T, l)
      BY DEF Follows, SatClause
    <3>1. PICK l \in db[conflict].lits : SatLit(T, l)
      BY DEF AllHold, SatClause, Falsifies
    <3>2. FalseLit(n, t, l)
      BY DEF Falsifies, FalseLits
    <3>3. LevelOf(t, l) # 0
      <4>1. l \in LitsOf(n) /\ Val(t, l) = -1
        BY <3>2 DEF FalseLit
      <4> QED
        BY <4>1, <3>1, <1>1, RootValue
    <3>4. LevelOf(t, l) \in Nat
      BY <3>2, <1>1, FalseFacts
    <3> QED
      BY <3>1, <3>3, <3>4 DEF NonRoot
  <2>9. \A l \in db[conflict].lits : Val(t, l) = -1
    BY DEF Falsifies, FalseLits, FalseLit
  <2> HIDE DEF lits
  <2>10. Analyzing(t, db, start, N)
    <3>1. lits = NonRoot(t, db[conflict].lits)
      BY DEF lits
    <3> QED
      BY <2>1, <2>5, <2>6, <2>7, <2>8, <2>9, <3>1 DEF Analyzing
  <2> QED
    BY <2>1, <2>2, <2>3, <2>4, <2>10 DEF AnalysisInv, Falsifies
<1> HIDE DEF start
<1> DEFINE Next(a, m) == ByValue(LAMBDA x : AnalyzePosition(o, t, x, N + 1 - m), a)
           Def(f, m) == f = [k \in 0..m |-> IF k = 0 THEN start ELSE Next(f[k - 1], k)]
           S == {m \in Nat : \E f : Def(f, m)}
<1>3. \A a, m : Next(a, m) = Step(a, m)
  BY DEF ByValue
<1> HIDE DEF Next, Step
<1>4. 0 \in S
  <2>1. Def([k \in 0..0 |-> start], 0)
    OBVIOUS
  <2> QED
    BY <2>1
<1>5. ASSUME NEW m \in Nat, m \in S PROVE m + 1 \in S
  <2>1. PICK f : Def(f, m)
    BY <1>5
  <2> DEFINE g == [k \in 0..m + 1 |-> IF k = m + 1 THEN Next(f[m], m + 1) ELSE f[k]]
  <2>2. \A k \in 0..m + 1 : g[k] = IF k = 0 THEN start ELSE Next(g[k - 1], k)
    <3> SUFFICES ASSUME NEW k \in 0..m + 1
                 PROVE  g[k] = IF k = 0 THEN start ELSE Next(g[k - 1], k)
      OBVIOUS
    <3>1. CASE k = m + 1
      <4>1. g[k] = Next(f[m], m + 1) /\ k # 0
        BY <3>1
      <4>2. k - 1 = m /\ m \in 0..m + 1 /\ m # m + 1
        BY <3>1
      <4>3. g[k - 1] = f[m]
        BY <4>2
      <4> HIDE DEF g
      <4> QED
        BY <3>1, <4>1, <4>3
    <3>2. CASE k # m + 1
      <4>1. k \in 0..m /\ g[k] = f[k]
        BY <3>2
      <4>2. k # 0 => k - 1 \in 0..m + 1 /\ k - 1 # m + 1 /\ g[k - 1] = f[k - 1]
        BY <3>2
      <4>3. f[k] = IF k = 0 THEN start ELSE Next(f[k - 1], k)
        BY <2>1, <4>1
      <4> HIDE DEF g, Def
      <4> QED
        BY <4>1, <4>2, <4>3
    <3> QED
      BY <3>1, <3>2
  <2>3. Def(g, m + 1)
    <3>1. g = [k \in 0..m + 1 |-> g[k]]
      OBVIOUS
    <3> HIDE DEF g
    <3> QED
      BY <2>2, <3>1
  <2> HIDE DEF g, Def
  <2> QED
    BY <2>3
<1>6. N \in S
  <2> HIDE DEF S
  <2> QED
    BY <1>1, <1>4, <1>5, NatSetInduction
<1> DEFINE after[k \in 0..N] == IF k = 0 THEN start ELSE Next(after[k - 1], k)
<1>7. Def(after, N)
  <2>1. after = CHOOSE f : Def(f, N)
    OBVIOUS
  <2>2. \E f : Def(f, N)
    BY <1>6
  <2> HIDE DEF after, Def
  <2> QED
    BY <2>1, <2>2
<1>8. FirstUip(o, db, t, conflict) = after[N]
  BY DEF FirstUip, start, Next
<1> HIDE DEF after
<1>9. after[0] = start /\ \A m \in 1..N : after[m] = Step(after[m - 1], m)
  <2>1. 0 \in 0..N /\ \A m \in 1..N : m \in 0..N /\ m # 0
    BY <1>1
  <2> QED
    BY <2>1, <1>3, <1>7
<1> HIDE DEF Def
<1> DEFINE G == {m \in Nat : m <= N => AnalysisInv(n, t, db, after[m], N - m)}
<1>10. 0 \in G
  BY <1>1, <1>2, <1>9
<1>11. ASSUME NEW m \in Nat, m \in G PROVE m + 1 \in G
  <2> SUFFICES ASSUME m + 1 <= N PROVE AnalysisInv(n, t, db, after[m + 1], N - (m + 1))
    OBVIOUS
  <2>1. AnalysisInv(n, t, db, after[m], N - m)
    BY <1>1, <1>11
  <2>2. N - m \in Positions(t) /\ N + 1 - (m + 1) = N - m /\ N - (m + 1) = (N - m) - 1
        /\ m + 1 \in 1..N /\ (m + 1) - 1 = m
    <3>1. \A x, y \in Nat : y + 1 <= x =>
            /\ x - y \in 1..x /\ x + 1 - (y + 1) = x - y /\ x - (y + 1) = (x - y) - 1
            /\ y + 1 \in 1..x /\ (y + 1) - 1 = y
      OBVIOUS
    <3> HIDE DEF N
    <3>2. Positions(t) = 1..N
      BY DEF Positions, N
    <3> QED
      BY <1>1, <3>1, <3>2
  <2> HIDE DEF N
  <2>3. after[m + 1] = AnalyzePosition(o, t, after[m], N - m)
    BY <2>2, <1>9 DEF Step
  <2>4. AnalysisInv(n, t, db, AnalyzePosition(o, t, after[m], N - m), (N - m) - 1)
    BY <2>1, <2>2, <1>1, AnalysisStep
  <2> QED
    BY <2>2, <2>3, <2>4
<1>12. AnalysisInv(n, t, db, after[N], 0)
  <2>1. N \in G
    <3> HIDE DEF G
    <3> QED
      BY <1>1, <1>10, <1>11, NatSetInduction
  <2>2. N <= N /\ N - N = 0
    BY <1>1
  <2> QED
    BY <2>1, <2>2
<1> DEFINE a == after[N]
<1> HIDE DEF a
<1>13. AnalysisInv(n, t, db, a, 0)
  BY <1>12 DEF a
<1>14. ~Analyzing(t, db, a, 0)
  <2> SUFFICES ASSUME NEW l \in a.seen, Pos(t, l) <= 0 PROVE FALSE
    BY DEF Analyzing
  <2>1. Pos(t, l) \in Positions(t)
    BY <1>1, <1>13, FalseTypes DEF AnalysisInv, Loose
  <2> QED
    BY <2>1 DEF Positions
<1>15. \A j \in Positions(t) : t.trail[j].level < Level(t) =>
         Reasoned(a.db, t, j) /\ Protected(a.db, t, j)
  BY <1>13 DEF AnalysisInv, GraphBelow
<1>16. Analyzed(n, t, db, a)
  BY <1>13, <1>14, <1>15 DEF AnalysisInv, Analyzed
<1> QED
  BY <1>8, <1>16 DEF a
-----------------------------------------------------------------------------
(* Minimization. *)

\* The models the analysis is about.
Good(T, t, d) == RootHolds(T, t) /\ AllHold(T, d)

\* T makes every literal false.
Refutes(T, lits) == \A l \in lits : ~SatLit(T, l)

\* Position k is implied by lower ones that are implied, a unit or kept.
ImpliedAt(d, t, keep, below, k) ==
  LET e == t.trail[k] IN
  \/ e.level = 0
  \/ -e.lit \in keep
  \/ /\ e.reason # NoReason /\ e.level < Level(t)
     /\ \A l \in d[e.reason].lits \ {e.lit} : Pos(t, l) \in below

\* The recursive function of Removable.
LEMMA RemovableUnfolds ==
  ASSUME NEW d, NEW t \in Trails, NEW seen, NEW keep
  PROVE  \E f :
           /\ f[0] = {} /\ Removable(d, t, seen, keep) = f[Len(t.trail)]
           /\ \A k \in Positions(t) :
                \/ f[k] = f[k - 1]
                \/ f[k] = f[k - 1] \cup {k} /\ ImpliedAt(d, t, keep, f[k - 1], k)
<1> DEFINE N == Len(t.trail)
           Entails(below, k) ==
             LET e == t.trail[k] IN
             \/ e.level = 0
             \/ -e.lit \in keep
             \/ /\ e.reason # NoReason
                /\ e.level < Level(t)
                /\ k > SeenTrail(t, seen, e.level)
                /\ \A l \in d[e.reason].lits \ {e.lit} : Pos(t, l) \in below
           start == {}
           Next(x, k) ==
             ByValue(LAMBDA below : IF Entails(below, k) THEN below \cup {k} ELSE below, x)
           Def(f, m) == f = [k \in 0..m |-> IF k = 0 THEN start ELSE Next(f[k - 1], k)]
           S == {m \in Nat : \E f : Def(f, m)}
<1>1. N \in Nat
  BY TrailTypes
<1>2. \A x, k : Next(x, k) = IF Entails(x, k) THEN x \cup {k} ELSE x
  BY DEF ByValue
<1>3. \A x, k : Entails(x, k) => ImpliedAt(d, t, keep, x, k)
  BY DEF ImpliedAt
<1> HIDE DEF Next, Entails, start
<1>4. 0 \in S
  <2>1. Def([k \in 0..0 |-> start], 0)
    OBVIOUS
  <2> QED
    BY <2>1
<1>5. ASSUME NEW m \in Nat, m \in S PROVE m + 1 \in S
  <2>1. PICK f : Def(f, m)
    BY <1>5
  <2> DEFINE g == [k \in 0..m + 1 |-> IF k = m + 1 THEN Next(f[m], m + 1) ELSE f[k]]
  <2>2. \A k \in 0..m + 1 : g[k] = IF k = 0 THEN start ELSE Next(g[k - 1], k)
    <3> SUFFICES ASSUME NEW k \in 0..m + 1
                 PROVE  g[k] = IF k = 0 THEN start ELSE Next(g[k - 1], k)
      OBVIOUS
    <3>1. CASE k = m + 1
      <4>1. g[k] = Next(f[m], m + 1) /\ k # 0
        BY <3>1
      <4>2. k - 1 = m /\ m \in 0..m + 1 /\ m # m + 1
        BY <3>1
      <4>3. g[k - 1] = f[m]
        BY <4>2
      <4> HIDE DEF g
      <4> QED
        BY <3>1, <4>1, <4>3
    <3>2. CASE k # m + 1
      <4>1. k \in 0..m /\ g[k] = f[k]
        BY <3>2
      <4>2. k # 0 => k - 1 \in 0..m + 1 /\ k - 1 # m + 1 /\ g[k - 1] = f[k - 1]
        BY <3>2
      <4>3. f[k] = IF k = 0 THEN start ELSE Next(f[k - 1], k)
        BY <2>1, <4>1
      <4> HIDE DEF g, Def
      <4> QED
        BY <4>1, <4>2, <4>3
    <3> QED
      BY <3>1, <3>2
  <2>3. Def(g, m + 1)
    <3>1. g = [k \in 0..m + 1 |-> g[k]]
      OBVIOUS
    <3> HIDE DEF g
    <3> QED
      BY <2>2, <3>1
  <2> HIDE DEF g, Def
  <2> QED
    BY <2>3
<1>6. N \in S
  <2> HIDE DEF S
  <2> QED
    BY <1>1, <1>4, <1>5, NatSetInduction
<1> DEFINE upTo[k \in 0..N] == IF k = 0 THEN start ELSE Next(upTo[k - 1], k)
<1>7. Def(upTo, N)
  <2>1. upTo = CHOOSE f : Def(f, N)
    OBVIOUS
  <2>2. \E f : Def(f, N)
    BY <1>6
  <2> HIDE DEF upTo, Def
  <2> QED
    BY <2>1, <2>2
<1>8. Removable(d, t, seen, keep) = upTo[N]
  BY DEF Removable, Next, Entails, start
<1> HIDE DEF upTo
<1>9. upTo[0] = start /\ \A k \in 1..N : upTo[k] = Next(upTo[k - 1], k)
  <2>1. 0 \in 0..N /\ \A k \in 1..N : k \in 0..N /\ k # 0
    BY <1>1
  <2> QED
    BY <2>1, <1>7
<1>10. \A k \in 1..N : \/ upTo[k] = upTo[k - 1]
                       \/ upTo[k] = upTo[k - 1] \cup {k}
                          /\ ImpliedAt(d, t, keep, upTo[k - 1], k)
  BY <1>2, <1>3, <1>9
<1>11. Positions(t) = 1..N
  BY DEF Positions
<1> QED
  BY <1>8, <1>9, <1>10, <1>11 DEF start

\* What is known of the removable positions: their literals follow from the
\* clauses when the kept ones are false, and on the current level only the
\* kept ones are removable.
Implies(t, d, keep, S) ==
  /\ S \subseteq Positions(t)
  /\ \A k \in S : t.trail[k].level = Level(t) /\ Level(t) > 0 => -t.trail[k].lit \in keep
  /\ \A T : Good(T, t, d) /\ Refutes(T, keep) => \A k \in S : SatLit(T, t.trail[k].lit)

\* One position more.
LEMMA ImpliesStep ==
  ASSUME NEW n \in Nat, NEW d, IsDatabase(n, d), NEW t, Shape(t), Over(n, t),
         GraphBelow(d, t, 0), NEW keep, NEW below, Implies(t, d, keep, below),
         NEW k \in Positions(t), ImpliedAt(d, t, keep, below, k)
  PROVE  Implies(t, d, keep, below \cup {k})
<1>1. /\ -t.trail[k].lit \in LitsOf(n) /\ t.trail[k].lit \in LitsOf(n)
      /\ -(-t.trail[k].lit) = t.trail[k].lit
  BY NegationAt
<1>2. t.trail[k].level = Level(t) /\ Level(t) > 0 => -t.trail[k].lit \in keep
  <2>1. Level(t) \in Nat /\ t.trail[k].level \in Nat
    BY TrailTypes DEF Shape
  <2> QED
    BY <2>1 DEF ImpliedAt
<1>3. ASSUME NEW T, Good(T, t, d), Refutes(T, keep) PROVE SatLit(T, t.trail[k].lit)
  <2>1. CASE t.trail[k].level = 0
    BY <2>1, <1>3 DEF Good, RootHolds
  <2>2. CASE -t.trail[k].lit \in keep
    BY <2>2, <1>1, <1>3, SatNegation DEF Refutes
  <2>3. CASE /\ t.trail[k].reason # NoReason /\ t.trail[k].level < Level(t)
             /\ \A l \in d[t.trail[k].reason].lits \ {t.trail[k].lit} : Pos(t, l) \in below
    <3> DEFINE i == t.trail[k].reason
    <3>1. i \in DOMAIN d /\ \A l \in d[i].lits \ {t.trail[k].lit} : Val(t, l) = -1
      BY <2>3 DEF GraphBelow, Reasoned
    <3>2. PICK l \in d[i].lits : SatLit(T, l)
      BY <3>1, <1>3 DEF Good, AllHold, SatClause
    <3>3. CASE l = t.trail[k].lit
      BY <3>2, <3>3
    <3>4. CASE l # t.trail[k].lit
      <4>1. FalseLit(n, t, l)
        BY <3>1, <3>2, <3>4, ClauseLits DEF FalseLit
      <4>2. SatLit(T, t.trail[Pos(t, l)].lit)
        BY <3>2, <3>4, <2>3, <1>3 DEF Implies
      <4>3. t.trail[Pos(t, l)].lit = -l
        BY <4>1, FalseEntry
      <4>4. l \in LitsOf(n)
        BY <4>1 DEF FalseLit
      <4>5. SatLit(T, -l)
        BY <4>2, <4>3, Zenon
      <4> QED
        BY <3>2, <4>4, <4>5, SatNegation
    <3> QED
      BY <3>3, <3>4
  <2> QED
    BY <2>1, <2>2, <2>3 DEF ImpliedAt
<1> QED
  BY <1>2, <1>3 DEF Implies

\* The removable positions.
LEMMA RemovableFacts ==
  ASSUME NEW n \in Nat, NEW d, IsDatabase(n, d), NEW t, Shape(t), Over(n, t),
         GraphBelow(d, t, 0), NEW seen, NEW keep
  PROVE  Implies(t, d, keep, Removable(d, t, seen, keep))
<1>1. t \in Trails /\ Len(t.trail) \in Nat /\ Positions(t) = 1..Len(t.trail)
  BY TrailTypes DEF Shape, Positions
<1>2. PICK f :
           /\ f[0] = {} /\ Removable(d, t, seen, keep) = f[Len(t.trail)]
           /\ \A k \in Positions(t) :
                \/ f[k] = f[k - 1]
                \/ f[k] = f[k - 1] \cup {k} /\ ImpliedAt(d, t, keep, f[k - 1], k)
  BY <1>1, RemovableUnfolds
<1> DEFINE S == {m \in Nat : m <= Len(t.trail) => Implies(t, d, keep, f[m])}
<1>3. 0 \in S
  BY <1>2 DEF Implies
<1>4. ASSUME NEW m \in Nat, m \in S PROVE m + 1 \in S
  <2> SUFFICES ASSUME m + 1 <= Len(t.trail) PROVE Implies(t, d, keep, f[m + 1])
    OBVIOUS
  <2>1. m + 1 \in Positions(t) /\ (m + 1) - 1 = m /\ m <= Len(t.trail)
    BY <1>1
  <2>2. Implies(t, d, keep, f[m])
    BY <2>1, <1>4
  <2>3. \/ f[m + 1] = f[m]
        \/ f[m + 1] = f[m] \cup {m + 1} /\ ImpliedAt(d, t, keep, f[m], m + 1)
    BY <2>1, <1>2
  <2> QED
    BY <2>1, <2>2, <2>3, ImpliesStep
<1>5. Len(t.trail) \in S
  <2> HIDE DEF S
  <2> QED
    BY <1>1, <1>3, <1>4, NatSetInduction
<1> QED
  BY <1>1, <1>2, <1>5

\* Minimization looked at position k, and the kept literals kept became new.
Tried(d, t, seen, lits, kept, new, k) ==
  LET l == -t.trail[k].lit IN
  \/ l \in lits /\ new = kept \cup {l}
  \/ new = kept /\ (l \notin lits \/ Pos(t, l) \in Removable(d, t, seen, kept))

\* The recursive function of MinimizeBlock.
LEMMA MinimizeUnfolds ==
  ASSUME NEW d, NEW t \in Trails, NEW seen, NEW keep, NEW lits
  PROVE  \E f :
           /\ f[0] = keep /\ MinimizeBlock(d, t, seen, keep, lits) = f[Len(t.trail)]
           /\ \A k \in Positions(t) : Tried(d, t, seen, lits, f[k - 1], f[k], k)
<1> DEFINE N == Len(t.trail)
           Attempt(kept, l) ==
             IF l \notin lits \/ Redundant(d, t, seen, kept, l) THEN kept ELSE kept \cup {l}
           start == keep
           Next(x, k) == ByValue(LAMBDA kept : Attempt(kept, -t.trail[k].lit), x)
           Def(f, m) == f = [k \in 0..m |-> IF k = 0 THEN start ELSE Next(f[k - 1], k)]
           S == {m \in Nat : \E f : Def(f, m)}
<1>1. N \in Nat
  BY TrailTypes
<1>2. \A x, k : Next(x, k) = Attempt(x, -t.trail[k].lit)
  BY DEF ByValue
<1>3. \A x, k : Tried(d, t, seen, lits, x, Attempt(x, -t.trail[k].lit), k)
  BY DEF Redundant, Tried
<1> HIDE DEF Next, Attempt, start
<1>4. 0 \in S
  <2>1. Def([k \in 0..0 |-> start], 0)
    OBVIOUS
  <2> QED
    BY <2>1
<1>5. ASSUME NEW m \in Nat, m \in S PROVE m + 1 \in S
  <2>1. PICK f : Def(f, m)
    BY <1>5
  <2> DEFINE g == [k \in 0..m + 1 |-> IF k = m + 1 THEN Next(f[m], m + 1) ELSE f[k]]
  <2>2. \A k \in 0..m + 1 : g[k] = IF k = 0 THEN start ELSE Next(g[k - 1], k)
    <3> SUFFICES ASSUME NEW k \in 0..m + 1
                 PROVE  g[k] = IF k = 0 THEN start ELSE Next(g[k - 1], k)
      OBVIOUS
    <3>1. CASE k = m + 1
      <4>1. g[k] = Next(f[m], m + 1) /\ k # 0
        BY <3>1
      <4>2. k - 1 = m /\ m \in 0..m + 1 /\ m # m + 1
        BY <3>1
      <4>3. g[k - 1] = f[m]
        BY <4>2
      <4> HIDE DEF g
      <4> QED
        BY <3>1, <4>1, <4>3
    <3>2. CASE k # m + 1
      <4>1. k \in 0..m /\ g[k] = f[k]
        BY <3>2
      <4>2. k # 0 => k - 1 \in 0..m + 1 /\ k - 1 # m + 1 /\ g[k - 1] = f[k - 1]
        BY <3>2
      <4>3. f[k] = IF k = 0 THEN start ELSE Next(f[k - 1], k)
        BY <2>1, <4>1
      <4> HIDE DEF g, Def
      <4> QED
        BY <4>1, <4>2, <4>3
    <3> QED
      BY <3>1, <3>2
  <2>3. Def(g, m + 1)
    <3>1. g = [k \in 0..m + 1 |-> g[k]]
      OBVIOUS
    <3> HIDE DEF g
    <3> QED
      BY <2>2, <3>1
  <2> HIDE DEF g, Def
  <2> QED
    BY <2>3
<1>6. N \in S
  <2> HIDE DEF S
  <2> QED
    BY <1>1, <1>4, <1>5, NatSetInduction
<1> DEFINE upTo[k \in 0..N] == IF k = 0 THEN start ELSE Next(upTo[k - 1], k)
<1>7. Def(upTo, N)
  <2>1. upTo = CHOOSE f : Def(f, N)
    OBVIOUS
  <2>2. \E f : Def(f, N)
    BY <1>6
  <2> HIDE DEF upTo, Def
  <2> QED
    BY <2>1, <2>2
<1>8. MinimizeBlock(d, t, seen, keep, lits) = upTo[N]
  BY DEF MinimizeBlock, Next, Attempt, start
<1> HIDE DEF upTo
<1>9. upTo[0] = start /\ \A k \in 1..N : upTo[k] = Next(upTo[k - 1], k)
  <2>1. 0 \in 0..N /\ \A k \in 1..N : k \in 0..N /\ k # 0
    BY <1>1
  <2> QED
    BY <2>1, <1>7
<1>10. \A k \in 1..N : Tried(d, t, seen, lits, upTo[k - 1], upTo[k], k)
  <2> SUFFICES ASSUME NEW k \in 1..N PROVE Tried(d, t, seen, lits, upTo[k - 1], upTo[k], k)
    OBVIOUS
  <2>1. upTo[k] = Attempt(upTo[k - 1], -t.trail[k].lit)
    BY <1>2, <1>9
  <2> QED
    BY <2>1, <1>3
<1>11. Positions(t) = 1..N
  BY DEF Positions
<1> QED
  BY <1>8, <1>9, <1>10, <1>11 DEF start

\* M keeps enough of the literals lits for the others to be implied, and all
\* of the current level.
Minimized(t, d, keep, lits, M) ==
  /\ keep \subseteq M /\ M \subseteq keep \cup lits
  /\ \A T : Good(T, t, d) /\ Refutes(T, M) => Refutes(T, lits)
  /\ Level(t) > 0 => \A l \in lits : LevelOf(t, l) = Level(t) => l \in M

\* One literal that is tried.
LEMMA MinimizeStep ==
  ASSUME NEW n \in Nat, NEW d, IsDatabase(n, d), NEW t, Shape(t), Over(n, t),
         GraphBelow(d, t, 0), NEW seen, NEW keep, NEW lits, NEW M, Minimized(t, d, keep, lits, M),
         NEW k \in Positions(t), NEW l, l = -t.trail[k].lit,
         NEW all, NEW new, Tried(d, t, seen, all, M, new, k),
         NEW more, more = IF l \in all THEN lits \cup {l} ELSE lits
  PROVE  Minimized(t, d, keep, more, new)
<1>1. CASE l \notin all
  BY <1>1 DEF Tried
<1>2. CASE l \in all /\ new = M \cup {l}
  <2>1. M \subseteq new /\ l \in new
    BY <1>2
  <2>2. ASSUME NEW T, Good(T, t, d), Refutes(T, new) PROVE Refutes(T, lits \cup {l})
    <3>1. Refutes(T, M) /\ ~SatLit(T, l)
      BY <2>1, <2>2 DEF Refutes
    <3>2. Refutes(T, lits)
      BY <3>1, <2>2 DEF Minimized
    <3> QED
      BY <3>1, <3>2 DEF Refutes
  <2>3. /\ keep \subseteq new /\ new \subseteq keep \cup (lits \cup {l})
        /\ Level(t) > 0 => \A x \in lits \cup {l} : LevelOf(t, x) = Level(t) => x \in new
    BY <1>2 DEF Minimized
  <2> QED
    BY <1>2, <2>2, <2>3 DEF Minimized
<1>3. CASE l \in all /\ new = M /\ Pos(t, l) \in Removable(d, t, seen, M)
  <2>1. Implies(t, d, M, Removable(d, t, seen, M))
    BY RemovableFacts
  <2>2. /\ l \in LitsOf(n) /\ Pos(t, l) = k /\ LevelOf(t, l) = t.trail[k].level
        /\ t.trail[k].lit = -l
    BY NegationAt
  <2>3. k \in Removable(d, t, seen, M)
    BY <1>3, <2>2
  <2>4. ASSUME NEW T, Good(T, t, d), Refutes(T, M) PROVE Refutes(T, lits \cup {l})
    <3>1. Refutes(T, lits)
      BY <2>4 DEF Minimized
    <3>2. SatLit(T, t.trail[k].lit)
      BY <2>1, <2>3, <2>4 DEF Implies
    <3>3. SatLit(T, -l)
      BY <3>2, <2>2, Zenon
    <3>4. ~SatLit(T, l)
      BY <3>3, <2>2, SatNegation
    <3> QED
      BY <3>1, <3>4 DEF Refutes
  <2>5. Level(t) > 0 => \A x \in lits \cup {l} : LevelOf(t, x) = Level(t) => x \in M
    BY <2>1, <2>2, <2>3 DEF Minimized, Implies
  <2>6. keep \subseteq M /\ M \subseteq keep \cup (lits \cup {l})
    BY DEF Minimized
  <2> QED
    BY <1>3, <2>4, <2>5, <2>6 DEF Minimized
<1> QED
  BY <1>1, <1>2, <1>3 DEF Tried

\* Minimization.
LEMMA MinimizeFacts ==
  ASSUME NEW n \in Nat, NEW d, IsDatabase(n, d), NEW t, Shape(t), Over(n, t),
         GraphBelow(d, t, 0), NEW seen, NEW keep \in SUBSET LitsOf(n),
         NEW lits, FalseLits(n, t, lits)
  PROVE  Minimized(t, d, keep, lits, MinimizeBlock(d, t, seen, keep, lits))
<1>1. t \in Trails /\ Len(t.trail) \in Nat /\ Positions(t) = 1..Len(t.trail)
  BY TrailTypes DEF Shape, Positions
<1>3. PICK f :
           /\ f[0] = keep /\ MinimizeBlock(d, t, seen, keep, lits) = f[Len(t.trail)]
           /\ \A k \in Positions(t) : Tried(d, t, seen, lits, f[k - 1], f[k], k)
  BY <1>1, MinimizeUnfolds
<1> DEFINE Upto(k) == {l \in lits : Pos(t, l) <= k}
           S == {m \in Nat : m <= Len(t.trail) => Minimized(t, d, keep, Upto(m), f[m])}
<1>4. \A l \in lits : l \in Int /\ Pos(t, l) \in Positions(t) /\ Pos(t, l) \in Nat
  BY FalseTypes
<1>5. 0 \in S
  <2>1. Upto(0) = {}
    BY <1>1, <1>4
  <2> QED
    BY <2>1, <1>3 DEF Minimized, Refutes
<1>6. ASSUME NEW m \in Nat, m \in S PROVE m + 1 \in S
  <2> SUFFICES ASSUME m + 1 <= Len(t.trail) PROVE Minimized(t, d, keep, Upto(m + 1), f[m + 1])
    OBVIOUS
  <2>1. m + 1 \in Positions(t) /\ (m + 1) - 1 = m /\ m <= Len(t.trail)
    BY <1>1
  <2>2. Minimized(t, d, keep, Upto(m), f[m])
    BY <2>1, <1>6
  <2> DEFINE k == m + 1
             l == -t.trail[k].lit
  <2>3. Tried(d, t, seen, lits, f[m], f[k], k)
    BY <2>1, <1>3
  <2>4. Minimized(t, d, keep, IF l \in lits THEN Upto(m) \cup {l} ELSE Upto(m), f[k])
    <3> HIDE DEF Upto, l, k
    <3>1. l = -t.trail[k].lit /\ k \in Positions(t)
      BY <2>1 DEF l, k
    <3> DEFINE more == IF l \in lits THEN Upto(m) \cup {l} ELSE Upto(m)
    <3>2. more = IF l \in lits THEN Upto(m) \cup {l} ELSE Upto(m)
      OBVIOUS
    <3> HIDE DEF more
    <3>3. Minimized(t, d, keep, more, f[k])
      BY <2>2, <2>3, <3>1, <3>2, MinimizeStep
    <3> QED
      BY <3>2, <3>3, Zenon
  <2>5. Upto(m + 1) = IF l \in lits THEN Upto(m) \cup {l} ELSE Upto(m)
    <3>1. Pos(t, l) = k
      BY <2>1, NegationAt
    <3>2. \A x \in lits : Pos(t, x) = k => x = l
      BY <2>1, SeenAt
    <3>3. \A x \in lits : Pos(t, x) <= k <=> Pos(t, x) <= m \/ Pos(t, x) = k
      BY <1>4
    <3> HIDE DEF k, l
    <3>4. k = m + 1
      BY DEF k
    <3>5. CASE l \in lits
      BY <3>1, <3>2, <3>3, <3>4, <3>5
    <3>6. CASE l \notin lits
      BY <3>1, <3>2, <3>3, <3>4, <3>6
    <3> QED
      BY <3>5, <3>6
  <2> QED
    BY <2>4, <2>5
<1>7. Len(t.trail) \in S
  <2> HIDE DEF S
  <2> QED
    BY <1>1, <1>5, <1>6, NatSetInduction
<1>8. Upto(Len(t.trail)) = lits
  BY <1>1, <1>4
<1>9. Minimized(t, d, keep, Upto(Len(t.trail)), f[Len(t.trail)])
  <2> HIDE DEF Upto
  <2> QED
    BY <1>1, <1>7
<1> HIDE DEF Upto
<1> QED
  BY <1>3, <1>8, <1>9
-----------------------------------------------------------------------------
(* Shrinking. *)

\* One position in the search for the first UIP of a block.
BlockStep(d, t, removable, lev, a, k) ==
  LET e == t.trail[k]
      r == d[e.reason].lits \ {e.lit} IN
  IF a.uip # 0 \/ a.failed \/ -e.lit \notin a.open THEN a
  ELSE IF a.open = {-e.lit} THEN [a EXCEPT !.uip = -e.lit]
  ELSE IF \E l \in r : LevelOf(t, l) < lev /\ Pos(t, l) \notin removable
  THEN [a EXCEPT !.failed = TRUE]
  ELSE [a EXCEPT !.open = (@ \ {-e.lit}) \cup {l \in r : LevelOf(t, l) >= lev}]

\* The start of the walk over a block.
BlockStart(lits) == [open |-> lits, uip |-> 0, failed |-> FALSE]

\* The recursive function of BlockUip.
LEMMA BlockUnfolds ==
  ASSUME NEW d, NEW t \in Trails, NEW removable, NEW lits, NEW lev
  PROVE  \E after :
           /\ after[0] = BlockStart(lits)
           /\ BlockUip(d, t, removable, lits, lev) = after[Len(t.trail)].uip
           /\ \A m \in 1..Len(t.trail) :
                after[m] = BlockStep(d, t, removable, lev, after[m - 1], Len(t.trail) + 1 - m)
<1> DEFINE N == Len(t.trail)
           start == BlockStart(lits)
           Next(a, m) ==
             ByValue(LAMBDA x : BlockStep(d, t, removable, lev, x, N + 1 - m), a)
           Def(f, m) == f = [k \in 0..m |-> IF k = 0 THEN start ELSE Next(f[k - 1], k)]
           S == {m \in Nat : \E f : Def(f, m)}
<1>1. N \in Nat
  BY TrailTypes
<1>3. \A a, m : Next(a, m) = BlockStep(d, t, removable, lev, a, N + 1 - m)
  BY DEF ByValue
<1> HIDE DEF Next, start
<1>4. 0 \in S
  <2>1. Def([k \in 0..0 |-> start], 0)
    OBVIOUS
  <2> QED
    BY <2>1
<1>5. ASSUME NEW m \in Nat, m \in S PROVE m + 1 \in S
  <2>1. PICK f : Def(f, m)
    BY <1>5
  <2> DEFINE g == [k \in 0..m + 1 |-> IF k = m + 1 THEN Next(f[m], m + 1) ELSE f[k]]
  <2>2. \A k \in 0..m + 1 : g[k] = IF k = 0 THEN start ELSE Next(g[k - 1], k)
    <3> SUFFICES ASSUME NEW k \in 0..m + 1
                 PROVE  g[k] = IF k = 0 THEN start ELSE Next(g[k - 1], k)
      OBVIOUS
    <3>1. CASE k = m + 1
      <4>1. g[k] = Next(f[m], m + 1) /\ k # 0
        BY <3>1
      <4>2. k - 1 = m /\ m \in 0..m + 1 /\ m # m + 1
        BY <3>1
      <4>3. g[k - 1] = f[m]
        BY <4>2
      <4> HIDE DEF g
      <4> QED
        BY <3>1, <4>1, <4>3
    <3>2. CASE k # m + 1
      <4>1. k \in 0..m /\ g[k] = f[k]
        BY <3>2
      <4>2. k # 0 => k - 1 \in 0..m + 1 /\ k - 1 # m + 1 /\ g[k - 1] = f[k - 1]
        BY <3>2
      <4>3. f[k] = IF k = 0 THEN start ELSE Next(f[k - 1], k)
        BY <2>1, <4>1
      <4> HIDE DEF g, Def
      <4> QED
        BY <4>1, <4>2, <4>3
    <3> QED
      BY <3>1, <3>2
  <2>3. Def(g, m + 1)
    <3>1. g = [k \in 0..m + 1 |-> g[k]]
      OBVIOUS
    <3> HIDE DEF g
    <3> QED
      BY <2>2, <3>1
  <2> HIDE DEF g, Def
  <2> QED
    BY <2>3
<1>6. N \in S
  <2> HIDE DEF S
  <2> QED
    BY <1>1, <1>4, <1>5, NatSetInduction
<1> DEFINE after[k \in 0..N] == IF k = 0 THEN start ELSE Next(after[k - 1], k)
<1>7. Def(after, N)
  <2>1. after = CHOOSE f : Def(f, N)
    OBVIOUS
  <2>2. \E f : Def(f, N)
    BY <1>6
  <2> HIDE DEF after, Def
  <2> QED
    BY <2>1, <2>2
<1>8. BlockUip(d, t, removable, lits, lev) = after[N].uip
  BY DEF BlockUip, start, BlockStart, Next, BlockStep
<1> HIDE DEF after
<1>9. after[0] = start /\ \A m \in 1..N : after[m] = Next(after[m - 1], m)
  <2>1. 0 \in 0..N /\ \A k \in 1..N : k \in 0..N /\ k # 0
    BY <1>1
  <2> QED
    BY <2>1, <1>7
<1> QED
  BY <1>3, <1>8, <1>9 DEF start

\* The literals X of level lev stand for the literals lits when the kept
\* ones are false.
StandFor(n, t, d, keep, lev, lits, X) ==
  /\ X # {} /\ FalseLits(n, t, X) /\ \A l \in X : LevelOf(t, l) = lev
  /\ \A T : Good(T, t, d) /\ Refutes(T, keep) /\ Refutes(T, X) => Refutes(T, lits)

\* One literal is resolved.
LEMMA StandForResolve ==
  ASSUME NEW n \in Nat, NEW d, IsDatabase(n, d), NEW t, Shape(t), Over(n, t),
         GraphBelow(d, t, 0), NEW keep, NEW S, Implies(t, d, keep, S),
         NEW lev \in Nat, lev > 0, lev < Level(t), NEW lits, NEW X,
         StandFor(n, t, d, keep, lev, lits, X), NEW k \in Positions(t),
         \A l \in X : Pos(t, l) <= k, -t.trail[k].lit \in X, X # {-t.trail[k].lit},
         NEW r, r = d[t.trail[k].reason].lits \ {t.trail[k].lit},
         \A l \in r : LevelOf(t, l) < lev => Pos(t, l) \in S,
         NEW Y, Y = (X \ {-t.trail[k].lit}) \cup {l \in r : LevelOf(t, l) >= lev}
  PROVE  StandFor(n, t, d, keep, lev, lits, Y) /\ \A l \in Y : Pos(t, l) <= k - 1
<1>1. /\ -t.trail[k].lit \in LitsOf(n) /\ Pos(t, -t.trail[k].lit) = k
      /\ LevelOf(t, -t.trail[k].lit) = t.trail[k].level
      /\ t.trail[k].lit = -(-t.trail[k].lit) /\ k \in Nat
  BY NegationAt DEF Positions
<1>2. t.trail[k].level = lev
  BY <1>1 DEF StandFor
<1>3. PICK m \in X : m # -t.trail[k].lit
  OBVIOUS
<1>4. \A l \in X : /\ l \in Int /\ l \in LitsOf(n) /\ Val(t, l) = -1
                   /\ Pos(t, l) \in Nat /\ Pos(t, l) \in Positions(t)
                   /\ LevelOf(t, l) = lev
  BY FalseTypes DEF StandFor
<1>5. \A l \in X \ {-t.trail[k].lit} : Pos(t, l) # k
  BY SeenAt DEF StandFor
<1>6. \A l \in X \ {-t.trail[k].lit} : Pos(t, l) < k
  BY <1>1, <1>4, <1>5
<1> DEFINE i == t.trail[k].reason
<1>7. i # NoReason
  <2>1. Val(t, m) # 0 /\ LevelOf(t, m) = t.trail[k].level /\ Pos(t, m) < k /\ m \in Int
    BY <1>2, <1>3, <1>4, <1>6
  <2>2. Level(t) > 0 /\ t.trail[k].level > 0
    BY <1>2, TrailTypes DEF Shape
  <2> QED
    BY <2>1, <2>2, LaterHasReason
<1>8. /\ i \in DOMAIN d
      /\ \A l \in r : Val(t, l) = -1 /\ Pos(t, l) < k /\ LevelOf(t, l) <= lev
  BY <1>2, <1>7 DEF GraphBelow, Reasoned
<1>9. \A l \in r : FalseLit(n, t, l)
  BY <1>8, ClauseLits DEF FalseLit
<1>10. \A l \in r : LevelOf(t, l) \in Nat /\ Pos(t, l) \in Nat
  BY <1>9, FalseFacts
<1>11. FalseLits(n, t, Y)
  BY <1>9 DEF FalseLits, StandFor
<1>12. \A l \in Y : LevelOf(t, l) = lev
  <2>1. \A x, y \in Nat : x <= y /\ x >= y => x = y
    OBVIOUS
  <2> QED
    BY <2>1, <1>4, <1>8, <1>10
<1>13. \A l \in Y : Pos(t, l) <= k - 1
  <2>1. \A x, y \in Nat : x < y => x <= y - 1
    OBVIOUS
  <2> QED
    BY <2>1, <1>1, <1>4, <1>6, <1>8, <1>10
<1>14. ASSUME NEW T, Good(T, t, d), Refutes(T, keep), Refutes(T, Y) PROVE Refutes(T, lits)
  <2>1. PICK l \in d[i].lits : SatLit(T, l)
    BY <1>8, <1>14 DEF Good, AllHold, SatClause
  <2>2. l = t.trail[k].lit
    <3> SUFFICES ASSUME l \in r PROVE FALSE
      OBVIOUS
    <3>1. LevelOf(t, l) < lev
      <4>1. \A x, y \in Nat : ~(x >= y) => x < y
        OBVIOUS
      <4>2. l \notin Y
        BY <2>1, <1>14 DEF Refutes
      <4> QED
        BY <4>1, <4>2, <1>10
    <3>2. SatLit(T, t.trail[Pos(t, l)].lit)
      BY <3>1, <1>14 DEF Implies
    <3>3. t.trail[Pos(t, l)].lit = -l
      BY <1>9, FalseEntry
    <3>4. l \in LitsOf(n)
      BY <1>9 DEF FalseLit
    <3>5. SatLit(T, -l)
      BY <3>2, <3>3, Zenon
    <3> QED
      BY <2>1, <3>4, <3>5, SatNegation
  <2>3. ~SatLit(T, -t.trail[k].lit)
    <3> DEFINE x == -t.trail[k].lit
    <3>1. SatLit(T, -x) /\ x \in LitsOf(n)
      <4>1. l = -x
        BY <2>2, <1>1
      <4> QED
        BY <4>1, <2>1, <1>1
    <3> HIDE DEF x
    <3>2. ~SatLit(T, x)
      BY <3>1, SatNegation
    <3> QED
      BY <3>2 DEF x
  <2>4. Refutes(T, X)
    BY <2>3, <1>14 DEF Refutes
  <2> QED
    BY <2>4, <1>14 DEF StandFor
<1>15. Y # {}
  BY <1>3
<1> QED
  BY <1>11, <1>12, <1>13, <1>14, <1>15 DEF StandFor

\* The search for the first UIP of a block has looked at the positions above k.
BlockInv(n, t, d, keep, lev, lits, a, k) ==
  /\ a = [open |-> a.open, uip |-> a.uip, failed |-> a.failed]
  /\ StandFor(n, t, d, keep, lev, lits, a.open)
  /\ a.uip = 0 /\ ~a.failed => \A l \in a.open : Pos(t, l) <= k
  /\ a.uip # 0 => a.open = {a.uip}

\* Changing fields of the state of that search.
LEMMA BlockFields ==
  ASSUME NEW a, a = [open |-> a.open, uip |-> a.uip, failed |-> a.failed], NEW x
  PROVE  /\ [a EXCEPT !.uip = x] = [open |-> a.open, uip |-> x, failed |-> a.failed]
         /\ [a EXCEPT !.failed = x] = [open |-> a.open, uip |-> a.uip, failed |-> x]
         /\ [a EXCEPT !.open = x] = [open |-> x, uip |-> a.uip, failed |-> a.failed]
OBVIOUS

\* One position.
LEMMA BlockInvStep ==
  ASSUME NEW n \in Nat, NEW d, IsDatabase(n, d), NEW t, Shape(t), Over(n, t),
         GraphBelow(d, t, 0), NEW keep, NEW S, Implies(t, d, keep, S),
         NEW lev \in Nat, lev > 0, lev < Level(t), NEW lits, NEW k \in Positions(t),
         NEW a, BlockInv(n, t, d, keep, lev, lits, a, k)
  PROVE  BlockInv(n, t, d, keep, lev, lits, BlockStep(d, t, S, lev, a, k), k - 1)
<1> DEFINE x == -t.trail[k].lit
           r == d[t.trail[k].reason].lits \ {t.trail[k].lit}
           Y == (a.open \ {x}) \cup {l \in r : LevelOf(t, l) >= lev}
<1>1. k \in Nat
  BY DEF Positions
<1>2. /\ [a EXCEPT !.uip = x] = [open |-> a.open, uip |-> x, failed |-> a.failed]
      /\ [a EXCEPT !.failed = TRUE] = [open |-> a.open, uip |-> a.uip, failed |-> TRUE]
      /\ [a EXCEPT !.open = (@ \ {x}) \cup {l \in r : LevelOf(t, l) >= lev}]
           = [open |-> Y, uip |-> a.uip, failed |-> a.failed]
  <2>1. a = [open |-> a.open, uip |-> a.uip, failed |-> a.failed]
    BY DEF BlockInv
  <2>2. [a EXCEPT !.open = (@ \ {x}) \cup {l \in r : LevelOf(t, l) >= lev}]
          = [a EXCEPT !.open = Y]
    OBVIOUS
  <2> HIDE DEF Y, x, r
  <2> QED
    BY <2>1, <2>2, BlockFields
<1>3. CASE a.uip # 0 \/ a.failed \/ x \notin a.open
  <2>1. BlockStep(d, t, S, lev, a, k) = a
    BY <1>3 DEF BlockStep
  <2>2. a.uip = 0 /\ ~a.failed => \A l \in a.open : Pos(t, l) <= k - 1
    <3> SUFFICES ASSUME a.uip = 0, ~a.failed, NEW l \in a.open PROVE Pos(t, l) <= k - 1
      OBVIOUS
    <3>1. Pos(t, l) \in Nat /\ Pos(t, l) <= k
      BY FalseTypes DEF BlockInv, StandFor
    <3>2. Pos(t, l) # k
      BY <1>3, SeenAt DEF BlockInv, StandFor
    <3> QED
      BY <1>1, <3>1, <3>2
  <2> QED
    BY <2>1, <2>2 DEF BlockInv
<1> SUFFICES ASSUME ~(a.uip # 0 \/ a.failed \/ x \notin a.open)
             PROVE  BlockInv(n, t, d, keep, lev, lits, BlockStep(d, t, S, lev, a, k), k - 1)
  BY <1>3
<1>4. x # 0
  <2>1. x \in LitsOf(n)
    BY NegationAt
  <2> QED
    BY <2>1, LitFacts
<1>5. CASE a.open = {x}
  <2>1. BlockStep(d, t, S, lev, a, k) = [open |-> a.open, uip |-> x, failed |-> a.failed]
    BY <1>2, <1>5 DEF BlockStep
  <2> HIDE DEF x
  <2> QED
    BY <2>1, <1>4, <1>5 DEF BlockInv
<1>6. CASE a.open # {x} /\ \E l \in r : LevelOf(t, l) < lev /\ Pos(t, l) \notin S
  <2>1. BlockStep(d, t, S, lev, a, k) = [open |-> a.open, uip |-> a.uip, failed |-> TRUE]
    BY <1>2, <1>6 DEF BlockStep
  <2> QED
    BY <2>1 DEF BlockInv
<1>7. CASE a.open # {x} /\ ~\E l \in r : LevelOf(t, l) < lev /\ Pos(t, l) \notin S
  <2>1. BlockStep(d, t, S, lev, a, k) = [open |-> Y, uip |-> a.uip, failed |-> a.failed]
    BY <1>2, <1>7 DEF BlockStep
  <2>2. StandFor(n, t, d, keep, lev, lits, Y) /\ \A l \in Y : Pos(t, l) <= k - 1
    <3>1. /\ \A l \in a.open : Pos(t, l) <= k
          /\ -t.trail[k].lit \in a.open /\ a.open # {-t.trail[k].lit}
          /\ StandFor(n, t, d, keep, lev, lits, a.open)
      BY <1>7 DEF BlockInv
    <3>2. /\ r = d[t.trail[k].reason].lits \ {t.trail[k].lit}
          /\ Y = (a.open \ {-t.trail[k].lit}) \cup {l \in r : LevelOf(t, l) >= lev}
          /\ \A l \in r : LevelOf(t, l) < lev => Pos(t, l) \in S
      BY <1>7
    <3> HIDE DEF x, r, Y
    <3> QED
      BY <3>1, <3>2, StandForResolve
  <2> HIDE DEF Y
  <2> QED
    BY <2>1, <2>2 DEF BlockInv
<1> QED
  BY <1>5, <1>6, <1>7

\* The first UIP of a block stands for the block.
LEMMA BlockUipFacts ==
  ASSUME NEW n \in Nat, NEW d, IsDatabase(n, d), NEW t, Shape(t), Over(n, t),
         GraphBelow(d, t, 0), NEW keep, NEW S, Implies(t, d, keep, S),
         NEW lev \in Nat, lev > 0, lev < Level(t),
         NEW lits, FalseLits(n, t, lits), lits # {}, \A l \in lits : LevelOf(t, l) = lev,
         BlockUip(d, t, S, lits, lev) # 0
  PROVE  StandFor(n, t, d, keep, lev, lits, {BlockUip(d, t, S, lits, lev)})
<1> DEFINE N == Len(t.trail)
<1>1. t \in Trails /\ N \in Nat /\ Positions(t) = 1..N
  BY TrailTypes DEF Shape, Positions
<1>2. PICK after :
           /\ after[0] = BlockStart(lits)
           /\ BlockUip(d, t, S, lits, lev) = after[Len(t.trail)].uip
           /\ \A m \in 1..Len(t.trail) :
                after[m] = BlockStep(d, t, S, lev, after[m - 1], Len(t.trail) + 1 - m)
  BY <1>1, BlockUnfolds
<1> DEFINE G == {m \in Nat : m <= N => BlockInv(n, t, d, keep, lev, lits, after[m], N - m)}
<1>3. 0 \in G
  <2>1. BlockStart(lits) = [open |-> lits, uip |-> 0, failed |-> FALSE]
    BY DEF BlockStart
  <2>2. StandFor(n, t, d, keep, lev, lits, lits)
    BY DEF StandFor
  <2>3. \A l \in lits : Pos(t, l) <= N
    <3>1. \A l \in lits : Pos(t, l) \in Positions(t)
      BY FalseTypes
    <3> QED
      BY <3>1, <1>1
  <2>4. N - 0 = N
    BY <1>1
  <2> HIDE DEF N
  <2> QED
    BY <2>1, <2>2, <2>3, <2>4, <1>2 DEF BlockInv
<1>4. ASSUME NEW m \in Nat, m \in G PROVE m + 1 \in G
  <2> SUFFICES ASSUME m + 1 <= N
               PROVE BlockInv(n, t, d, keep, lev, lits, after[m + 1], N - (m + 1))
    OBVIOUS
  <2>1. N - m \in Positions(t) /\ N + 1 - (m + 1) = N - m /\ N - (m + 1) = (N - m) - 1
        /\ m + 1 \in 1..N /\ (m + 1) - 1 = m /\ m <= N
    <3>1. \A x, y \in Nat : y + 1 <= x =>
            /\ x - y \in 1..x /\ x + 1 - (y + 1) = x - y /\ x - (y + 1) = (x - y) - 1
            /\ y + 1 \in 1..x /\ (y + 1) - 1 = y /\ y <= x
      OBVIOUS
    <3> HIDE DEF N
    <3> QED
      BY <1>1, <3>1
  <2>2. BlockInv(n, t, d, keep, lev, lits, after[m], N - m)
    BY <2>1, <1>4
  <2>3. after[m + 1] = BlockStep(d, t, S, lev, after[m], N - m)
    BY <2>1, <1>2
  <2> HIDE DEF N
  <2>4. BlockInv(n, t, d, keep, lev, lits, BlockStep(d, t, S, lev, after[m], N - m), (N - m) - 1)
    BY <2>1, <2>2, BlockInvStep
  <2> QED
    BY <2>1, <2>3, <2>4
<1>5. BlockInv(n, t, d, keep, lev, lits, after[N], N - N)
  <2>1. N \in G
    <3> HIDE DEF G
    <3> QED
      BY <1>1, <1>3, <1>4, NatSetInduction
  <2> QED
    BY <2>1, <1>1
<1> QED
  BY <1>2, <1>5 DEF BlockInv

\* A block is replaced.
ShrunkenBlock(o, d, t, a, lits, lev, uip) ==
  IF uip # 0
  THEN [keep |-> a.keep \cup {uip},
        seen |-> {l \in a.seen : LevelOf(t, l) # lev} \cup {uip}]
  ELSE [a EXCEPT !.keep =
         IF o.minimize THEN MinimizeBlock(d, t, a.seen, @, lits) ELSE @ \cup lits]

\* One level.
ShrinkBlock(o, d, t, clause, a, lev) ==
  LET lits == {l \in clause : LevelOf(t, l) = lev}
      removable == Removable(d, t, a.seen, a.keep) IN
  IF Cardinality(lits) < 2 THEN [a EXCEPT !.keep = @ \cup lits]
  ELSE ByValue(LAMBDA uip : ShrunkenBlock(o, d, t, a, lits, lev, uip),
               ByValue(LAMBDA r : BlockUip(d, t, r, lits, lev), removable))

\* The start of the walk over the blocks.
ShrinkStart(seen) == [keep |-> {}, seen |-> seen]

\* The recursive function of ShrinkAndMinimizeClause.
LEMMA ShrinkUnfolds ==
  ASSUME NEW o, NEW d, NEW t \in Trails, NEW seen, NEW clause
  PROVE  \E upTo :
           /\ upTo[0] = ShrinkStart(seen)
           /\ ShrinkAndMinimizeClause(o, d, t, seen, clause) = upTo[Level(t)].keep
           /\ \A m \in 1..Level(t) : upTo[m] = ShrinkBlock(o, d, t, clause, upTo[m - 1], m)
<1> DEFINE N == Level(t)
           start == ShrinkStart(seen)
           Next(a, m) == ByValue(LAMBDA x : ShrinkBlock(o, d, t, clause, x, m), a)
           Def(f, m) == f = [k \in 0..m |-> IF k = 0 THEN start ELSE Next(f[k - 1], k)]
           S == {m \in Nat : \E f : Def(f, m)}
<1>1. N \in Nat
  BY TrailTypes
<1>3. \A a, m : Next(a, m) = ShrinkBlock(o, d, t, clause, a, m)
  BY DEF ByValue
<1> HIDE DEF Next, start
<1>4. 0 \in S
  <2>1. Def([k \in 0..0 |-> start], 0)
    OBVIOUS
  <2> QED
    BY <2>1
<1>5. ASSUME NEW m \in Nat, m \in S PROVE m + 1 \in S
  <2>1. PICK f : Def(f, m)
    BY <1>5
  <2> DEFINE g == [k \in 0..m + 1 |-> IF k = m + 1 THEN Next(f[m], m + 1) ELSE f[k]]
  <2>2. \A k \in 0..m + 1 : g[k] = IF k = 0 THEN start ELSE Next(g[k - 1], k)
    <3> SUFFICES ASSUME NEW k \in 0..m + 1
                 PROVE  g[k] = IF k = 0 THEN start ELSE Next(g[k - 1], k)
      OBVIOUS
    <3>1. CASE k = m + 1
      <4>1. g[k] = Next(f[m], m + 1) /\ k # 0
        BY <3>1
      <4>2. k - 1 = m /\ m \in 0..m + 1 /\ m # m + 1
        BY <3>1
      <4>3. g[k - 1] = f[m]
        BY <4>2
      <4> HIDE DEF g
      <4> QED
        BY <3>1, <4>1, <4>3
    <3>2. CASE k # m + 1
      <4>1. k \in 0..m /\ g[k] = f[k]
        BY <3>2
      <4>2. k # 0 => k - 1 \in 0..m + 1 /\ k - 1 # m + 1 /\ g[k - 1] = f[k - 1]
        BY <3>2
      <4>3. f[k] = IF k = 0 THEN start ELSE Next(f[k - 1], k)
        BY <2>1, <4>1
      <4> HIDE DEF g, Def
      <4> QED
        BY <4>1, <4>2, <4>3
    <3> QED
      BY <3>1, <3>2
  <2>3. Def(g, m + 1)
    <3>1. g = [k \in 0..m + 1 |-> g[k]]
      OBVIOUS
    <3> HIDE DEF g
    <3> QED
      BY <2>2, <3>1
  <2> HIDE DEF g, Def
  <2> QED
    BY <2>3
<1>6. N \in S
  <2> HIDE DEF S
  <2> QED
    BY <1>1, <1>4, <1>5, NatSetInduction
<1> DEFINE upTo[k \in 0..N] == IF k = 0 THEN start ELSE Next(upTo[k - 1], k)
<1>7. Def(upTo, N)
  <2>1. upTo = CHOOSE f : Def(f, N)
    OBVIOUS
  <2>2. \E f : Def(f, N)
    BY <1>6
  <2> HIDE DEF upTo, Def
  <2> QED
    BY <2>1, <2>2
<1>8. ShrinkAndMinimizeClause(o, d, t, seen, clause) = upTo[N].keep
  BY DEF ShrinkAndMinimizeClause, start, ShrinkStart, Next, ShrinkBlock, ShrunkenBlock
<1> HIDE DEF upTo
<1>9. upTo[0] = start /\ \A m \in 1..N : upTo[m] = Next(upTo[m - 1], m)
  <2>1. 0 \in 0..N /\ \A k \in 1..N : k \in 0..N /\ k # 0
    BY <1>1
  <2> QED
    BY <2>1, <1>7
<1> QED
  BY <1>3, <1>8, <1>9 DEF start

\* The fields of that walk.
IsShrink(a) == a = [keep |-> a.keep, seen |-> a.seen]

\* K keeps enough of the literals lits of level lev.
BlockDone(n, t, d, keep, lev, lits, K) ==
  /\ keep \subseteq K
  /\ \A l \in K \ keep : FalseLit(n, t, l) /\ LevelOf(t, l) = lev
  /\ \A T : Good(T, t, d) /\ Refutes(T, K) => Refutes(T, lits)
  /\ lev = Level(t) => K = keep \cup lits

\* Shrinking or minimizing one level.
LEMMA ShrinkBlockFacts ==
  ASSUME NEW n \in Nat, NEW d, IsDatabase(n, d), NEW t, Shape(t), Over(n, t),
         GraphBelow(d, t, 0), NEW o, NEW lev \in 1..Level(t), NEW clause, FalseLits(n, t, clause),
         NEW lits, lits = {l \in clause : LevelOf(t, l) = lev},
         lev = Level(t) => Cardinality(lits) < 2,
         NEW a, IsShrink(a), a.keep \in SUBSET LitsOf(n)
  PROVE  LET b == ShrinkBlock(o, d, t, clause, a, lev)
         IN  IsShrink(b) /\ BlockDone(n, t, d, a.keep, lev, lits, b.keep)
<1> DEFINE keep == a.keep
           seen == a.seen
           R == Removable(d, t, seen, keep)
           uip == BlockUip(d, t, R, lits, lev)
<1>1. \A x : [a EXCEPT !.keep = x] = [keep |-> x, seen |-> seen]
  BY DEF IsShrink
<1>2. /\ FalseLits(n, t, lits) /\ \A l \in lits : LevelOf(t, l) = lev
      /\ \A l \in lits : FalseLit(n, t, l)
  BY DEF FalseLits
<1>4. BlockDone(n, t, d, keep, lev, lits, keep \cup lits)
  BY <1>2 DEF BlockDone, Refutes
<1>5. \A K, s : ShrinkBlock(o, d, t, clause, a, lev) = [keep |-> K, seen |-> s]
                /\ BlockDone(n, t, d, keep, lev, lits, K)
        => LET b == ShrinkBlock(o, d, t, clause, a, lev)
           IN  IsShrink(b) /\ BlockDone(n, t, d, a.keep, lev, lits, b.keep)
  BY DEF IsShrink
<1> SUFFICES \E K, s : ShrinkBlock(o, d, t, clause, a, lev) = [keep |-> K, seen |-> s]
                       /\ BlockDone(n, t, d, keep, lev, lits, K)
  BY <1>5
<1> HIDE DEF keep
<1>6. CASE Cardinality(lits) < 2
  <2>1. ShrinkBlock(o, d, t, clause, a, lev) = [a EXCEPT !.keep = @ \cup lits]
    BY <1>6 DEF ShrinkBlock
  <2>2. [a EXCEPT !.keep = @ \cup lits] = [a EXCEPT !.keep = keep \cup lits]
    BY DEF keep
  <2> QED
    BY <2>1, <2>2, <1>1, <1>4
<1>7. CASE ~(Cardinality(lits) < 2)
  <2>1. ShrinkBlock(o, d, t, clause, a, lev) = ShrunkenBlock(o, d, t, a, lits, lev, uip)
    <3>1. ByValue(LAMBDA r : BlockUip(d, t, r, lits, lev), R) = uip
      BY DEF ByValue
    <3>2. ByValue(LAMBDA u : ShrunkenBlock(o, d, t, a, lits, lev, u), uip)
            = ShrunkenBlock(o, d, t, a, lits, lev, uip)
      BY DEF ByValue
    <3>3. ShrinkBlock(o, d, t, clause, a, lev) =
            ByValue(LAMBDA u : ShrunkenBlock(o, d, t, a, lits, lev, u),
                    ByValue(LAMBDA r : BlockUip(d, t, r, lits, lev), R))
      BY <1>7 DEF ShrinkBlock, keep
    <3> QED
      BY <3>1, <3>2, <3>3
  <2>2. lits # {} /\ lev \in Nat /\ lev > 0 /\ lev < Level(t) /\ lev # Level(t)
    <3>1. Cardinality({}) = 0
      BY FS_EmptySet
    <3>2. lits # {}
      BY <1>7, <3>1
    <3>3. Level(t) \in Nat /\ lev # Level(t)
      BY <1>7, TrailTypes DEF Shape
    <3> QED
      BY <3>2, <3>3
  <2>3. Implies(t, d, keep, R)
    BY RemovableFacts
  <2>4. keep \in SUBSET LitsOf(n)
    BY DEF keep
  <2>5. CASE uip # 0
    <3>1. StandFor(n, t, d, keep, lev, lits, {uip})
      <4> HIDE DEF R
      <4> QED
        BY <2>2, <2>3, <2>5, <1>2, BlockUipFacts
    <3> HIDE DEF uip
    <3>2. ShrunkenBlock(o, d, t, a, lits, lev, uip) =
            [keep |-> keep \cup {uip}, seen |-> {l \in seen : LevelOf(t, l) # lev} \cup {uip}]
      BY <2>5 DEF ShrunkenBlock, keep
    <3>3. BlockDone(n, t, d, keep, lev, lits, keep \cup {uip})
      BY <3>1, <2>2 DEF BlockDone, StandFor, Refutes, FalseLits
    <3> QED
      BY <2>1, <3>2, <3>3
  <2>6. CASE uip = 0 /\ o.minimize
    <3> DEFINE M == MinimizeBlock(d, t, seen, keep, lits)
    <3>1. Minimized(t, d, keep, lits, M)
      BY <1>2, <2>4, MinimizeFacts
    <3>2. ShrunkenBlock(o, d, t, a, lits, lev, uip) = [a EXCEPT !.keep = M]
      <4> HIDE DEF uip
      <4> QED
        BY <2>6 DEF ShrunkenBlock, keep
    <3> HIDE DEF M
    <3>3. BlockDone(n, t, d, keep, lev, lits, M)
      BY <3>1, <1>2, <2>2 DEF BlockDone, Minimized
    <3> QED
      BY <2>1, <3>2, <3>3, <1>1
  <2>7. CASE uip = 0 /\ ~o.minimize
    <3>1. ShrunkenBlock(o, d, t, a, lits, lev, uip) = [a EXCEPT !.keep = keep \cup lits]
      <4> HIDE DEF uip
      <4> QED
        BY <2>7 DEF ShrunkenBlock, keep
    <3> QED
      BY <2>1, <3>1, <1>1, <1>4
  <2> QED
    BY <2>5, <2>6, <2>7
<1> QED
  BY <1>6, <1>7

\* The kept literals of the levels up to lev.
ShrinkInv(n, t, d, clause, a, lev) ==
  /\ IsShrink(a)
  /\ Loose(n, t, a.keep) /\ \A l \in a.keep : LevelOf(t, l) <= lev
  /\ \A T : Good(T, t, d) /\ Refutes(T, a.keep) =>
       Refutes(T, {l \in clause : LevelOf(t, l) <= lev})
  /\ lev = Level(t) => \A l : (l \in a.keep /\ LevelOf(t, l) = lev)
                              <=> (l \in clause /\ LevelOf(t, l) = lev)

\* Shrinking.
LEMMA ShrinkFacts ==
  ASSUME NEW n \in Nat, NEW d, IsDatabase(n, d), NEW t, Shape(t), Over(n, t), Level(t) > 0,
         GraphBelow(d, t, 0), NEW o, NEW clause, Loose(n, t, clause),
         Cardinality({l \in clause : LevelOf(t, l) = Level(t)}) < 2, NEW seen
  PROVE  LET K == ShrinkAndMinimizeClause(o, d, t, seen, clause)
         IN  /\ Loose(n, t, K)
             /\ \A T : Good(T, t, d) /\ Refutes(T, K) => Refutes(T, clause)
             /\ \A l : (l \in K /\ LevelOf(t, l) = Level(t))
                         <=> (l \in clause /\ LevelOf(t, l) = Level(t))
<1> DEFINE N == Level(t)
<1>1. t \in Trails /\ N \in Nat
  BY TrailTypes DEF Shape
<1>2. PICK upTo :
           /\ upTo[0] = ShrinkStart(seen)
           /\ ShrinkAndMinimizeClause(o, d, t, seen, clause) = upTo[Level(t)].keep
           /\ \A m \in 1..Level(t) : upTo[m] = ShrinkBlock(o, d, t, clause, upTo[m - 1], m)
  BY <1>1, ShrinkUnfolds
<1>3. \A l \in clause : LevelOf(t, l) \in Nat /\ LevelOf(t, l) > 0 /\ LevelOf(t, l) <= N
  BY FalseTypes DEF Loose
<1> DEFINE G == {m \in Nat : m <= N => ShrinkInv(n, t, d, clause, upTo[m], m)}
<1>4. 0 \in G
  <2>1. ShrinkStart(seen) = [keep |-> {}, seen |-> seen]
    BY DEF ShrinkStart
  <2>2. {l \in clause : LevelOf(t, l) <= 0} = {}
    BY <1>3
  <2>3. Loose(n, t, {})
    BY DEF Loose, FalseLits
  <2>4. 0 # Level(t)
    OBVIOUS
  <2> QED
    BY <2>1, <2>2, <2>3, <2>4, <1>2 DEF ShrinkInv, Refutes, IsShrink
<1>5. ASSUME NEW m \in Nat, m \in G PROVE m + 1 \in G
  <2> SUFFICES ASSUME m + 1 <= N PROVE ShrinkInv(n, t, d, clause, upTo[m + 1], m + 1)
    OBVIOUS
  <2>1. m + 1 \in 1..N /\ (m + 1) - 1 = m /\ m <= N
    BY <1>1
  <2>2. ShrinkInv(n, t, d, clause, upTo[m], m)
    BY <2>1, <1>5
  <2> DEFINE lev == m + 1
             lits == {l \in clause : LevelOf(t, l) = lev}
             keep == upTo[m].keep
             K == upTo[lev].keep
  <2>3. upTo[lev] = ShrinkBlock(o, d, t, clause, upTo[m], lev)
    BY <2>1, <1>2
  <2>4. Loose(n, t, keep) /\ FalseLits(n, t, keep) /\ FalseLits(n, t, clause)
    BY <2>2 DEF ShrinkInv, Loose
  <2>5. \A l \in keep : LevelOf(t, l) \in Nat /\ l \in LitsOf(n)
    BY <2>4, FalseTypes
  <2>6. lev = Level(t) => Cardinality(lits) < 2
    OBVIOUS
  <2>7. IsShrink(upTo[lev]) /\ BlockDone(n, t, d, keep, lev, lits, K)
    <3>1. keep \in SUBSET LitsOf(n) /\ lev \in 1..Level(t)
      BY <2>1, <2>5
    <3>2. IsShrink(upTo[m]) /\ lits = {l \in clause : LevelOf(t, l) = lev}
      BY <2>2 DEF ShrinkInv
    <3> DEFINE b == ShrinkBlock(o, d, t, clause, upTo[m], lev)
    <3> HIDE DEF lev, lits
    <3>3. IsShrink(b) /\ BlockDone(n, t, d, keep, lev, lits, b.keep)
      BY <3>1, <3>2, <2>4, <2>6, ShrinkBlockFacts
    <3> QED
      BY <2>3, <3>3
  <2> HIDE DEF keep, K
  <2>9. \A l \in K : l \in keep \/ (FalseLit(n, t, l) /\ LevelOf(t, l) = lev)
    BY <2>7 DEF BlockDone
  <2>10. Loose(n, t, K)
    <3>1. lev > 0
      OBVIOUS
    <3> HIDE DEF lev
    <3> QED
      BY <2>4, <2>9, <3>1 DEF Loose, FalseLits
  <2>11. \A l \in K : LevelOf(t, l) <= lev
    <3>1. \A l \in keep : LevelOf(t, l) <= m
      BY <2>2 DEF ShrinkInv, keep
    <3>2. \A x \in Nat : x <= m => x <= lev
      OBVIOUS
    <3>3. lev <= lev
      OBVIOUS
    <3> HIDE DEF lev
    <3> QED
      BY <2>5, <2>9, <3>1, <3>2, <3>3
  <2>12. ASSUME NEW T, Good(T, t, d), Refutes(T, K)
         PROVE  Refutes(T, {l \in clause : LevelOf(t, l) <= lev})
    <3>1. Refutes(T, lits) /\ Refutes(T, keep)
      BY <2>7, <2>12 DEF BlockDone, Refutes
    <3>2. Refutes(T, {l \in clause : LevelOf(t, l) <= m})
      BY <2>2, <2>12, <3>1 DEF ShrinkInv, keep
    <3>3. \A l \in clause : LevelOf(t, l) <= lev => LevelOf(t, l) <= m \/ LevelOf(t, l) = lev
      BY <1>3
    <3> HIDE DEF lev
    <3> QED
      BY <3>1, <3>2, <3>3 DEF Refutes
  <2>13. lev = Level(t) => \A l : (l \in K /\ LevelOf(t, l) = lev)
                              <=> (l \in clause /\ LevelOf(t, l) = lev)
    <3>1. \A l \in keep : LevelOf(t, l) # lev
      <4>1. \A l \in keep : LevelOf(t, l) <= m
        BY <2>2 DEF ShrinkInv, keep
      <4>2. \A x \in Nat : x <= m => x # lev
        OBVIOUS
      <4> HIDE DEF lev
      <4> QED
        BY <4>1, <4>2, <2>5
    <3>2. lev = Level(t) => K = keep \cup lits
      BY <2>7 DEF BlockDone
    <3> HIDE DEF lev
    <3> QED
      BY <3>1, <3>2
  <2> HIDE DEF lev, lits
  <2>15. ShrinkInv(n, t, d, clause, upTo[lev], lev)
    BY <2>7, <2>10, <2>11, <2>12, <2>13 DEF ShrinkInv, K
  <2> QED
    BY <2>15 DEF lev
<1>6. ShrinkInv(n, t, d, clause, upTo[N], N)
  <2>1. N \in G
    <3> HIDE DEF G
    <3> QED
      BY <1>1, <1>4, <1>5, NatSetInduction
  <2> QED
    BY <2>1, <1>1
<1>7. {l \in clause : LevelOf(t, l) <= N} = clause
  BY <1>3
<1> QED
  BY <1>2, <1>6, <1>7 DEF ShrinkInv

\* The literals of the first UIP clause.
UipClause(t, a) == {l \in a.seen : LevelOf(t, l) < Level(t)} \cup {-a.uip}

\* What the learned clause c flips: literal l, the only one of the current
\* level.
Drives(n, t, c, l) ==
  /\ Loose(n, t, c) /\ l \in c /\ LevelOf(t, l) = Level(t)
  /\ \A k \in c \ {l} : LevelOf(t, k) < Level(t)

\* Whatever minimization and shrinking removed, the learned clause follows
\* and drives the search.
LEMMA LearnedFacts ==
  ASSUME NEW n \in Nat, NEW t, Shape(t), Over(n, t), Level(t) > 0, NEW db, NEW a,
         Analyzed(n, t, db, a), ~a.otfs, NEW o
  PROVE  LET c == LearnedClause(o, a, t)
         IN  Drives(n, t, c, -a.uip) /\ Follows(t, db, c)
<1> DEFINE clause == UipClause(t, a)
           c == LearnedClause(o, a, t)
           uip == -a.uip
<1>1. /\ uip \in a.seen /\ LevelOf(t, uip) = Level(t) /\ Follows(t, db, clause)
      /\ Loose(n, t, a.seen) /\ Refined(n, t, db, a.db) /\ IsDatabase(n, a.db)
  BY DEF Analyzed, FoundUip, UipClause, Refined
<1>2. GraphBelow(a.db, t, 0)
  <2>1. \A j \in Positions(t) : ~(j <= 0)
    BY DEF Positions
  <2> QED
    BY <2>1 DEF GraphBelow, Analyzed
<1>3. Loose(n, t, clause) /\ FalseLits(n, t, clause) /\ uip \in clause
  BY <1>1 DEF Loose, FalseLits, UipClause
<1>4. \A l \in clause : LevelOf(t, l) = Level(t) <=> l = uip
  <2>1. \A l \in a.seen : LevelOf(t, l) \in Nat
    BY <1>1, FalseTypes DEF Loose
  <2>2. Level(t) \in Nat
    BY TrailTypes DEF Shape
  <2>3. \A x, y \in Nat : x < y => x # y
    OBVIOUS
  <2> QED
    BY <2>1, <2>2, <2>3, <1>1 DEF UipClause
<1>5. ASSUME NEW K, Loose(n, t, K), \A T : Good(T, t, a.db) /\ Refutes(T, K) => Refutes(T, clause),
             \A l : l \in K /\ LevelOf(t, l) = Level(t) <=> l \in clause /\ LevelOf(t, l) = Level(t)
      PROVE  Drives(n, t, K, uip) /\ Follows(t, db, K)
  <2>1. uip \in K
    BY <1>1, <1>3, <1>5
  <2>2. ASSUME NEW k \in K \ {uip} PROVE LevelOf(t, k) < Level(t)
    <3>1. LevelOf(t, k) \in Nat /\ LevelOf(t, k) <= Level(t) /\ Level(t) \in Nat
      BY <1>5, FalseTypes, TrailTypes DEF Loose, Shape
    <3>2. LevelOf(t, k) # Level(t)
      BY <1>4, <1>5
    <3> QED
      BY <3>1, <3>2
  <2>3. ASSUME NEW T, RootHolds(T, t), AllHold(T, db) PROVE SatClause(T, K)
    <3> SUFFICES ASSUME Refutes(T, K) PROVE FALSE
      BY DEF SatClause, Refutes
    <3>1. Good(T, t, a.db)
      BY <2>3, <1>1 DEF Refined, Good
    <3>2. Refutes(T, clause)
      BY <3>1, <1>5
    <3>3. SatClause(T, clause)
      BY <2>3, <1>1 DEF Follows
    <3> QED
      BY <3>2, <3>3 DEF SatClause, Refutes
  <2> QED
    BY <2>1, <2>2, <2>3, <1>1, <1>5 DEF Drives, Follows
<1>6. CASE o.shrink
  <2>1. c = ShrinkAndMinimizeClause(o, a.db, t, a.seen, clause)
    BY <1>6 DEF LearnedClause, UipClause
  <2>2. Cardinality({l \in clause : LevelOf(t, l) = Level(t)}) < 2
    <3>1. {l \in clause : LevelOf(t, l) = Level(t)} = {uip}
      BY <1>3, <1>4
    <3> HIDE DEF clause, uip
    <3>2. Cardinality({uip}) = 1
      BY FS_Singleton
    <3> QED
      BY <3>1, <3>2
  <2> HIDE DEF clause, uip
  <2> DEFINE K == ShrinkAndMinimizeClause(o, a.db, t, a.seen, clause)
  <2>3. /\ Loose(n, t, K)
        /\ \A T : Good(T, t, a.db) /\ Refutes(T, K) => Refutes(T, clause)
        /\ \A l : l \in K /\ LevelOf(t, l) = Level(t) <=> l \in clause /\ LevelOf(t, l) = Level(t)
    BY <2>2, <1>1, <1>2, <1>3, ShrinkFacts
  <2> HIDE DEF K
  <2>4. Drives(n, t, K, uip) /\ Follows(t, db, K)
    BY <2>3, <1>5
  <2> QED
    BY <2>1, <2>4 DEF K, uip
<1>7. CASE ~o.shrink /\ o.minimize
  <2>1. c = MinimizeBlock(a.db, t, a.seen, {}, clause)
    BY <1>7 DEF LearnedClause, MinimizeClause, UipClause
  <2> HIDE DEF clause, uip
  <2> DEFINE K == MinimizeBlock(a.db, t, a.seen, {}, clause)
  <2>2. Minimized(t, a.db, {}, clause, K)
    BY <1>1, <1>2, <1>3, MinimizeFacts
  <2> HIDE DEF K
  <2>3. Loose(n, t, K)
    BY <2>2, <1>3 DEF Minimized, Loose, FalseLits
  <2>4. Drives(n, t, K, uip) /\ Follows(t, db, K)
    BY <2>2, <2>3, <1>5 DEF Minimized
  <2> QED
    BY <2>1, <2>4 DEF K, uip
<1>8. CASE ~o.shrink /\ ~o.minimize
  <2>1. c = clause
    BY <1>8 DEF LearnedClause, MinimizeClause, UipClause
  <2> HIDE DEF clause, uip, c
  <2>2. Drives(n, t, clause, uip) /\ Follows(t, db, clause)
    BY <1>3, <1>5
  <2> QED
    BY <2>1, <2>2 DEF uip, c
<1> QED
  BY <1>6, <1>7, <1>8
-----------------------------------------------------------------------------
(* After the analysis. *)

\* The levels backtracking chooses from.
LEMMA BacktrackLevelFacts ==
  ASSUME NEW t, Shape(t), NEW o, NEW jump \in Nat, jump < Level(t), NEW assumptions,
         NEW m \in DetermineActualBacktrackLevel(o, t, jump, assumptions)
  PROVE  m \in Nat /\ jump <= m /\ m < Level(t) /\ (o.chrono = 0 => m = jump)
<1>1. Level(t) \in Nat
  BY TrailTypes DEF Shape
<1> DEFINE below == Level(t) - 1
<1>2. below \in Nat /\ jump <= below /\ below < Level(t)
  BY <1>1
<1>3. CASE m = jump
  BY <1>3
<1>4. CASE m = below /\ o.chrono # 0
  BY <1>2, <1>4
<1>5. CASE o.chrono # 0 /\ m # jump /\ m # below
  <2>1. PICK best : m = Max({jump} \cup {i \in jump + 1..below : t.control[i].trail < best})
    BY <1>5 DEF DetermineActualBacktrackLevel
  <2> DEFINE S == {jump} \cup {i \in jump + 1..below : t.control[i].trail < best}
  <2>2. S \subseteq Nat /\ S # {} /\ \A x \in S : x <= below
    BY <1>2
  <2>3. \A x \in S : jump <= x
    OBVIOUS
  <2> HIDE DEF S, below
  <2>4. Max(S) \in S
    BY <2>2, <1>2, MaxIsGreatest
  <2>5. m \in S
    BY <2>1, <2>4 DEF S, below
  <2> QED
    BY <2>2, <2>3, <2>5, <1>1, <1>2, <1>5
<1> QED
  BY <1>3, <1>4, <1>5 DEF DetermineActualBacktrackLevel

\* The levels of u are levels of t, and what they hold of it is true there.
Retains(t, u) ==
  /\ Level(u) <= Level(t)
  /\ \A i \in 1..Level(u) : u.control[i].decision = t.control[i].decision
  /\ \A l \in Int : Val(t, l) # 0 /\ LevelOf(t, l) <= Level(u) =>
       Val(u, l) = Val(t, l) /\ LevelOf(u, l) = LevelOf(t, l)

\* Backtracking does that.
LEMMA RetainsBacktrack ==
  ASSUME NEW t, NEW u, NEW m, KeepsLevels(t, u, m)
  PROVE  Retains(t, u)
BY DEF KeepsLevels, Kept, Retains

\* And so does putting a literal on top.
LEMMA RetainsOnTop ==
  ASSUME NEW t, Shape(t), NEW u, Shape(u), NEW v \in Trails, NEW e, Retains(t, u), ImpliedOnTop(u, v, e)
  PROVE  Retains(t, v)
<1>1. \A l \in Int : Val(u, l) # 0 => Val(v, l) = Val(u, l) /\ LevelOf(v, l) = LevelOf(u, l)
  BY OnTopView DEF ImpliedOnTop, Shape
<1>2. Level(v) = Level(u) /\ v.control = u.control
  BY DEF ImpliedOnTop, Level
<1> QED
  BY <1>1, <1>2 DEF Retains

\* Twice.
LEMMA RetainsTrans ==
  ASSUME NEW t, Shape(t), NEW u, Shape(u), NEW v, Shape(v), Retains(t, u), Retains(u, v)
  PROVE  Retains(t, v)
<1>1. Level(t) \in Nat /\ Level(u) \in Nat /\ Level(v) \in Nat
  BY TrailTypes DEF Shape
<1>2. Level(v) <= Level(u) /\ Level(u) <= Level(t)
  BY DEF Retains
<1>3. Level(v) <= Level(t) /\ \A i \in 1..Level(v) : i \in 1..Level(u)
  BY <1>1, <1>2
<1>4. \A i \in 1..Level(v) : v.control[i].decision = t.control[i].decision
  BY <1>3 DEF Retains
<1>5. ASSUME NEW l \in Int, Val(t, l) # 0, LevelOf(t, l) <= Level(v)
      PROVE  Val(v, l) = Val(t, l) /\ LevelOf(v, l) = LevelOf(t, l)
  <2>1. LevelOf(t, l) \in Nat
    BY <1>5, AssignedFacts
  <2>2. LevelOf(t, l) <= Level(u)
    BY <2>1, <1>1, <1>2, <1>5
  <2>3. Val(u, l) = Val(t, l) /\ LevelOf(u, l) = LevelOf(t, l)
    BY <2>2, <1>5 DEF Retains
  <2> QED
    BY <2>3, <1>5 DEF Retains
<1> QED
  BY <1>3, <1>4, <1>5 DEF Retains

\* A root-level unit is assigned.
LEMMA AssignUnit ==
  ASSUME NEW n \in Nat, NEW db, NEW t, NEW chrono \in Nat, Founded(chrono, n, db, t),
         NEW c, NEW d, NEW l \in LitsOf(n), Val(t, l) = 0, chrono = 0 => Level(t) = 0
  PROVE  LET u == SearchAssign(c, d, t, l, NoReason)
             e == [lit |-> l, level |-> 0, reason |-> NoReason]
         IN  /\ Founded(chrono, n, db, u) /\ ImpliedOnTop(t, u, e)
             /\ \A T : RootHolds(T, u) <=> RootHolds(T, t) /\ SatLit(T, l)
<1> DEFINE e == [lit |-> l, level |-> 0, reason |-> NoReason]
           u == SearchAssign(c, d, t, l, NoReason)
<1>1. l \in Int /\ l # 0
  BY LitFacts
<1>2. e \in Assignments /\ e.lit = l /\ e.level = 0 /\ e.reason = NoReason
  BY <1>1 DEF Assignments, NoReason
<1>3. u = [t EXCEPT !.trail = Append(@, e)]
  <2>1. NoReason # DecisionReason
    BY DEF NoReason, DecisionReason
  <2> QED
    BY <2>1 DEF SearchAssign, AssignmentLevel
<1> HIDE DEF e
<1>4. Shape(t) /\ Level(t) \in Nat /\ t \in Trails /\ Distinct(t)
  BY TrailTypes DEF Founded, Shape
<1>5. Shape(u) /\ OnTop(t, u, e) /\ Level(u) = Level(t) /\ u.control = t.control
      /\ u.propagated = t.propagated
  <2> HIDE DEF u
  <2> QED
    BY <1>1, <1>2, <1>3, <1>4, ImpliedShape, SMTT(40)
<1> HIDE DEF u
<1>6. ImpliedOnTop(t, u, e)
  BY <1>1, <1>2, <1>4, <1>5 DEF ImpliedOnTop
<1>7. u \in Trails
  BY <1>5 DEF Shape
<1>8. Over(n, u)
  <2>1. /\ Positions(u) = Positions(t) \cup {Len(t.trail) + 1}
        /\ \A k \in Positions(t) : u.trail[k] = t.trail[k]
        /\ u.trail[Len(t.trail) + 1] = e
    BY <1>4, <1>6, <1>7, OnTopView DEF ImpliedOnTop
  <2> QED
    BY <2>1, <1>2 DEF Over, Founded
<1>9. Graph(db, u)
  BY <1>2, <1>4, <1>6, <1>7, GraphOnTop DEF ImpliedOnTop, Founded
<1>10. chrono = 0 => Ordered(u)
  BY <1>2, <1>4, <1>5, <1>6, <1>7, OrderedOnTop DEF ImpliedOnTop, Founded
<1>11. \A T : RootHolds(T, u) <=> RootHolds(T, t) /\ SatLit(T, l)
  BY <1>2, <1>4, <1>6, <1>7, RootOnTop DEF ImpliedOnTop
<1>12. Founded(chrono, n, db, u)
  BY <1>5, <1>8, <1>9, <1>10 DEF Founded
<1> QED
  BY <1>6, <1>11, <1>12 DEF u, e

\* Every clause is watched well enough to undo the current level.
Settled(t, c) == WatchOK(t, t.control[Level(t)].trail, c) \/ Raised(t, c)
\* The watches of every clause are settled.
Watched(t, db) == \A i \in DOMAIN db : ~db[i].garbage => Settled(t, db[i])

\* And after propagation.
AllWatched(t, db) == \A i \in DOMAIN db : ~db[i].garbage => WatchOK(t, t.propagated, db[i])

\* A clause that watches a literal of the level that is undone.
LEMMA RaisedBacktrack ==
  ASSUME NEW n \in Nat, NEW t, Shape(t), NEW u, Shape(u), NEW m \in Nat,
         KeepsLevels(t, u, m), m < Level(t), NEW c \in Clauses(n), Raised(t, c)
  PROVE  WatchOK(u, u.propagated, c)
<1>1. \A w \in c.watch : w \in Int
  BY WatchLits
<1>2. \A w \in c.watch : Val(t, w) = -1 /\ LevelOf(t, w) > 0
  BY DEF Raised
<1>3. \A w \in c.watch : Val(u, w) # 0 => LevelOf(u, w) = LevelOf(t, w)
  BY <1>1, <1>2 DEF KeepsLevels, Kept
<1>4. PICK x \in c.watch : LevelOf(t, x) = Level(t)
  BY DEF Raised
<1>5. Val(u, x) = 0
  <2>1. Level(t) \in Nat
    BY TrailTypes DEF Shape
  <2>2. ~(LevelOf(t, x) <= m)
    BY <2>1, <1>4
  <2> QED
    BY <2>2, <1>1 DEF KeepsLevels, Kept
<1>6. ~DoneTo(u, u.propagated, x)
  BY <1>5 DEF DoneTo
<1>7. \A w \in c.watch : ~(DoneTo(u, u.propagated, w) /\ LevelOf(u, w) = 0)
  <2> SUFFICES ASSUME NEW w \in c.watch, Val(u, w) = -1, LevelOf(u, w) = 0 PROVE FALSE
    BY DEF DoneTo
  <2>1. LevelOf(t, w) = 0
    BY <1>3
  <2> QED
    BY <2>1, <1>2
<1> QED
  BY <1>6, <1>7 DEF WatchOK

\* Watches after backtracking.
LEMMA SettledBacktrack ==
  ASSUME NEW n \in Nat, NEW t, Shape(t), NEW u, Shape(u), NEW m \in Nat,
         KeepsLevels(t, u, m), m < Level(t), NEW c \in Clauses(n), Settled(t, c)
  PROVE  WatchOK(u, u.propagated, c)
<1>1. CASE Raised(t, c)
  BY <1>1, RaisedBacktrack
<1>2. CASE WatchOK(t, t.control[Level(t)].trail, c)
  <2> DEFINE b == t.control[Level(t)].trail
  <2>1. Level(t) \in Nat /\ m + 1 \in 1..Level(t) /\ Level(t) \in m + 1..Level(t)
        /\ Level(t) \in 1..Level(t)
    BY TrailTypes DEF Shape
  <2>2. b \in Nat
    BY <2>1, TrailTypes DEF Shape
  <2>3. t.control[m + 1].trail <= b
    BY <2>1 DEF Shape, Heights
  <2> HIDE DEF b
  <2>4. WatchOK(t, b, c)
    BY <1>2 DEF b
  <2> QED
    BY <2>2, <2>3, <2>4, WatchBacktrack
<1> QED
  BY <1>1, <1>2 DEF Settled

\* Backtracking below a level, with the clauses and graph of the lower ones.
LEMMA FoundedBacktrack ==
  ASSUME NEW n \in Nat, NEW chrono \in Nat, NEW d, IsDatabase(n, d), NEW t, Shape(t), Over(n, t),
         chrono = 0 => Ordered(t), GraphBelow(d, t, 0), NEW m \in Nat, m < Level(t)
  PROVE  LET u == Backtrack(t, m)
         IN  /\ Founded(chrono, n, d, u) /\ KeepsLevels(t, u, m) /\ Level(u) = m /\ Retains(t, u)
             /\ \A T : RootHolds(T, u) <=> RootHolds(T, t)
             /\ Watched(t, d) => AllWatched(u, d)
<1> DEFINE u == Backtrack(t, m)
<1>1. Level(t) \in Nat /\ m \in 0..Level(t)
  BY TrailTypes DEF Shape
<1>2. Shape(u) /\ KeepsLevels(t, u, m)
  BY <1>1, BacktrackShape
<1> HIDE DEF u
<1>3. Over(n, u)
  BY <1>2, OverBacktrack
<1>4. Graph(d, u)
  <2>1. \A k \in Positions(t) : t.trail[k].level <= m =>
          Reasoned(d, t, k) /\ Protected(d, t, k)
    <3>1. \A k \in Positions(t) : t.trail[k].level <= m => t.trail[k].level < Level(t)
      <4>1. \A k \in Positions(t) : t.trail[k].level \in Nat
        BY TrailTypes DEF Shape
      <4> QED
        BY <4>1, <1>1
    <3> QED
      BY <3>1 DEF GraphBelow
  <2> QED
    BY <2>1, <1>2, GraphBacktrack
<1>5. chrono = 0 => Ordered(u)
  BY <1>2, OrderedBacktrack
<1>6. \A T : RootHolds(T, u) <=> RootHolds(T, t)
  BY <1>2, RootBacktrack
<1>7. Watched(t, d) => AllWatched(u, d)
  <2>1. \A i \in DOMAIN d : d[i] \in Clauses(n)
    BY ClauseTypes
  <2> QED
    BY <2>1, <1>2, SettledBacktrack DEF Watched, AllWatched
<1>8. Retains(t, u) /\ Level(u) = m
  BY <1>2, RetainsBacktrack DEF KeepsLevels
<1>9. Founded(chrono, n, d, u)
  BY <1>2, <1>3, <1>4, <1>5 DEF Founded
<1> QED
  BY <1>2, <1>6, <1>7, <1>8, <1>9 DEF u

\* A literal that was assigned on top leaves the watches right.
LEMMA WatchedOnTop ==
  ASSUME NEW n \in Nat, NEW t, Shape(t), NEW u, Shape(u), NEW e, ImpliedOnTop(t, u, e),
         NEW c \in Clauses(n), WatchOK(t, t.propagated, c)
  PROVE  WatchOK(u, u.propagated, c)
<1>1. u \in Trails /\ t.propagated \in Nat /\ t.propagated <= Len(t.trail)
  BY TrailTypes DEF Shape
<1>2. Extends(t, u)
  BY <1>1, OnTopExtends DEF ImpliedOnTop
<1>3. u.propagated = t.propagated
  BY DEF ImpliedOnTop
<1> QED
  BY <1>1, <1>2, <1>3, WatchExtends

\* The literals of a clause that drives the search once the levels above m are
\* undone.
LEMMA DrivenForces ==
  ASSUME NEW n \in Nat, NEW t, Shape(t), NEW c, NEW l, Drives(n, t, c, l),
         NEW m \in Nat, m < Level(t), MaxLevel(t, c \ {l}) <= m,
         NEW u, Shape(u), KeepsLevels(t, u, m)
  PROVE  /\ Val(u, l) = 0 /\ l \in LitsOf(n)
         /\ \A k \in c \ {l} : Val(u, k) = -1
         /\ m = MaxLevel(t, c \ {l}) /\ m > 0 => \E k \in c \ {l} : LevelOf(u, k) = m
<1> DEFINE others == c \ {l}
<1>1. /\ \A k \in c : /\ k \in Int /\ k \in LitsOf(n) /\ Val(t, k) = -1 /\ Val(t, k) # 0
                      /\ LevelOf(t, k) \in Nat
      /\ l \in c /\ LevelOf(t, l) = Level(t)
  BY FalseTypes DEF Drives, Loose
<1>2. Val(u, l) = 0
  <2>1. ~(LevelOf(t, l) <= m)
    BY <1>1, TrailTypes DEF Shape
  <2> QED
    BY <2>1, <1>1 DEF KeepsLevels, Kept
<1>3. /\ MaxLevel(t, others) \in Nat
      /\ \A k \in others : LevelOf(t, k) <= MaxLevel(t, others)
      /\ MaxLevel(t, others) # 0 => \E k \in others : LevelOf(t, k) = MaxLevel(t, others)
  <2>1. others \subseteq Int /\ \A k \in others : Val(t, k) # 0
    BY <1>1
  <2> HIDE DEF others
  <2> QED
    BY <2>1, MaxLevelFacts
<1>4. \A k \in others : LevelOf(t, k) <= m
  <2>1. \A x, y \in Nat : x <= y /\ y <= m => x <= m
    OBVIOUS
  <2>2. \A k \in others : LevelOf(t, k) \in Nat
    BY <1>1
  <2> HIDE DEF others
  <2>3. MaxLevel(t, others) <= m
    BY DEF others
  <2> QED
    BY <2>1, <2>2, <2>3, <1>3
<1>5. \A k \in others : Val(u, k) = -1 /\ LevelOf(u, k) = LevelOf(t, k)
  BY <1>1, <1>4 DEF KeepsLevels, Kept
<1> HIDE DEF others
<1>6. m = MaxLevel(t, others) /\ m > 0 => \E k \in others : LevelOf(u, k) = m
  BY <1>3, <1>5
<1> QED
  BY <1>1, <1>2, <1>5, <1>6 DEF others

\* What a conflict leaves of the clauses d and the trail t.
Resting(chrono, n, d, t) ==
  /\ IsDatabase(n, d) /\ Shape(t) /\ Over(n, t) /\ (chrono = 0 => Ordered(t))
  /\ GraphBelow(d, t, 0) /\ Watched(t, d)

\* The search goes on with trail v, after clause c was learned.
Resumes(chrono, n, t, d, c, v) ==
  /\ Founded(chrono, n, d, v) /\ Retains(t, v) /\ AllWatched(v, d)
  /\ \A T : Good(T, t, d) /\ SatClause(T, c) => RootHolds(T, v)
  /\ \A T : RootHolds(T, v) => RootHolds(T, t)

\* The clause that is learned or strengthened assigns its literal.
LEMMA DriveByClause ==
  ASSUME NEW n \in Nat, NEW chrono \in Nat, NEW d, NEW t, Resting(chrono, n, d, t),
         NEW i \in DOMAIN d, NEW l, Drives(n, t, d[i].lits, l),
         Cardinality(d[i].lits) > 2 => ~d[i].garbage,
         NEW m \in Nat, m < Level(t), MaxLevel(t, d[i].lits \ {l}) <= m,
         chrono = 0 => m = MaxLevel(t, d[i].lits \ {l})
  PROVE  Resumes(chrono, n, t, d, d[i].lits, SearchAssign(chrono, d, Backtrack(t, m), l, i))
<1> DEFINE u == Backtrack(t, m)
           v == SearchAssign(chrono, d, u, l, i)
<1>1. /\ Founded(chrono, n, d, u) /\ KeepsLevels(t, u, m) /\ Level(u) = m /\ Retains(t, u)
      /\ \A T : RootHolds(T, u) <=> RootHolds(T, t)
      /\ AllWatched(u, d) /\ Shape(u) /\ Shape(t)
  BY FoundedBacktrack DEF Resting, Founded
<1> HIDE DEF u
<1>2. Forces(chrono, d, u, i, l)
  <2>1. l \in d[i].lits
    BY DEF Drives
  <2>2. /\ Val(u, l) = 0
        /\ \A k \in d[i].lits \ {l} : Val(u, k) = -1
        /\ m = MaxLevel(t, d[i].lits \ {l}) /\ m > 0
             => \E k \in d[i].lits \ {l} : LevelOf(u, k) = m
    BY <1>1, DrivenForces
  <2> QED
    BY <1>1, <2>1, <2>2 DEF Forces
<1>3. /\ Founded(chrono, n, d, v) /\ ImpliedOnTop(u, v, ForcedEntry(d, u, i, l))
      /\ \A T : AllHold(T, d) /\ RootHolds(T, u) => RootHolds(T, v)
  BY <1>1, <1>2, AssignByClause
<1> HIDE DEF v
<1>4. Shape(v) /\ v \in Trails
  BY <1>3 DEF Founded, Shape
<1>5. Retains(t, v)
  BY <1>1, <1>3, <1>4, RetainsOnTop
<1>6. AllWatched(v, d)
  <2>1. \A j \in DOMAIN d : d[j] \in Clauses(n)
    BY ClauseTypes DEF Resting
  <2> QED
    BY <2>1, <1>1, <1>3, <1>4, WatchedOnTop DEF AllWatched
<1>7. \A T : Good(T, t, d) => RootHolds(T, v)
  BY <1>1, <1>3 DEF Good
<1>8. \A T : RootHolds(T, v) => RootHolds(T, t)
  BY <1>1, <1>3, <1>4, RootOnTop DEF ImpliedOnTop
<1> QED
  BY <1>3, <1>5, <1>6, <1>7, <1>8 DEF Resumes, u, v

\* A learned unit is assigned.
LEMMA DriveByUnit ==
  ASSUME NEW n \in Nat, NEW chrono \in Nat, NEW d, NEW t, Resting(chrono, n, d, t),
         NEW l, Drives(n, t, {l}, l), NEW c, NEW db,
         NEW m \in Nat, m < Level(t), chrono = 0 => m = 0
  PROVE  Resumes(chrono, n, t, d, {l}, SearchAssign(c, db, Backtrack(t, m), l, NoReason))
<1> DEFINE u == Backtrack(t, m)
           v == SearchAssign(c, db, u, l, NoReason)
           e == [lit |-> l, level |-> 0, reason |-> NoReason]
<1>1. /\ Founded(chrono, n, d, u) /\ KeepsLevels(t, u, m) /\ Level(u) = m /\ Retains(t, u)
      /\ \A T : RootHolds(T, u) <=> RootHolds(T, t)
      /\ AllWatched(u, d) /\ Shape(u) /\ Shape(t)
  BY FoundedBacktrack DEF Resting, Founded
<1> HIDE DEF u
<1>2. Val(u, l) = 0 /\ l \in LitsOf(n)
  <2>1. l \in LitsOf(n) /\ l \in Int /\ Val(t, l) # 0 /\ LevelOf(t, l) = Level(t)
    BY FalseTypes, <1>1 DEF Drives, Loose
  <2>2. ~(LevelOf(t, l) <= m)
    BY <2>1, <1>1, TrailTypes DEF Shape
  <2> QED
    BY <2>1, <2>2, <1>1 DEF KeepsLevels, Kept
<1>3. /\ Founded(chrono, n, d, v) /\ ImpliedOnTop(u, v, e)
      /\ \A T : RootHolds(T, v) <=> RootHolds(T, u) /\ SatLit(T, l)
  BY <1>1, <1>2, AssignUnit
<1> HIDE DEF v, e
<1>4. Shape(v) /\ v \in Trails
  BY <1>3 DEF Founded, Shape
<1>5. Retains(t, v)
  BY <1>1, <1>3, <1>4, RetainsOnTop
<1>6. AllWatched(v, d)
  <2>1. \A j \in DOMAIN d : d[j] \in Clauses(n)
    BY ClauseTypes DEF Resting
  <2> QED
    BY <2>1, <1>1, <1>3, <1>4, WatchedOnTop DEF AllWatched
<1>7. \A T : Good(T, t, d) /\ SatClause(T, {l}) => RootHolds(T, v)
  BY <1>1, <1>3 DEF Good, SatClause
<1>8. \A T : RootHolds(T, v) => RootHolds(T, t)
  BY <1>1, <1>3
<1> QED
  BY <1>3, <1>5, <1>6, <1>7, <1>8 DEF Resumes, u, v

\* The clauses after an analysis are watched too.
LEMMA RefinedWatched ==
  ASSUME NEW n, NEW t, NEW db, NEW d, Refined(n, t, db, d), Watched(t, db)
  PROVE  Watched(t, d)
<1> SUFFICES ASSUME NEW i \in DOMAIN d, ~d[i].garbage PROVE Settled(t, d[i])
  BY DEF Watched
<1>1. i \in DOMAIN db /\ ~db[i].garbage
  BY DEF Refined
<1>2. Settled(t, db[i])
  BY <1>1 DEF Watched
<1>3. CASE d[i].lits = db[i].lits /\ d[i].watch = db[i].watch
  BY <1>2, <1>3 DEF Settled, WatchOK, Raised
<1>4. CASE Raised(t, d[i])
  BY <1>4 DEF Settled
<1> QED
  BY <1>1, <1>3, <1>4 DEF Refined

\* What an analysis leaves.
LEMMA AnalyzedResting ==
  ASSUME NEW n, NEW chrono, NEW db, NEW t, Resting(chrono, n, db, t), NEW a, Analyzed(n, t, db, a)
  PROVE  Resting(chrono, n, a.db, t)
<1>1. GraphBelow(a.db, t, 0)
  <2>1. \A j \in Positions(t) : ~(j <= 0)
    BY DEF Positions
  <2> QED
    BY <2>1 DEF GraphBelow, Analyzed
<1> QED
  BY <1>1, RefinedWatched DEF Analyzed, Resting, Refined

\* The level the search jumps to is below the conflict.
LEMMA JumpFacts ==
  ASSUME NEW n, NEW t, Shape(t), NEW c, NEW l, Drives(n, t, c, l), Level(t) > 0
  PROVE  MaxLevel(t, c \ {l}) \in Nat /\ MaxLevel(t, c \ {l}) < Level(t)
<1> DEFINE others == c \ {l}
<1>1. \A k \in c : k \in Int /\ Val(t, k) # 0
  BY FalseTypes DEF Drives, Loose
<1>2. others \subseteq Int /\ \A k \in others : Val(t, k) # 0 /\ LevelOf(t, k) < Level(t)
  BY <1>1 DEF Drives
<1> HIDE DEF others
<1>3. /\ MaxLevel(t, others) \in Nat /\ MaxLevel(t, others) <= Level(t)
      /\ MaxLevel(t, others) # 0 => \E k \in others : LevelOf(t, k) = MaxLevel(t, others)
  BY <1>2, MaxLevelFacts
<1> QED
  BY <1>2, <1>3 DEF others

\* The search goes on with the clauses and the trail of r: they say what those
\* of db and t said, and redundant clauses only say what follows.
GoesOn(chrono, n, db, t, r) ==
  /\ r.unsat = FALSE
  /\ Founded(chrono, n, r.db, r.t) /\ Retains(t, r.t) /\ AllWatched(r.t, r.db)
  /\ \A T : Good(T, t, db) => Good(T, r.t, r.db)
  /\ \A T : RootHolds(T, r.t) /\ CoreHolds(T, r.db) => RootHolds(T, t) /\ CoreHolds(T, db)

\* The strengthened clause drives the search.
LEMMA OtfsDriveFacts ==
  ASSUME NEW n \in Nat, NEW db, NEW t, NEW o, o.chrono \in Nat,
         Resting(o.chrono, n, db, t), Level(t) > 0,
         NEW a, Analyzed(n, t, db, a), a.otfs, NEW assumptions,
         NEW r \in OtfsDrive(o, a, t, assumptions)
  PROVE  GoesOn(o.chrono, n, db, t, r)
<1> DEFINE i == a.conflict
           c == a.db[i].lits
           l == CHOOSE l \in c : LevelOf(t, l) = Level(t)
           jump == MaxLevel(t, c \ {l})
<1>1. /\ Resting(o.chrono, n, a.db, t) /\ Shape(t) /\ Level(t) \in Nat
      /\ Refined(n, t, db, a.db) /\ i \in DOMAIN a.db
  <2>1. Resting(o.chrono, n, a.db, t)
    BY AnalyzedResting
  <2>2. Shape(t) /\ Refined(n, t, db, a.db)
    BY DEF Resting, Analyzed
  <2>3. Level(t) \in Nat
    BY <2>2, TrailTypes DEF Shape
  <2>4. i \in DOMAIN a.db
    BY DEF Analyzed, Refined
  <2> QED
    BY <2>1, <2>2, <2>3, <2>4
<1>2. Drives(n, t, c, l) /\ ~a.db[i].garbage
  <2>1. /\ a.seen = c /\ ~a.db[i].garbage /\ Loose(n, t, c)
        /\ \E x \in c : LevelOf(t, x) = Level(t)
                        /\ \A y \in c : LevelOf(t, y) = Level(t) => y = x
    BY DEF Analyzed, FoundStrengthened
  <2>2. \A y \in c : LevelOf(t, y) \in Nat /\ LevelOf(t, y) <= Level(t)
    BY <2>1, <1>1, FalseTypes DEF Loose
  <2> HIDE DEF c
  <2>3. l \in c /\ LevelOf(t, l) = Level(t)
    BY <2>1
  <2> HIDE DEF l
  <2>4. \A y \in c \ {l} : LevelOf(t, y) # Level(t)
    BY <2>1, <2>3
  <2>5. \A y \in c \ {l} : LevelOf(t, y) < Level(t)
    BY <2>2, <2>4, <1>1
  <2> QED
    BY <2>1, <2>3, <2>5 DEF Drives
<1> HIDE DEF l
<1>3. jump \in Nat /\ jump < Level(t)
  BY <1>1, <1>2, JumpFacts
<1>4. PICK m \in DetermineActualBacktrackLevel(o, t, jump, assumptions) :
        r = Outcome(a.db, SearchAssign(o.chrono, a.db, Backtrack(t, m), l, i), FALSE)
  BY DEF OtfsDrive, l
<1>5. m \in Nat /\ jump <= m /\ m < Level(t) /\ (o.chrono = 0 => m = jump)
  BY <1>1, <1>3, BacktrackLevelFacts
<1> DEFINE v == SearchAssign(o.chrono, a.db, Backtrack(t, m), l, i)
<1>6. Resumes(o.chrono, n, t, a.db, c, v)
  BY <1>1, <1>2, <1>5, DriveByClause
<1>7. r.db = a.db /\ r.t = v /\ r.unsat = FALSE
  BY <1>4 DEF Outcome
<1>8. \A T : AllHold(T, a.db) => SatClause(T, c)
  BY <1>1 DEF AllHold
<1> HIDE DEF v, c
<1> QED
  BY <1>1, <1>6, <1>7, <1>8 DEF Resumes, GoesOn, Refined, Good

\* Redundant clauses that the clause i subsumes are no longer needed.
LEMMA SubsumedFacts ==
  ASSUME NEW n \in Nat, NEW chrono, NEW d, NEW t, Resting(chrono, n, d, t),
         NEW o, NEW i \in DOMAIN d, NEW l, Drives(n, t, d[i].lits, l)
  PROVE  LET s == EagerlySubsume(o, d, i)
         IN  /\ Resting(chrono, n, s, t) /\ DOMAIN s = DOMAIN d /\ s[i] = d[i]
             /\ \A j \in DOMAIN d : s[j].lits = d[j].lits
             /\ \A T : AllHold(T, s) <=> AllHold(T, d)
             /\ \A T : CoreHolds(T, s) => CoreHolds(T, d)
<1> DEFINE s == EagerlySubsume(o, d, i)
           Gone(j) == o.eagersubsume /\ j # i /\ d[j].redundant /\ d[i].lits \subseteq d[j].lits
<1>1. IsDatabase(n, d) /\ Shape(t)
  BY DEF Resting
<1>2. \A j \in DOMAIN d : d[j] \in Clauses(n) /\ d[j].garbage \in BOOLEAN
  BY <1>1, ClauseTypes
<1>3. /\ DOMAIN s = DOMAIN d /\ s = [j \in DOMAIN s |-> s[j]]
      /\ \A j \in DOMAIN d : s[j] = IF Gone(j) THEN [d[j] EXCEPT !.garbage = TRUE] ELSE d[j]
  BY DEF EagerlySubsume
<1>4. \A j \in DOMAIN d : Gone(j) => d[j].redundant /\ d[i].lits \subseteq d[j].lits /\ j # i
  OBVIOUS
<1> HIDE DEF s, Gone
<1>5. \A j \in DOMAIN d :
        /\ s[j].lits = d[j].lits /\ s[j].watch = d[j].watch /\ s[j].redundant = d[j].redundant
        /\ ~s[j].garbage <=> ~d[j].garbage /\ ~Gone(j)
        /\ s[j] \in Clauses(n)
  <2> SUFFICES ASSUME NEW j \in DOMAIN d
               PROVE  /\ s[j].lits = d[j].lits /\ s[j].watch = d[j].watch
                      /\ s[j].redundant = d[j].redundant
                      /\ ~s[j].garbage <=> ~d[j].garbage /\ ~Gone(j)
                      /\ s[j] \in Clauses(n)
    OBVIOUS
  <2>1. CASE ~Gone(j)
    BY <2>1, <1>2, <1>3
  <2>2. CASE Gone(j)
    <3>1. s[j] = [lits |-> d[j].lits, watch |-> d[j].watch, redundant |-> d[j].redundant,
                  garbage |-> TRUE]
      BY <2>2, <1>2, <1>3, ClauseFields
    <3> QED
      BY <2>2, <3>1, <1>2 DEF Clauses
  <2> QED
    BY <2>1, <2>2
<1>6. IsDatabase(n, s)
  BY <1>1, <1>3, <1>5 DEF IsDatabase, Watching
<1>7. Watched(t, s)
  BY <1>3, <1>5 DEF Resting, Watched, Settled, WatchOK, Raised
<1>8. ASSUME NEW k \in Positions(t), t.trail[k].level < Level(t) \/ k <= 0
      PROVE  Reasoned(s, t, k) /\ Protected(s, t, k)
  <2> DEFINE j == t.trail[k].reason
  <2>1. Reasoned(d, t, k) /\ Protected(d, t, k)
    BY <1>8 DEF Resting, GraphBelow
  <2>2. Reasoned(s, t, k)
    BY <2>1, <1>3, <1>5 DEF Reasoned
  <2>3. ASSUME j # NoReason, Gone(j) PROVE FALSE
    <3>1. /\ j \in DOMAIN d
          /\ \A x \in d[j].lits \ {t.trail[k].lit} :
               Val(t, x) = -1 /\ LevelOf(t, x) <= t.trail[k].level
      BY <2>1, <2>3 DEF Reasoned
    <3>2. l \in d[j].lits /\ Val(t, l) = -1 /\ LevelOf(t, l) = Level(t) /\ l \in LitsOf(n)
      BY <2>3, <3>1, <1>1, <1>4, FalseTypes DEF Drives, Loose
    <3>3. t.trail[k].level < Level(t) /\ t.trail[k].level \in Nat /\ Level(t) \in Nat
      BY <1>1, <1>8, TrailTypes DEF Shape, Positions
    <3>4. l # t.trail[k].lit
      <4>1. Val(t, t.trail[k].lit) = 1
        BY <1>1, AtPosition DEF Shape
      <4> QED
        BY <4>1, <3>2
    <3> QED
      BY <3>1, <3>2, <3>3, <3>4
  <2>4. Protected(s, t, k)
    <3> SUFFICES ASSUME j # NoReason, Cardinality(s[j].lits) > 2 PROVE ~s[j].garbage
      BY DEF Protected
    <3>1. j \in DOMAIN d
      BY <2>1 DEF Reasoned
    <3>2. ~d[j].garbage
      BY <2>1, <3>1, <1>5 DEF Protected
    <3> QED
      BY <2>3, <3>1, <3>2, <1>5
  <2> QED
    BY <2>2, <2>4
<1>9. Resting(chrono, n, s, t)
  BY <1>6, <1>7, <1>8 DEF Resting, GraphBelow
<1>10. s[i] = d[i]
  BY <1>3, <1>4
<1>11. \A T : AllHold(T, s) <=> AllHold(T, d)
  BY <1>3, <1>5 DEF AllHold
<1>12. \A T : CoreHolds(T, s) => CoreHolds(T, d)
  BY <1>3, <1>4, <1>5 DEF CoreHolds
<1> QED
  BY <1>3, <1>5, <1>9, <1>10, <1>11, <1>12 DEF s

\* A clause the search may have.
GoodClause(n, c) == c \in Clauses(n) /\ Cardinality(c.lits) >= 2 /\ Watching(c)

\* s is d with clause c, which is called i.
Added(n, d, c, s, i) ==
  /\ IsDatabase(n, s) /\ DOMAIN s = DOMAIN d \cup {i} /\ s[i] = c
  /\ \A j \in DOMAIN d : s[j] = d[j] /\ j # i

\* That is what AddTo does.
LEMMA AddToAdds ==
  ASSUME NEW n \in Nat, NEW d, IsDatabase(n, d), NEW c, GoodClause(n, c)
  PROVE  Added(n, d, c, AddTo(d, c), FreshId(d))
<1>1. c \in Clauses(n) /\ Cardinality(c.lits) >= 2 /\ Watching(c)
  BY DEF GoodClause
<1> QED
  BY <1>1, AddToFacts DEF Added

\* A learned clause that watches its literal of the current level is added.
LEMMA LearnedAdded ==
  ASSUME NEW n \in Nat, NEW chrono, NEW d, NEW t, Resting(chrono, n, d, t),
         NEW lits, NEW l, Drives(n, t, lits, l), NEW x \in lits, x # l,
         NEW c, c = Clause(lits, {l, x}, TRUE)
  PROVE  LET s == AddTo(d, c)
             i == FreshId(d)
         IN  /\ Resting(chrono, n, s, t) /\ i \in DOMAIN s /\ s[i].lits = lits
             /\ ~s[i].garbage /\ i # NoReason
             /\ \A T : Good(T, t, d) /\ SatClause(T, lits) => Good(T, t, s)
             /\ \A T : CoreHolds(T, s) => CoreHolds(T, d)
<1> DEFINE s == AddTo(d, c)
           i == FreshId(d)
<1>1. IsDatabase(n, d) /\ Shape(t)
  BY DEF Resting
<1>2. /\ \A k \in lits : k \in LitsOf(n) /\ Val(t, k) = -1 /\ LevelOf(t, k) > 0
      /\ l \in lits /\ LevelOf(t, l) = Level(t)
  BY <1>1, FalseTypes DEF Drives, Loose
<1>3. c.lits = lits /\ c.watch = {l, x} /\ c.redundant = TRUE /\ c.garbage = FALSE
      /\ c \in Clauses(n) /\ Watching(c)
  <2>1. c = [lits |-> lits, watch |-> {l, x}, redundant |-> TRUE, garbage |-> FALSE]
    BY DEF Clause
  <2>2. lits \subseteq LitsOf(n) /\ {l, x} \subseteq LitsOf(n)
    BY <1>2
  <2>3. c.lits = lits /\ c.watch = {l, x} /\ c.redundant = TRUE /\ c.garbage = FALSE
    BY ONLY <2>1
  <2>4. Watching(c)
    BY <2>3, <1>2 DEF Watching
  <2> QED
    BY <2>1, <2>2, <2>3, <2>4 DEF Clauses
<1>4. Cardinality(c.lits) >= 2
  <2>1. IsFiniteSet(lits) /\ {l, x} \subseteq lits
    BY <1>2, LitsFinite
  <2>2. Cardinality({l, x}) = 2
    <3>1. IsFiniteSet({x}) /\ Cardinality({x}) = 1
      BY FS_Singleton
    <3>2. Cardinality({x} \cup {l}) = Cardinality({x}) + 1
      BY <3>1, FS_AddElement
    <3>3. {x} \cup {l} = {l, x}
      OBVIOUS
    <3> QED
      BY <3>1, <3>2, <3>3
  <2>3. Cardinality({l, x}) <= Cardinality(lits)
    BY <2>1, FS_Subset
  <2>4. Cardinality(lits) \in Nat
    BY <2>1, FS_CardinalityType
  <2> QED
    BY <2>2, <2>3, <2>4, <1>3
<1>5. /\ IsDatabase(n, s) /\ DOMAIN s = DOMAIN d \cup {i} /\ s[i] = c
      /\ \A j \in DOMAIN d : s[j] = d[j] /\ j # i
  <2>1. GoodClause(n, c)
    BY <1>3, <1>4 DEF GoodClause
  <2>2. Added(n, d, c, s, i)
    BY <1>1, <2>1, AddToAdds
  <2> QED
    BY <2>2 DEF Added
<1>6. i \in Nat \ {0} /\ i \notin DOMAIN d
  BY <1>1, FreshFacts
<1> HIDE DEF s, i
<1>7. GraphBelow(s, t, 0)
  BY <1>5 DEF Resting, GraphBelow, Reasoned, Protected
<1>8. Raised(t, c)
  BY <1>2, <1>3 DEF Raised
<1>9. Watched(t, s)
  BY <1>5, <1>8 DEF Resting, Watched, Settled
<1>10. Resting(chrono, n, s, t)
  BY <1>5, <1>7, <1>9 DEF Resting
<1>11. ASSUME NEW T, Good(T, t, d), SatClause(T, lits) PROVE Good(T, t, s)
  BY <1>3, <1>5, <1>11 DEF Good, AllHold
<1>12. \A T : CoreHolds(T, s) => CoreHolds(T, d)
  BY <1>5 DEF CoreHolds
<1>13. i \in DOMAIN s /\ s[i].lits = lits /\ ~s[i].garbage /\ i # NoReason
  BY <1>3, <1>5, <1>6 DEF NoReason
<1> QED
  BY <1>10, <1>11, <1>12, <1>13 DEF s, i

\* The learned clause drives the search.
LEMMA DriveFacts ==
  ASSUME NEW n \in Nat, NEW db, NEW t, NEW o, o.chrono \in Nat,
         Resting(o.chrono, n, db, t), Level(t) > 0,
         NEW a, Analyzed(n, t, db, a),
         NEW c, Drives(n, t, c, -a.uip), Follows(t, db, c), NEW assumptions,
         NEW r \in Drive(o, a, t, c, assumptions)
  PROVE  GoesOn(o.chrono, n, db, t, r)
<1> DEFINE uip == -a.uip
           rest == c \ {uip}
           jump == MaxLevel(t, rest)
           second == CHOOSE l \in rest : \A k \in rest :
                       \/ LevelOf(t, l) > LevelOf(t, k)
                       \/ LevelOf(t, l) = LevelOf(t, k) /\ Pos(t, l) >= Pos(t, k)
           i == FreshId(a.db)
           id == IF rest = {} THEN NoReason ELSE i
           s == AddTo(a.db, Clause(c, {uip, second}, TRUE))
<1>1. /\ Resting(o.chrono, n, a.db, t) /\ Shape(t) /\ Level(t) \in Nat
      /\ Refined(n, t, db, a.db)
  <2>1. Resting(o.chrono, n, a.db, t)
    BY AnalyzedResting
  <2>2. Shape(t) /\ Refined(n, t, db, a.db)
    BY DEF Resting, Analyzed
  <2>3. Level(t) \in Nat
    BY <2>2, TrailTypes DEF Shape
  <2> QED
    BY <2>1, <2>2, <2>3
<1>2. \A T : Good(T, t, db) => Good(T, t, a.db) /\ SatClause(T, c)
  BY <1>1 DEF Refined, Good, Follows
<1>3. \A T : RootHolds(T, t) /\ CoreHolds(T, a.db) => CoreHolds(T, db)
  BY <1>1 DEF Refined
<1>4. uip \in c /\ jump \in Nat /\ jump < Level(t) /\ Drives(n, t, c, uip)
  BY <1>1, JumpFacts DEF Drives
<1>5. PICK m \in DetermineActualBacktrackLevel(o, t, jump, assumptions),
           d \in {IF rest = {} THEN a.db ELSE s} :
        r = Outcome(IF id = NoReason THEN d ELSE EagerlySubsume(o, d, id),
                    SearchAssign(o.chrono, d, Backtrack(t, m), uip, id), FALSE)
  <2> DEFINE D == {IF rest = {} THEN a.db ELSE s}
             L == DetermineActualBacktrackLevel(o, t, jump, assumptions)
             Out(m, d) == Outcome(IF id = NoReason THEN d ELSE EagerlySubsume(o, d, id),
                                  SearchAssign(o.chrono, d, Backtrack(t, m), uip, id), FALSE)
  <2>1. Drive(o, a, t, c, assumptions) = {Out(m, d) : m \in L, d \in D}
    BY DEF Drive
  <2> HIDE DEF D, L, Out
  <2>2. \E m \in L, d \in D : r = Out(m, d)
    BY <2>1
  <2> QED
    BY <2>2 DEF D, L, Out
<1>6. m \in Nat /\ jump <= m /\ m < Level(t) /\ (o.chrono = 0 => m = jump)
  BY <1>1, <1>4, BacktrackLevelFacts
<1>7. rest # {} => second \in rest
  <2>1. FalseLits(n, t, rest)
    BY DEF Drives, Loose, FalseLits
  <2> QED
    BY <1>1, <2>1, LatestExists
<1> HIDE DEF second, uip, s, i
<1>8. CASE rest = {}
  <2>1. d = a.db /\ id = NoReason /\ c = {uip}
    BY <1>4, <1>5, <1>8
  <2>2. jump = 0
    <3>1. {0} \cup {LevelOf(t, k) : k \in rest} = {0}
      BY <1>8
    <3>2. Max({0}) \in {0}
      BY MaxIsGreatest
    <3> QED
      BY <3>1, <3>2 DEF MaxLevel
  <2> DEFINE v == SearchAssign(o.chrono, a.db, Backtrack(t, m), uip, NoReason)
  <2> HIDE DEF rest, jump, id
  <2>3. Resumes(o.chrono, n, t, a.db, c, v)
    BY <1>1, <1>4, <1>6, <2>1, <2>2, DriveByUnit
  <2>4. r.db = a.db /\ r.t = v /\ r.unsat = FALSE
    BY <1>5, <2>1 DEF Outcome
  <2> HIDE DEF v
  <2> QED
    BY <1>2, <1>3, <2>3, <2>4 DEF Resumes, GoesOn, Good
<1>9. CASE rest # {}
  <2>1. second \in c /\ second # uip
    BY <1>7, <1>9
  <2>2. /\ Resting(o.chrono, n, s, t) /\ i \in DOMAIN s /\ s[i].lits = c
        /\ ~s[i].garbage /\ i # NoReason
        /\ \A T : Good(T, t, a.db) /\ SatClause(T, c) => Good(T, t, s)
        /\ \A T : CoreHolds(T, s) => CoreHolds(T, a.db)
    BY <1>1, <1>4, <2>1, LearnedAdded, ZenonT(60) DEF s, i
  <2>3. d = s /\ id = i
    BY <1>5, <1>9
  <2> DEFINE e == EagerlySubsume(o, s, i)
             v == SearchAssign(o.chrono, s, Backtrack(t, m), uip, i)
  <2>4. r.db = e /\ r.t = v /\ r.unsat = FALSE
    BY <1>5, <2>2, <2>3 DEF Outcome
  <2>5. /\ Resting(o.chrono, n, e, t) /\ DOMAIN e = DOMAIN s /\ e[i] = s[i]
        /\ \A j \in DOMAIN s : e[j].lits = s[j].lits
        /\ \A T : AllHold(T, e) <=> AllHold(T, s)
        /\ \A T : CoreHolds(T, e) => CoreHolds(T, s)
    <3>1. Drives(n, t, s[i].lits, uip)
      BY <1>4, <2>2
    <3> QED
      BY <2>2, <3>1, SubsumedFacts
  <2>6. v = SearchAssign(o.chrono, e, Backtrack(t, m), uip, i)
    BY <2>2, <2>5 DEF SearchAssign, AssignmentLevel
  <2> HIDE DEF e, v
  <2>7. Resumes(o.chrono, n, t, e, c, v)
    <3>1. i \in DOMAIN e /\ e[i].lits = c /\ ~e[i].garbage /\ Drives(n, t, e[i].lits, uip)
      BY <1>4, <2>2, <2>5
    <3>2. MaxLevel(t, e[i].lits \ {uip}) = jump
      BY <3>1
    <3> HIDE DEF jump
    <3>3. Resumes(o.chrono, n, t, e, e[i].lits, SearchAssign(o.chrono, e, Backtrack(t, m), uip, i))
      BY <1>6, <2>5, <3>1, <3>2, DriveByClause
    <3> QED
      BY <3>1, <3>3, <2>6
  <2>8. \A T : Good(T, t, db) => Good(T, t, e) /\ SatClause(T, c)
    BY <1>2, <2>2, <2>5 DEF Good
  <2>9. \A T : RootHolds(T, t) /\ CoreHolds(T, e) => CoreHolds(T, db)
    BY <1>3, <2>2, <2>5
  <2> QED
    BY <2>4, <2>7, <2>8, <2>9 DEF Resumes, GoesOn, Good
<1> QED
  BY <1>8, <1>9

\* Analysis on the level of a conflict: at the root level it refutes the
\* clauses, and otherwise the search goes on.
LEMMA AnalyzeOnLevelFacts ==
  ASSUME NEW n \in Nat, NEW db, NEW t, NEW o, o.chrono \in Nat,
         Founded(o.chrono, n, db, t), Watched(t, db), Level(t) > 0,
         NEW conflict, Falsifies(n, db, t, conflict), NEW assumptions,
         NEW r \in AnalyzeOnLevel(o, db, t, conflict, assumptions)
  PROVE  GoesOn(o.chrono, n, db, t, r)
<1> DEFINE a == FirstUip(o, db, t, conflict)
           c == LearnedClause(o, a, t)
<1>1. Shape(t) /\ Over(n, t)
  BY DEF Founded
<1>2. Resting(o.chrono, n, db, t)
  <2>1. GraphBelow(db, t, 0)
    BY DEF Founded, Graph, GraphBelow
  <2> QED
    BY <2>1 DEF Founded, Resting
<1>3. Analyzed(n, t, db, a)
  BY FirstUipFacts
<1>4. Level(t) # 0
  OBVIOUS
<1>5. r \in IF a.otfs THEN OtfsDrive(o, a, t, assumptions) ELSE Drive(o, a, t, c, assumptions)
  BY <1>4 DEF AnalyzeOnLevel
<1> HIDE DEF a
<1>6. CASE a.otfs
  BY <1>2, <1>3, <1>5, <1>6, OtfsDriveFacts
<1>7. CASE ~a.otfs
  <2>1. Drives(n, t, c, -a.uip) /\ Follows(t, db, c)
    BY <1>1, <1>3, <1>7, LearnedFacts
  <2>2. r \in Drive(o, a, t, c, assumptions)
    BY <1>5, <1>7
  <2> HIDE DEF c
  <2> QED
    BY <1>2, <1>3, <2>1, <2>2, DriveFacts
<1> QED
  BY <1>6, <1>7
-----------------------------------------------------------------------------
(* A conflict whose level is below the current one.                        *)

\* A clause with no true literal and only units refutes the clauses.
LEMMA RootConflict ==
  ASSUME NEW n \in Nat, NEW t, Shape(t), NEW db, NEW i \in DOMAIN db,
         FalseLits(n, t, db[i].lits), \A l \in db[i].lits : LevelOf(t, l) = 0
  PROVE  \A T : ~Good(T, t, db)
<1> SUFFICES ASSUME NEW T, Good(T, t, db) PROVE FALSE
  OBVIOUS
<1>1. PICK l \in db[i].lits : SatLit(T, l)
  BY DEF Good, AllHold, SatClause
<1>2. l \in LitsOf(n) /\ Val(t, l) = -1 /\ LevelOf(t, l) = 0
  BY FalseTypes
<1> QED
  BY <1>1, <1>2, RootValue DEF Good

\* A set with two elements.
LEMMA PairElements ==
  ASSUME NEW p, IsFiniteSet(p), Cardinality(p) = 2
  PROVE  \E a, b \in p : a # b /\ p = {a, b}
<1>1. p # {}
  BY FS_EmptySet
<1>2. PICK a \in p : TRUE
  BY <1>1
<1>3. IsFiniteSet(p \ {a}) /\ Cardinality(p \ {a}) = 1
  BY <1>2, WithoutOne
<1>4. p \ {a} # {}
  BY <1>3, FS_EmptySet
<1>5. PICK b \in p \ {a} : TRUE
  BY <1>4
<1>6. IsFiniteSet((p \ {a}) \ {b}) /\ Cardinality((p \ {a}) \ {b}) = 0
  BY <1>3, <1>5, WithoutOne
<1>7. (p \ {a}) \ {b} = {}
  BY <1>6, FS_EmptySet
<1> QED
  BY <1>2, <1>5, <1>7

\* The literals a and b are the highest of lits.
Highest(t, lits, a, b) ==
  /\ a \in lits /\ b \in lits /\ a # b
  /\ \A k \in lits : LevelOf(t, k) <= LevelOf(t, a)
  /\ \A k \in lits \ {a} : LevelOf(t, k) <= LevelOf(t, b)

\* The two literals of the highest levels.
LEMMA HighestPairFacts ==
  ASSUME NEW n, NEW t, Shape(t), NEW c, FalseLits(n, t, c.lits), IsFiniteSet(c.lits),
         NEW w \in HighestPairs(t, c)
  PROVE  \E a, b \in c.lits : w = {a, b} /\ Highest(t, c.lits, a, b)
<1>1. /\ w \in Pairs(c.lits)
      /\ \A l \in w, k \in c.lits \ w : LevelOf(t, l) >= LevelOf(t, k)
  BY DEF HighestPairs, ClosestTo
<1>2. w \subseteq c.lits /\ Cardinality(w) = 2 /\ IsFiniteSet(w)
  BY <1>1, FS_Subset DEF Pairs
<1>3. PICK x, y \in w : x # y /\ w = {x, y}
  BY <1>2, PairElements
<1>4. \A k \in c.lits : LevelOf(t, k) \in Nat
  BY FalseTypes
<1>5. \E a, b \in w : a # b /\ w = {a, b} /\ LevelOf(t, b) <= LevelOf(t, a)
  <2>1. LevelOf(t, x) \in Nat /\ LevelOf(t, y) \in Nat
    BY <1>2, <1>4
  <2>2. CASE LevelOf(t, y) <= LevelOf(t, x)
    BY <1>3, <2>2
  <2>3. CASE LevelOf(t, x) <= LevelOf(t, y)
    <3>1. w = {y, x}
      BY <1>3
    <3> QED
      BY <1>3, <2>3, <3>1
  <2>4. \A j, k \in Nat : j <= k \/ k <= j
    OBVIOUS
  <2> QED
    BY <2>1, <2>2, <2>3, <2>4
<1>6. PICK a, b \in w : a # b /\ w = {a, b} /\ LevelOf(t, b) <= LevelOf(t, a)
  BY <1>5
<1>7. a \in c.lits /\ b \in c.lits /\ LevelOf(t, a) \in Nat /\ LevelOf(t, b) \in Nat
  BY <1>2, <1>4, <1>6
<1>8. \A k \in c.lits : LevelOf(t, k) <= LevelOf(t, a)
  <2> SUFFICES ASSUME NEW k \in c.lits PROVE LevelOf(t, k) <= LevelOf(t, a)
    OBVIOUS
  <2>1. k \notin w => LevelOf(t, a) >= LevelOf(t, k)
    BY <1>1, <1>6
  <2> QED
    BY <2>1, <1>4, <1>6, <1>7
<1>9. \A k \in c.lits \ {a} : LevelOf(t, k) <= LevelOf(t, b)
  <2> SUFFICES ASSUME NEW k \in c.lits, k # a PROVE LevelOf(t, k) <= LevelOf(t, b)
    OBVIOUS
  <2>1. k \notin w => LevelOf(t, b) >= LevelOf(t, k)
    BY <1>1, <1>6
  <2> QED
    BY <2>1, <1>4, <1>6, <1>7
<1> QED
  BY <1>6, <1>7, <1>8, <1>9 DEF Highest

\* d is db where the clause conflict watches a and b.
Rewatched(n, db, d, conflict, a, b) ==
  /\ IsDatabase(n, d) /\ DOMAIN d = DOMAIN db
  /\ \A i \in DOMAIN db :
       /\ d[i].lits = db[i].lits /\ d[i].redundant = db[i].redundant
       /\ d[i].garbage = db[i].garbage
       /\ i # conflict => d[i].watch = db[i].watch
  /\ d[conflict].watch = {a, b}

\* The databases in which a falsified clause watches its highest literals.
LEMMA FindLevelFacts ==
  ASSUME NEW n \in Nat, NEW db, IsDatabase(n, db), NEW t, Shape(t),
         NEW conflict \in DOMAIN db, FalseLits(n, t, db[conflict].lits),
         NEW d \in FindConflictLevel(db, t, conflict)
  PROVE  \E a, b : Highest(t, db[conflict].lits, a, b) /\ Rewatched(n, db, d, conflict, a, b)
<1>1. PICK w \in HighestPairs(t, db[conflict]) : d = [db EXCEPT ![conflict].watch = w]
  BY DEF FindConflictLevel
<1>2. /\ db[conflict] \in Clauses(n) /\ IsFiniteSet(db[conflict].lits)
      /\ Cardinality(db[conflict].lits) >= 2 /\ db[conflict].lits \subseteq LitsOf(n)
  BY ClauseTypes
<1>3. PICK a, b \in db[conflict].lits : w = {a, b} /\ Highest(t, db[conflict].lits, a, b)
  BY <1>1, <1>2, HighestPairFacts
<1> DEFINE c == [db[conflict] EXCEPT !.watch = w]
<1>4. c = [lits |-> db[conflict].lits, watch |-> w, redundant |-> db[conflict].redundant,
           garbage |-> db[conflict].garbage]
  BY <1>2, ClauseFields
<1>5. /\ c.lits = db[conflict].lits /\ c.watch = {a, b} /\ c.redundant = db[conflict].redundant
      /\ c.garbage = db[conflict].garbage /\ c \in Clauses(n)
  BY <1>2, <1>3, <1>4 DEF Clauses
<1>6. d = [db EXCEPT ![conflict] = c]
  BY <1>1
<1> HIDE DEF c
<1>7. /\ DOMAIN d = DOMAIN db /\ d[conflict] = c /\ d = [i \in DOMAIN d |-> d[i]]
      /\ \A i \in DOMAIN db : i # conflict => d[i] = db[i]
  BY <1>6
<1>8. Watching(c)
  BY <1>3, <1>5 DEF Watching, Highest
<1>9. IsDatabase(n, d)
  BY <1>2, <1>5, <1>7, <1>8 DEF IsDatabase
<1>10. Rewatched(n, db, d, conflict, a, b)
  BY <1>5, <1>7, <1>9 DEF Rewatched
<1> QED
  BY <1>3, <1>10

\* What the watches do not change.
LEMMA RewatchedFacts ==
  ASSUME NEW n, NEW db, NEW d, NEW conflict, NEW a, NEW b, Rewatched(n, db, d, conflict, a, b),
         NEW t
  PROVE  /\ \A T : AllHold(T, d) <=> AllHold(T, db)
         /\ \A T : CoreHolds(T, d) <=> CoreHolds(T, db)
         /\ \A k \in Positions(t) : Reasoned(db, t, k) => Reasoned(d, t, k)
         /\ \A k \in Positions(t) : Reasoned(db, t, k) /\ Protected(db, t, k) => Protected(d, t, k)
         /\ \A i \in DOMAIN db : i # conflict /\ Settled(t, db[i]) => Settled(t, d[i])
<1>1. /\ \A T : AllHold(T, d) <=> AllHold(T, db)
      /\ \A T : CoreHolds(T, d) <=> CoreHolds(T, db)
  BY DEF Rewatched, AllHold, CoreHolds
<1>2. \A k \in Positions(t) : Reasoned(db, t, k) => Reasoned(d, t, k)
  BY DEF Rewatched, Reasoned
<1>3. \A k \in Positions(t) : Reasoned(db, t, k) /\ Protected(db, t, k) => Protected(d, t, k)
  BY DEF Rewatched, Reasoned, Protected
<1>4. \A i \in DOMAIN db : i # conflict /\ Settled(t, db[i]) => Settled(t, d[i])
  BY DEF Rewatched, Settled, WatchOK, Raised
<1> QED
  BY <1>1, <1>2, <1>3, <1>4

\* When a falsified clause has a single literal on its highest level.
LEMMA ForcedFacts ==
  ASSUME NEW n, NEW t, Shape(t), NEW c, FalseLits(n, t, c.lits), IsFiniteSet(c.lits),
         NEW a, NEW b, Highest(t, c.lits, a, b)
  PROVE  /\ MaxLevel(t, c.lits) = LevelOf(t, a)
         /\ \A l \in Forced(t, c) : l = a /\ LevelOf(t, b) < LevelOf(t, a)
         /\ Forced(t, c) = {} => LevelOf(t, b) = LevelOf(t, a)
<1> DEFINE top == {l \in c.lits : LevelOf(t, l) = LevelOf(t, a)}
<1>1. /\ a \in c.lits /\ b \in c.lits /\ a # b
      /\ \A k \in c.lits : LevelOf(t, k) <= LevelOf(t, a)
      /\ \A k \in c.lits \ {a} : LevelOf(t, k) <= LevelOf(t, b)
  BY DEF Highest
<1>2. \A k \in c.lits : k \in Int /\ LevelOf(t, k) \in Nat /\ Val(t, k) # 0
  BY FalseTypes
<1>3. MaxLevel(t, c.lits) = LevelOf(t, a)
  <2>1. /\ MaxLevel(t, c.lits) \in Nat
        /\ \A l \in c.lits : LevelOf(t, l) <= MaxLevel(t, c.lits)
        /\ MaxLevel(t, c.lits) # 0 => \E l \in c.lits : LevelOf(t, l) = MaxLevel(t, c.lits)
    <3>1. c.lits \subseteq Int
      BY <1>2
    <3> QED
      BY <3>1, <1>2, MaxLevelFacts
  <2>2. LevelOf(t, a) <= MaxLevel(t, c.lits) /\ LevelOf(t, a) \in Nat
    BY <1>1, <1>2, <2>1
  <2>3. MaxLevel(t, c.lits) # 0 => MaxLevel(t, c.lits) <= LevelOf(t, a)
    BY <1>1, <2>1
  <2>4. \A x, y \in Nat : x <= y /\ (y # 0 => y <= x) => x = y
    OBVIOUS
  <2> QED
    BY <2>1, <2>2, <2>3, <2>4
<1>4. Forced(t, c) = IF Cardinality(top) = 1 THEN top ELSE {}
  BY <1>3 DEF Forced
<1>5. IsFiniteSet(top) /\ a \in top
  <2>1. top \subseteq c.lits
    OBVIOUS
  <2>2. a \in top
    BY <1>1
  <2> QED
    BY <2>1, <2>2, FS_Subset
<1>6. IsFiniteSet(top \ {a}) /\ Cardinality(top) \in Nat /\ Cardinality(top \ {a}) = Cardinality(top) - 1
  BY <1>5, WithoutOne
<1>7. ASSUME Cardinality(top) = 1 PROVE top = {a} /\ LevelOf(t, b) < LevelOf(t, a)
  <2>1. Cardinality(top \ {a}) = 0
    BY <1>6, <1>7
  <2>2. top \ {a} = {}
    BY <2>1, <1>6, FS_EmptySet
  <2>3. b \notin top
    BY <2>2, <1>1
  <2>4. LevelOf(t, b) # LevelOf(t, a)
    BY <2>3, <1>1
  <2>5. LevelOf(t, b) <= LevelOf(t, a) /\ LevelOf(t, b) \in Nat /\ LevelOf(t, a) \in Nat
    BY <1>1, <1>2
  <2>6. top = {a}
    BY <2>2, <1>5
  <2> QED
    BY <2>4, <2>5, <2>6
<1>8. ASSUME Cardinality(top) # 1 PROVE LevelOf(t, b) = LevelOf(t, a)
  <2>1. Cardinality(top \ {a}) # 0
    BY <1>6, <1>8
  <2>2. top \ {a} # {}
    BY <2>1, FS_EmptySet
  <2>3. PICK x \in top : x # a
    BY <2>2
  <2>4. x \in c.lits /\ x # a /\ LevelOf(t, x) = LevelOf(t, a)
    BY <2>3
  <2>5. LevelOf(t, a) <= LevelOf(t, b) /\ LevelOf(t, b) <= LevelOf(t, a)
        /\ LevelOf(t, b) \in Nat /\ LevelOf(t, a) \in Nat
    BY <1>1, <1>2, <2>4
  <2> QED
    BY <2>5
<1>9. top # {}
  BY <1>5
<1> HIDE DEF top
<1> QED
  BY <1>3, <1>4, <1>7, <1>8, <1>9

\* What a conflict is given to the analysis with.
Conflicting(chrono, n, db, t, conflict) ==
  /\ Founded(chrono, n, db, t) /\ (Level(t) > 0 => Watched(t, db))
  /\ conflict \in DOMAIN db /\ FalseLits(n, t, db[conflict].lits)
  /\ Cardinality(db[conflict].lits) > 2 => ~db[conflict].garbage

\* The single literal of the highest level is flipped.
LEMMA FlipFacts ==
  ASSUME NEW n \in Nat, NEW chrono \in Nat, chrono > 0, NEW db, NEW t, NEW conflict,
         Conflicting(chrono, n, db, t, conflict), NEW a, NEW b,
         Highest(t, db[conflict].lits, a, b), LevelOf(t, b) < LevelOf(t, a),
         NEW d, Rewatched(n, db, d, conflict, a, b),
         NEW m, m = LevelOf(t, a) - 1
  PROVE  Resumes(chrono, n, t, d, d[conflict].lits,
                 SearchAssign(chrono, d, Backtrack(t, m), a, conflict))
<1> DEFINE lits == db[conflict].lits
           u == Backtrack(t, m)
           v == SearchAssign(chrono, d, u, a, conflict)
           e == ForcedEntry(d, u, conflict, a)
<1>1. /\ Founded(chrono, n, db, t) /\ IsDatabase(n, db) /\ Shape(t)
      /\ Over(n, t) /\ Graph(db, t) /\ conflict \in DOMAIN db
      /\ Level(t) > 0 => Watched(t, db)
  BY DEF Conflicting, Founded
<1>2. \A k \in lits : k \in Int /\ k \in LitsOf(n) /\ Val(t, k) = -1
                      /\ LevelOf(t, k) \in Nat /\ LevelOf(t, k) <= Level(t)
  BY <1>1, FalseTypes DEF Conflicting
<1>3. a \in lits /\ b \in lits /\ a # b /\ \A k \in lits \ {a} : LevelOf(t, k) <= LevelOf(t, b)
  BY DEF Highest
<1>4. m \in Nat /\ m < Level(t) /\ Level(t) \in Nat /\ m < LevelOf(t, a) /\ LevelOf(t, b) <= m
      /\ \A k \in lits \ {a} : LevelOf(t, k) <= m
  <2>1. LevelOf(t, a) \in Nat /\ LevelOf(t, b) \in Nat /\ LevelOf(t, a) <= Level(t)
    BY <1>2, <1>3
  <2>2. Level(t) \in Nat
    BY <1>1, TrailTypes DEF Shape
  <2>3. m \in Nat /\ m < Level(t) /\ m < LevelOf(t, a) /\ LevelOf(t, b) <= m
    BY <2>1, <2>2
  <2>4. \A k \in lits \ {a} : LevelOf(t, k) <= LevelOf(t, b) /\ LevelOf(t, k) \in Nat
    BY <1>2, <1>3
  <2>5. \A x \in Nat : x <= LevelOf(t, b) => x <= m
    BY <2>1, <2>3
  <2> QED
    BY <2>2, <2>3, <2>4, <2>5
<1>5. /\ IsDatabase(n, d) /\ DOMAIN d = DOMAIN db /\ d[conflict].lits = lits
      /\ d[conflict].garbage = db[conflict].garbage /\ d[conflict].watch = {a, b}
      /\ \A i \in DOMAIN db : d[i].garbage = db[i].garbage
  BY <1>1 DEF Rewatched
<1>6. GraphBelow(d, t, 0)
  BY <1>1, RewatchedFacts DEF Graph, GraphBelow
<1>7. /\ Founded(chrono, n, d, u) /\ KeepsLevels(t, u, m) /\ Retains(t, u)
      /\ \A T : RootHolds(T, u) <=> RootHolds(T, t)
      /\ Shape(u)
  <2>1. chrono # 0
    OBVIOUS
  <2> QED
    BY <1>1, <1>4, <1>5, <1>6, <2>1, FoundedBacktrack DEF Founded
<1> HIDE DEF u
<1>8. /\ Val(u, a) = 0
      /\ \A k \in lits \ {a} : Val(u, k) = -1 /\ LevelOf(u, k) = LevelOf(t, k)
  <2>1. \A k \in lits : Kept(t, u, k, m)
    BY <1>2, <1>7 DEF KeepsLevels
  <2>2. Val(u, a) = 0
    <3>1. ~(LevelOf(t, a) <= m)
      BY <1>2, <1>3, <1>4
    <3> QED
      BY <2>1, <3>1, <1>3 DEF Kept
  <2>3. \A k \in lits \ {a} : Val(u, k) = -1 /\ LevelOf(u, k) = LevelOf(t, k)
    BY <2>1, <1>2, <1>4 DEF Kept
  <2> QED
    BY <2>2, <2>3
<1>9. Forces(chrono, d, u, conflict, a)
  BY <1>1, <1>3, <1>5, <1>8 DEF Forces, Conflicting
<1>10. /\ Founded(chrono, n, d, v) /\ ImpliedOnTop(u, v, e)
       /\ \A T : AllHold(T, d) /\ RootHolds(T, u) => RootHolds(T, v)
  BY <1>7, <1>9, AssignByClause
<1>11. e.lit = a /\ e.level = MaxLevel(u, lits \ {a})
  BY <1>5 DEF ForcedEntry
<1> HIDE DEF v, e
<1>12. Shape(v) /\ v \in Trails
  BY <1>10 DEF Founded, Shape
<1>13. Retains(t, v)
  BY <1>1, <1>7, <1>10, <1>12, RetainsOnTop
<1>14. WatchOK(v, v.propagated, d[conflict])
  <2>1. u \in Trails /\ Distinct(u)
    BY <1>7 DEF Shape
  <2>2. /\ Val(v, a) = 1 /\ LevelOf(v, a) = MaxLevel(u, lits \ {a})
        /\ LevelOf(v, b) = LevelOf(u, b)
    <3>1. OnTop(u, v, e) /\ e \in Assignments /\ e.lit # 0 /\ Val(u, e.lit) = 0
      BY <1>10 DEF ImpliedOnTop
    <3>2. a \in Int /\ b \in Int /\ Val(u, b) # 0
      BY <1>2, <1>3, <1>8
    <3> QED
      BY <2>1, <3>1, <3>2, <1>8, <1>11, <1>12, OnTopView
  <2>3. ASSUME LevelOf(v, b) = 0 PROVE Cover(v, a, b)
    <3>1. \A k \in lits \ {a} : LevelOf(u, k) <= 0
      <4>1. LevelOf(t, b) = 0
        BY <1>3, <1>8, <2>2, <2>3
      <4> QED
        BY <4>1, <1>3, <1>8
    <3>2. LevelOf(v, a) = 0
      <4>1. lits \ {a} \subseteq Int /\ \A k \in lits \ {a} : Val(u, k) # 0
        BY <1>2, <1>8
      <4>2. /\ MaxLevel(u, lits \ {a}) \in Nat
            /\ MaxLevel(u, lits \ {a}) # 0 =>
                 \E l \in lits \ {a} : LevelOf(u, l) = MaxLevel(u, lits \ {a})
        BY <1>7, <4>1, MaxLevelFacts
      <4> QED
        BY <2>2, <3>1, <4>2
    <3> QED
      BY <2>3, <3>2 DEF Cover
  <2>4. ~DoneTo(v, v.propagated, a)
    BY <2>2 DEF DoneTo
  <2> QED
    BY <1>3, <1>5, <2>2, <2>3, <2>4 DEF WatchOK
<1>15. AllWatched(v, d)
  <2> SUFFICES ASSUME NEW j \in DOMAIN d, ~d[j].garbage PROVE WatchOK(v, v.propagated, d[j])
    BY DEF AllWatched
  <2>1. CASE j = conflict
    BY <1>14, <2>1
  <2>2. CASE j # conflict
    <3>1. d[j] \in Clauses(n)
      BY <1>5, ClauseTypes
    <3>2. Settled(t, d[j])
      BY <1>1, <1>4, <1>5, <2>2, RewatchedFacts DEF Watched
    <3>3. WatchOK(u, u.propagated, d[j])
      BY <1>1, <1>4, <1>7, <3>1, <3>2, SettledBacktrack
    <3> QED
      BY <1>7, <1>10, <1>12, <3>1, <3>3, WatchedOnTop
  <2> QED
    BY <2>1, <2>2
<1>16. \A T : Good(T, t, d) => RootHolds(T, v)
  BY <1>7, <1>10 DEF Good
<1>17. \A T : RootHolds(T, v) => RootHolds(T, t)
  <2>1. \A T : RootHolds(T, v) => RootHolds(T, u)
    BY <1>7, <1>10, <1>12, RootOnTop DEF ImpliedOnTop
  <2> QED
    BY <1>7, <2>1
<1> QED
  BY <1>10, <1>13, <1>15, <1>16, <1>17 DEF Resumes, u, v

\* Otherwise the search backtracks to the level of the conflict.
LEMMA BelowFacts ==
  ASSUME NEW n \in Nat, NEW chrono \in Nat, chrono > 0, NEW db, NEW t, NEW conflict,
         Conflicting(chrono, n, db, t, conflict), NEW a, NEW b,
         Highest(t, db[conflict].lits, a, b), LevelOf(t, b) = LevelOf(t, a),
         NEW d, Rewatched(n, db, d, conflict, a, b),
         NEW m, m = LevelOf(t, a)
  PROVE  LET u == Backtrack(t, m)
         IN  /\ Founded(chrono, n, d, u) /\ Retains(t, u) /\ Level(u) = m
             /\ \A T : RootHolds(T, u) <=> RootHolds(T, t)
             /\ m > 0 => Watched(u, d) /\ Falsifies(n, d, u, conflict)
<1> DEFINE lits == db[conflict].lits
           u == Backtrack(t, m)
<1>1. /\ Founded(chrono, n, db, t) /\ IsDatabase(n, db) /\ Shape(t)
      /\ Over(n, t) /\ Graph(db, t) /\ conflict \in DOMAIN db
      /\ Level(t) > 0 => Watched(t, db)
  BY DEF Conflicting, Founded
<1>2. \A k \in lits : k \in Int /\ k \in LitsOf(n) /\ Val(t, k) = -1
                      /\ LevelOf(t, k) \in Nat /\ LevelOf(t, k) <= Level(t)
  BY <1>1, FalseTypes DEF Conflicting
<1>3. a \in lits /\ b \in lits /\ a # b /\ \A k \in lits : LevelOf(t, k) <= m
  BY DEF Highest
<1>4. m \in Nat /\ m <= Level(t) /\ Level(t) \in Nat /\ m \in 0..Level(t)
  <2>1. m \in Nat /\ m <= Level(t)
    BY <1>2, <1>3
  <2>2. Level(t) \in Nat
    BY <1>1, TrailTypes DEF Shape
  <2> QED
    BY <2>1, <2>2
<1>5. /\ IsDatabase(n, d) /\ DOMAIN d = DOMAIN db /\ d[conflict].lits = lits
      /\ d[conflict].watch = {a, b}
      /\ \A i \in DOMAIN db : d[i].garbage = db[i].garbage
  BY <1>1 DEF Rewatched
<1>6. Shape(u) /\ KeepsLevels(t, u, m)
  BY <1>1, <1>4, BacktrackShape
<1> HIDE DEF u
<1>7. Graph(d, u)
  <2>1. \A k \in Positions(t) : t.trail[k].level <= m => Reasoned(d, t, k) /\ Protected(d, t, k)
    BY <1>1, RewatchedFacts DEF Graph
  <2> QED
    BY <1>1, <1>4, <1>5, <1>6, <2>1, GraphBacktrack
<1>8. Over(n, u)
  BY <1>1, <1>6, OverBacktrack
<1>9. Founded(chrono, n, d, u)
  <2>1. chrono # 0
    OBVIOUS
  <2> QED
    BY <1>5, <1>6, <1>7, <1>8, <2>1 DEF Founded
<1>10. Level(u) = m /\ Retains(t, u)
  BY <1>6, RetainsBacktrack DEF KeepsLevels
<1>11. \A T : RootHolds(T, u) <=> RootHolds(T, t)
  BY <1>1, <1>4, <1>6, RootBacktrack
<1>12. \A k \in lits : Val(u, k) = -1 /\ LevelOf(u, k) = LevelOf(t, k)
  BY <1>2, <1>3, <1>6 DEF KeepsLevels, Kept
<1>13. ASSUME m > 0 PROVE Falsifies(n, d, u, conflict)
  <2>1. FalseLits(n, u, lits)
    BY <1>2, <1>12 DEF FalseLits, FalseLit
  <2>2. LevelOf(u, a) = Level(u)
    BY <1>3, <1>10, <1>12
  <2> QED
    BY <1>1, <1>3, <1>5, <2>1, <2>2 DEF Falsifies
<1>14. ASSUME m > 0 PROVE Watched(u, d)
  <2> SUFFICES ASSUME NEW j \in DOMAIN d, ~d[j].garbage PROVE Settled(u, d[j])
    BY DEF Watched
  <2>1. CASE j = conflict
    <3>1. /\ Val(u, a) = -1 /\ LevelOf(u, a) = m /\ Val(u, b) = -1 /\ LevelOf(u, b) = m
          /\ d[j].watch = {a, b}
      BY <1>3, <1>5, <1>12, <2>1
    <3> QED
      BY <1>10, <1>14, <3>1 DEF Settled, Raised
  <2>2. CASE j # conflict
    <3>1. d[j] \in Clauses(n)
      BY <1>5, ClauseTypes
    <3>2. Settled(t, d[j])
      BY <1>1, <1>4, <1>5, <1>14, <2>2, RewatchedFacts DEF Watched
    <3>3. CASE m < Level(t)
      <4>1. WatchOK(u, u.propagated, d[j])
        BY <1>1, <1>4, <1>6, <3>1, <3>2, <3>3, SettledBacktrack
      <4>2. u.control[m].trail \in Nat /\ u.propagated \in Nat /\ u.control[m].trail <= u.propagated
        <5>1. u \in Trails /\ u.control[m].trail <= u.propagated
          BY <1>6, <1>10, <1>14 DEF Shape
        <5>2. m \in 1..Level(u)
          BY <1>4, <1>10, <1>14
        <5> QED
          BY <5>1, <5>2, TrailTypes
      <4>3. WatchOK(u, u.control[m].trail, d[j])
        BY <1>6, <3>1, <4>1, <4>2, WatchWeaker
      <4> QED
        BY <4>3, <1>10 DEF Settled
    <3>4. CASE m = Level(t)
      <4>1. u = t
        BY <1>6, <3>4 DEF KeepsLevels
      <4> QED
        BY <3>2, <4>1
    <3> QED
      BY <1>4, <3>3, <3>4
  <2> QED
    BY <2>1, <2>2
<1> QED
  BY <1>9, <1>10, <1>11, <1>13, <1>14 DEF u

\* The empty clause was derived.
Ends(chrono, n, db, t, conflict, r) ==
  /\ r.unsat = TRUE /\ conflict \in DOMAIN r.db
  /\ Founded(chrono, n, r.db, r.t) /\ Retains(t, r.t)
  /\ \A T : ~Good(T, t, db)

\* An analysis below the current level.
LEMMA AnalyzeBelowFacts ==
  ASSUME NEW n \in Nat, NEW db, NEW t, NEW o, o.chrono \in Nat, o.chrono > 0, NEW conflict,
         Conflicting(o.chrono, n, db, t, conflict), NEW assumptions,
         NEW r \in AnalyzeBelow(o, db, t, conflict, assumptions)
  PROVE  GoesOn(o.chrono, n, db, t, r) \/ Ends(o.chrono, n, db, t, conflict, r)
<1> DEFINE Outcomes(d) ==
             LET top == MaxLevel(t, d[conflict].lits)
                 forced == Forced(t, d[conflict])
                 down == Backtrack(t, top - 1)
             IN IF forced # {}
                THEN {Outcome(d, SearchAssign(o.chrono, d, down, l, conflict), FALSE) : l \in forced}
                ELSE AnalyzeOnLevel(o, d, Backtrack(t, top), conflict, assumptions)
<1>1. PICK d \in FindConflictLevel(db, t, conflict) : r \in Outcomes(d)
  BY DEF AnalyzeBelow
<1>2. /\ Founded(o.chrono, n, db, t) /\ IsDatabase(n, db) /\ Shape(t)
      /\ conflict \in DOMAIN db /\ FalseLits(n, t, db[conflict].lits)
  BY DEF Conflicting, Founded
<1>3. PICK a, b : Highest(t, db[conflict].lits, a, b) /\ Rewatched(n, db, d, conflict, a, b)
  BY <1>2, FindLevelFacts
<1>4. /\ d[conflict].lits = db[conflict].lits /\ DOMAIN d = DOMAIN db /\ conflict \in DOMAIN d
      /\ IsFiniteSet(d[conflict].lits)
  BY <1>2, <1>3, ClauseTypes DEF Rewatched
<1>5. /\ MaxLevel(t, d[conflict].lits) = LevelOf(t, a)
      /\ \A l \in Forced(t, d[conflict]) : l = a /\ LevelOf(t, b) < LevelOf(t, a)
      /\ Forced(t, d[conflict]) = {} => LevelOf(t, b) = LevelOf(t, a)
  BY <1>2, <1>3, <1>4, ForcedFacts
<1>6. /\ \A T : Good(T, t, db) => Good(T, t, d)
      /\ \A T : CoreHolds(T, d) => CoreHolds(T, db)
      /\ \A T : AllHold(T, d) => AllHold(T, db)
  BY <1>3, RewatchedFacts DEF Good
<1>7. CASE Forced(t, d[conflict]) # {}
  <2>1. LevelOf(t, b) < LevelOf(t, a) /\ Forced(t, d[conflict]) = {a}
    BY <1>5, <1>7
  <2> DEFINE m == LevelOf(t, a) - 1
             v == SearchAssign(o.chrono, d, Backtrack(t, m), a, conflict)
  <2>2. r \in {Outcome(d, SearchAssign(o.chrono, d, Backtrack(t, m), l, conflict), FALSE) : l \in {a}}
    BY <1>1, <1>5, <1>7, <2>1
  <2>3. r = Outcome(d, v, FALSE)
    BY <2>2
  <2>4. Resumes(o.chrono, n, t, d, d[conflict].lits, v)
    <3>1. m = LevelOf(t, a) - 1
      OBVIOUS
    <3> HIDE DEF m
    <3> QED
      BY <3>1, <1>3, <2>1, FlipFacts
  <2>5. r.db = d /\ r.t = v /\ r.unsat = FALSE
    BY <2>3 DEF Outcome
  <2>6. \A T : AllHold(T, d) => SatClause(T, d[conflict].lits)
    BY <1>4 DEF AllHold
  <2> HIDE DEF v
  <2>7. GoesOn(o.chrono, n, db, t, r)
    BY <1>6, <2>4, <2>5, <2>6 DEF Resumes, GoesOn, Good
  <2> QED
    BY <2>7
<1>8. CASE Forced(t, d[conflict]) = {}
  <2> DEFINE m == LevelOf(t, a)
             u == Backtrack(t, m)
  <2>1. r \in AnalyzeOnLevel(o, d, u, conflict, assumptions)
    BY <1>1, <1>5, <1>8
  <2>2. /\ Founded(o.chrono, n, d, u) /\ Retains(t, u) /\ Level(u) = m
        /\ \A T : RootHolds(T, u) <=> RootHolds(T, t)
        /\ m > 0 => Watched(u, d) /\ Falsifies(n, d, u, conflict)
    <3>1. m = LevelOf(t, a)
      OBVIOUS
    <3> HIDE DEF m
    <3> QED
      BY <3>1, <1>3, <1>5, <1>8, BelowFacts
  <2>3. m \in Nat /\ \A l \in db[conflict].lits : LevelOf(t, l) <= m /\ LevelOf(t, l) \in Nat
    BY <1>2, <1>3, FalseTypes DEF Highest
  <2> HIDE DEF u, m
  <2>4. Shape(u)
    BY <2>2 DEF Founded
  <2>5. CASE m > 0
    <3>1. GoesOn(o.chrono, n, d, u, r)
      BY <2>1, <2>2, <2>5, AnalyzeOnLevelFacts
    <3>2. Shape(r.t)
      BY <3>1 DEF GoesOn, Founded
    <3>3. Retains(t, r.t)
      BY <1>2, <2>2, <2>4, <3>1, <3>2, RetainsTrans DEF GoesOn
    <3>4. \A T : Good(T, t, db) => Good(T, r.t, r.db)
      BY <1>6, <2>2, <3>1 DEF GoesOn, Good
    <3>5. \A T : RootHolds(T, r.t) /\ CoreHolds(T, r.db) => RootHolds(T, t) /\ CoreHolds(T, db)
      BY <1>6, <2>2, <3>1 DEF GoesOn
    <3> QED
      BY <3>1, <3>3, <3>4, <3>5 DEF GoesOn
  <2>6. CASE m = 0
    <3>1. r = Outcome(d, u, TRUE)
      BY <2>1, <2>2, <2>6 DEF AnalyzeOnLevel
    <3>2. r.db = d /\ r.t = u /\ r.unsat = TRUE
      BY <3>1 DEF Outcome
    <3>3. \A T : ~Good(T, t, db)
      <4>1. \A l \in db[conflict].lits : LevelOf(t, l) = 0
        BY <2>3, <2>6
      <4> QED
        BY <4>1, <1>2, RootConflict
    <3> QED
      BY <1>4, <2>2, <3>2, <3>3 DEF Ends
  <2> QED
    BY <2>3, <2>5, <2>6
<1> QED
  BY <1>7, <1>8

\* Whatever a conflict and wherever it is: either the clauses are refuted, or
\* the search goes on with an implication graph, clauses that say what they
\* said before, and watches that are right.
THEOREM AnalyzeConflictFacts ==
  ASSUME NEW n \in Nat, NEW db, NEW t, NEW o, o.chrono \in Nat, NEW conflict,
         Conflicting(o.chrono, n, db, t, conflict),
         o.chrono = 0 => \E l \in db[conflict].lits : LevelOf(t, l) = Level(t),
         NEW assumptions, NEW r \in AnalyzeConflict(o, db, t, conflict, assumptions)
  PROVE  GoesOn(o.chrono, n, db, t, r) \/ Ends(o.chrono, n, db, t, conflict, r)
<1>1. /\ Founded(o.chrono, n, db, t) /\ Shape(t) /\ (Level(t) > 0 => Watched(t, db))
      /\ conflict \in DOMAIN db /\ FalseLits(n, t, db[conflict].lits)
  BY DEF Conflicting, Founded
<1>2. CASE o.chrono # 0
  BY <1>2, AnalyzeBelowFacts DEF AnalyzeConflict
<1>3. CASE o.chrono = 0
  <2>1. r \in AnalyzeOnLevel(o, db, t, conflict, assumptions)
    BY <1>3 DEF AnalyzeConflict
  <2>2. Falsifies(n, db, t, conflict)
    BY <1>1, <1>3 DEF Falsifies
  <2>3. Level(t) \in Nat
    BY <1>1, TrailTypes DEF Shape
  <2>4. CASE Level(t) > 0
    BY <1>1, <2>1, <2>2, <2>4, AnalyzeOnLevelFacts
  <2>5. CASE Level(t) = 0
    <3>1. r = Outcome(db, t, TRUE)
      BY <2>1, <2>5 DEF AnalyzeOnLevel
    <3>2. r.db = db /\ r.t = t /\ r.unsat = TRUE
      BY <3>1 DEF Outcome
    <3>3. \A l \in db[conflict].lits : LevelOf(t, l) = 0
      <4>1. \A l \in db[conflict].lits : LevelOf(t, l) \in Nat /\ LevelOf(t, l) <= Level(t)
        BY <1>1, FalseTypes
      <4> QED
        BY <4>1, <2>5
    <3>4. \A T : ~Good(T, t, db)
      BY <1>1, <3>3, RootConflict
    <3>5. Retains(t, t)
      BY <2>3 DEF Retains
    <3> QED
      BY <1>1, <3>2, <3>4, <3>5 DEF Ends
  <2> QED
    BY <2>3, <2>4, <2>5
<1> QED
  BY <1>2, <1>3
=============================================================================
