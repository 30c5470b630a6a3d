------------------------------- MODULE Trail -------------------------------
(***************************************************************************)
(* The assignment stack of CaDiCaL and the clause database it works on, as *)
(* values that the search, the conflict analysis and the propagator        *)
(* interface share.                                                        *)
(*                                                                         *)
(* A trail is [trail, control, propagated]: the assigned literals in the   *)
(* order of their assignment, each with its assignment level and the       *)
(* clause that implied it; for each decision level the height of the trail *)
(* below it and its decision (0 for a pseudo level); the number of         *)
(* literals propagated.  With chronological backtracking a literal's level *)
(* may be lower than the level it sits on ("out of order").                *)
(*                                                                         *)
(* A database maps clause ids to [lits, watch, redundant, garbage].  The   *)
(* order of a clause's literals beyond the two watched ones is left out.   *)
(***************************************************************************)
EXTENDS Cnf, Sequences, FiniteSets, FiniteSetsExt

\* Pseudo reasons: a root-level unit has none, decisions and external
\* propagations are told apart from clauses, whose ids are positive.
NoReason == 0
DecisionReason == -1
ExternalReason == -2

\* Apply f to an accumulator by value: TLC computes it once.
ByValue(f(_), a) == CHOOSE y \in {f(x) : x \in {a}} : TRUE

EmptyTrail == [trail |-> <<>>, control |-> <<>>, propagated |-> 0]

Level(t) == Len(t.control)

Positions(t) == 1..Len(t.trail)

TrueLits(t) == {t.trail[k].lit : k \in Positions(t)}

\* The value of literal l: 1, -1 or, when unassigned, 0.
Val(t, l) == IF l \in TrueLits(t) THEN 1 ELSE IF -l \in TrueLits(t) THEN -1 ELSE 0

\* Where the variable of l was assigned.
Pos(t, l) == CHOOSE k \in Positions(t) : t.trail[k].lit \in {l, -l}

LevelOf(t, l) == t.trail[Pos(t, l)].level

\* The value of l at the root level.
Fixed(t, l) == IF Val(t, l) # 0 /\ LevelOf(t, l) = 0 THEN Val(t, l) ELSE 0

NonRoot(t, c) == {l \in c : LevelOf(t, l) > 0}

MaxLevel(t, lits) == Max({0} \cup {LevelOf(t, l) : l \in lits})

-----------------------------------------------------------------------------
\* A mutant: the level of the first other literal.
AnyAssignmentLevel(chrono, db, t, lit, reason) ==
  IF reason = NoReason THEN 0
  ELSE IF reason < 0 \/ chrono = 0 THEN Level(t)
  ELSE LevelOf(t, CHOOSE l \in db[reason].lits : l # lit)

\* The level of an assignment of lit by a clause: with chronological
\* backtracking the highest level of the clause's other literals, without it
\* the current level.
AssignmentLevel(chrono, db, t, lit, reason) ==
  IF reason = NoReason THEN 0
  ELSE IF reason < 0 \/ chrono = 0 THEN Level(t)
  ELSE MaxLevel(t, db[reason].lits \ {lit})

SearchAssign(chrono, db, t, lit, reason) ==
  LET lev == AssignmentLevel(chrono, db, t, lit, reason) IN
  [t EXCEPT !.trail = Append(@,
     [lit |-> lit, level |-> lev,
      reason |-> IF lev = 0 \/ reason = DecisionReason THEN NoReason ELSE reason])]

NewTrailLevel(t, decision) ==
  [t EXCEPT !.control = Append(@, [trail |-> Len(t.trail), decision |-> decision])]

AssumeDecision(t, lit) ==
  SearchAssign(0, <<>>, NewTrailLevel(t, lit), lit, DecisionReason)

\* Undo the levels above new.  Literals of a lower assignment level stay on
\* the trail, moved down, and are propagated again.
Backtrack(t, new) ==
  IF new = Level(t) THEN t
  ELSE LET cut == t.control[new + 1].trail
           kept[k \in cut..Len(t.trail)] ==
             IF k = cut THEN SubSeq(t.trail, 1, cut)
             ELSE IF t.trail[k].level <= new THEN Append(kept[k - 1], t.trail[k])
             ELSE kept[k - 1]
       IN [trail |-> kept[Len(t.trail)],
           control |-> SubSeq(t.control, 1, new),
           propagated |-> Min({t.propagated, cut})]

\* Units assigned above the first decision.
OutOfOrderUnits(t) ==
  Level(t) > 0 /\ \E k \in t.control[1].trail + 1..Len(t.trail) : t.trail[k].level = 0

-----------------------------------------------------------------------------
Clause(lits, watch, redundant) ==
  [lits |-> lits, watch |-> watch, redundant |-> redundant, garbage |-> FALSE]

\* The id of the next clause; ids of collected clauses are used again.
FreshId(db) == CHOOSE i \in 1..Cardinality(DOMAIN db) + 1 :
                 i \notin DOMAIN db /\ 1..i - 1 \subseteq DOMAIN db

AddTo(db, c) ==
  LET n == FreshId(db) IN [i \in DOMAIN db \cup {n} |-> IF i = n THEN c ELSE db[i]]

\* The clause watches that stay when w of a clause are watched and the pairs
\* in candidates are equally good: the code only moves a watch it must move.
ClosestTo(w, candidates) ==
  {p \in candidates : \A q \in candidates : Cardinality(p \cap w) >= Cardinality(q \cap w)}

Pairs(lits) == {p \in SUBSET lits : Cardinality(p) = 2}

\* The two literals of the highest levels go to the watch positions.
HighestPairs(t, c) ==
  ClosestTo(c.watch, {p \in Pairs(c.lits) :
    \A l \in p, k \in c.lits \ p : LevelOf(t, l) >= LevelOf(t, k)})

\* How much better l is to watch than a lower ranked literal when a clause is
\* added below the root: true literals, the lowest level first, and
\* unassigned ones before false ones, the highest level first.
WatchRank(t, l) ==
  LET v == Val(t, l) IN
  IF v > 0 THEN 2 * Level(t) + 2 - LevelOf(t, l)
  ELSE IF v = 0 THEN Level(t) + 1
  ELSE LevelOf(t, l)

\* The two of the literals lits that a clause added as a sequence watches: at
\* the root those that come first in the sequence.
MoveLiteralsToWatch(t, clause, lits) ==
  LET at(l) == CHOOSE k \in DOMAIN clause : clause[k] = l
      Better(l, k) == IF Level(t) = 0 THEN at(l) <= at(k) ELSE WatchRank(t, l) >= WatchRank(t, k)
  IN {p \in Pairs(lits) : \A l \in p, k \in lits \ p : Better(l, k)}

Undefined(t, lits) == {l \in lits : Val(t, l) = 0}
Satisfied(t, lits) == \E l \in lits : Val(t, l) > 0
Falsified(t, lits) == \A l \in lits : Val(t, l) < 0
=============================================================================
