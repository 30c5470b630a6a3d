------------------------------ MODULE Analyze ------------------------------
(***************************************************************************)
(* Conflict analysis: from a falsified clause to the clause that is        *)
(* learned, the level to go back to and the literal to flip.  Everything   *)
(* here is a function of the options o, the database db, the trail t and   *)
(* the id of the falsified clause; the caller makes the result its next    *)
(* state.  Bumping of variables and clauses is in Decide and not here.     *)
(***************************************************************************)
EXTENDS Trail, SequencesExt

\* The outcomes of a conflict: the new database and trail, and whether the
\* empty clause was learned.
Outcome(db, t, unsat) == [db |-> db, t |-> t, unsat |-> unsat]

-----------------------------------------------------------------------------
(* The level of the conflict, when that may be below the current level.    *)

\* The only literal of the conflict on its highest level, if there is one.
Forced(t, c) ==
  LET top == {l \in c.lits : LevelOf(t, l) = MaxLevel(t, c.lits)} IN
  IF Cardinality(top) = 1 THEN top ELSE {}

\* The databases in which the conflict watches two literals of the highest
\* levels.
FindConflictLevel(db, t, conflict) ==
  {[db EXCEPT ![conflict].watch = w] : w \in HighestPairs(t, db[conflict])}

\* The levels backtracking may choose between jump, where the learned clause
\* becomes unit, and the level below the conflict.  Reusing the trail keeps
\* the levels up to the best variable's, which the heuristics pick.
DetermineActualBacktrackLevel(o, t, jump, assumptions) ==
  LET below == Level(t) - 1 IN
  IF o.chrono = 0 THEN {jump}
  ELSE IF o.chronoalways THEN {below}
  ELSE IF jump >= below \/ jump < assumptions THEN {jump}
  ELSE IF Level(t) - jump > o.chronolevelim THEN {below}
  ELSE IF o.chronoreusetrail
  THEN {Max({jump} \cup {n \in jump + 1..below : t.control[n].trail < best}) :
          best \in t.control[jump + 1].trail + 1..Len(t.trail)}
  ELSE {jump}

-----------------------------------------------------------------------------
(* Minimization of the first UIP clause.                                   *)

\* The lowest position of a seen literal on each level, and how many there
\* are: two early aborts of the minimization.
SeenTrail(t, seen, lev) ==
  Min({Len(t.trail) + 1} \cup {Pos(t, l) : l \in {k \in seen : LevelOf(t, k) = lev}})
SeenCount(t, seen, lev) == Cardinality({l \in seen : LevelOf(t, l) = lev})

\* A mutant: decisions are implied by nothing.
RemovableDecision(db, t, seen, keep) ==
  {k \in Positions(t) :
     \/ t.trail[k].level = 0 \/ -t.trail[k].lit \in keep
     \/ t.trail[k].level < Level(t) /\ k >= SeenTrail(t, seen, t.trail[k].level)}

\* The positions of the trail whose literals are implied by kept ones and
\* units, from the lowest: reasons only hold literals of lower positions.
Removable(db, t, seen, keep) ==
  LET Implied(below, k) ==
        LET e == t.trail[k] IN
        \/ e.level = 0
        \/ -e.lit \in keep
        \/ /\ e.reason # NoReason
           /\ e.level < Level(t)
           /\ k > SeenTrail(t, seen, e.level)
           /\ \A l \in db[e.reason].lits \ {e.lit} : Pos(t, l) \in below
      upTo[k \in 0..Len(t.trail)] ==
        IF k = 0 THEN {}
        ELSE ByValue(LAMBDA below : IF Implied(below, k) THEN below \cup {k} ELSE below,
                     upTo[k - 1])
  IN upTo[Len(t.trail)]

\* The literal l of the clause is implied by the other ones.
Redundant(db, t, seen, keep, l) ==
  LET e == t.trail[Pos(t, l)] IN
  /\ SeenCount(t, seen, e.level) >= 2
  /\ Pos(t, l) \in Removable(db, t, seen, keep)

\* Literals are tried in trail order; one that stays may imply later ones.
MinimizeBlock(db, t, seen, keep, lits) ==
  LET Try(kept, l) ==
        IF l \notin lits \/ Redundant(db, t, seen, kept, l) THEN kept ELSE kept \cup {l}
      upTo[k \in 0..Len(t.trail)] ==
        IF k = 0 THEN keep
        ELSE ByValue(LAMBDA kept : Try(kept, -t.trail[k].lit), upTo[k - 1])
  IN upTo[Len(t.trail)]

\* Minimize without shrinking: the literal of the current level always stays.
MinimizeClause(o, db, t, seen, clause) ==
  IF o.minimize THEN MinimizeBlock(db, t, seen, {}, clause) ELSE clause

\* The literals of one level of the clause are replaced by their own first
\* UIP, found like the one of the clause, when every literal of a lower level
\* met on the way is implied by kept ones (the positions in removable); 0
\* when there is none.
BlockUip(db, t, removable, lits, lev) ==
  LET Step(a, k) ==
        LET e == t.trail[k]
            r == db[e.reason].lits \ {e.lit} IN
        IF a.uip # 0 \/ a.failed \/ -e.lit \notin a.open THEN a
        ELSE IF a.open = {-e.lit} THEN [a EXCEPT !.uip = -e.lit]
        ELSE IF \E l \in r : LevelOf(t, l) < lev /\ Pos(t, l) \notin removable
        THEN [a EXCEPT !.failed = TRUE]
        ELSE [a EXCEPT !.open = (@ \ {-e.lit}) \cup {l \in r : LevelOf(t, l) >= lev}]
      after[n \in 0..Len(t.trail)] ==
        IF n = 0 THEN [open |-> lits, uip |-> 0, failed |-> FALSE]
        ELSE ByValue(LAMBDA a : Step(a, Len(t.trail) + 1 - n), after[n - 1])
  IN after[Len(t.trail)].uip

\* Level by level from the lowest: a single literal stays, several are
\* shrunken to one or else minimized.
ShrinkAndMinimizeClause(o, db, t, seen, clause) ==
  LET Shrunken(a, lits, lev, uip) ==
        IF uip # 0
        THEN [keep |-> a.keep \cup {uip},
              seen |-> {l \in a.seen : LevelOf(t, l) # lev} \cup {uip}]
        ELSE [a EXCEPT !.keep =
               IF o.minimize THEN MinimizeBlock(db, t, a.seen, @, lits) ELSE @ \cup lits]
      Block(a, lev) ==
        LET lits == {l \in clause : LevelOf(t, l) = lev}
            removable == Removable(db, t, a.seen, a.keep) IN
        IF Cardinality(lits) < 2 THEN [a EXCEPT !.keep = @ \cup lits]
        ELSE ByValue(LAMBDA uip : Shrunken(a, lits, lev, uip),
                     ByValue(LAMBDA r : BlockUip(db, t, r, lits, lev), removable))
      upTo[lev \in 0..Level(t)] ==
        IF lev = 0 THEN [keep |-> {}, seen |-> seen]
        ELSE ByValue(LAMBDA a : Block(a, lev), upTo[lev - 1])
  IN upTo[Level(t)].keep

-----------------------------------------------------------------------------
(* Resolution along the trail, with on-the-fly strengthening.              *)

\* uip and the root-level literals are removed from clause c.  The other
\* watch stays unless it is removed too; the second one is the literal of the
\* highest level among the rest.
OnTheFlyStrengthen(db, t, c, uip) ==
  LET lits == NonRoot(t, db[c].lits) \ {uip}
      old == db[c].watch \cap lits
      other == CHOOSE l \in (IF old = {} THEN lits ELSE old) : TRUE
      high == CHOOSE l \in lits \ {other} :
                \A k \in lits \ {other} : LevelOf(t, l) >= LevelOf(t, k)
  IN [db EXCEPT ![c].lits = lits, ![c].watch = {other, high}]

\* The strengthened clause replaces the conflict it was resolved with.
OtfsSubsumeClause(db, subsuming, subsumed) ==
  [db EXCEPT ![subsumed].garbage = TRUE,
             ![subsuming].redundant = @ /\ db[subsumed].redundant]

\* The analysis of a conflict with the literals lits begins.
StartAnalysis(db, conflict, lits, otfs) ==
  [db |-> db, conflict |-> conflict, seen |-> lits, size |-> Cardinality(lits),
   first |-> TRUE, uip |-> 0, otfs |-> otfs]

\* One literal of the trail is looked at.  a.seen are the literals of the
\* clauses resolved so far, a.size the size of the conflict, a.first that no
\* resolution took place since the analysis of a.conflict began.  A reason that
\* is strengthened is the new conflict.
AnalyzePosition(o, t, a, k) ==
  LET e == t.trail[k]
      Open(s) == {l \in s : LevelOf(t, l) = Level(t) /\ Pos(t, l) < k}
      reason == NonRoot(t, a.db[e.reason].lits)
      seen == a.seen \cup (reason \ {e.lit})
      resolvent == {l \in seen : LevelOf(t, l) < Level(t) \/ Pos(t, l) < k}
      strengthened == OnTheFlyStrengthen(a.db, t, e.reason, e.lit)
  IN
  IF a.uip # 0 \/ a.otfs \/ -e.lit \notin a.seen \/ e.level # Level(t) THEN a
  ELSE IF Open(a.seen) = {} THEN [a EXCEPT !.uip = e.lit]
  ELSE IF o.otfs /\ Cardinality(reason) > 2
          /\ Cardinality(resolvent) < Cardinality(reason)
  THEN StartAnalysis(IF a.first /\ Cardinality(resolvent) < a.size
                     THEN OtfsSubsumeClause(strengthened, e.reason, a.conflict)
                     ELSE strengthened,
                     e.reason, resolvent, Cardinality(Open(resolvent)) = 1)
  ELSE [a EXCEPT !.seen = seen, !.first = FALSE]

FirstUip(o, db, t, conflict) ==
  LET lits == NonRoot(t, db[conflict].lits)
      after[n \in 0..Len(t.trail)] ==
        IF n = 0 THEN StartAnalysis(db, conflict, lits, FALSE)
        ELSE ByValue(LAMBDA a : AnalyzePosition(o, t, a, Len(t.trail) + 1 - n), after[n - 1])
  IN after[Len(t.trail)]

-----------------------------------------------------------------------------
\* Redundant clauses the learned clause n subsumes are marked as garbage.
EagerlySubsume(o, db, n) ==
  [i \in DOMAIN db |->
     IF o.eagersubsume /\ i # n /\ db[i].redundant /\ db[n].lits \subseteq db[i].lits
     THEN [db[i] EXCEPT !.garbage = TRUE] ELSE db[i]]

\* The strengthened clause itself forces its literal of the conflict level.
OtfsDrive(o, a, t, assumptions) ==
  LET c == a.db[a.conflict].lits
      forced == CHOOSE l \in c : LevelOf(t, l) = Level(t)
      jump == MaxLevel(t, c \ {forced}) IN
  {Outcome(a.db, SearchAssign(o.chrono, a.db, Backtrack(t, n), forced, a.conflict), FALSE) :
     n \in DetermineActualBacktrackLevel(o, t, jump, assumptions)}

\* The first UIP clause, minimized.
LearnedClause(o, a, t) ==
  LET clause == {l \in a.seen : LevelOf(t, l) < Level(t)} \cup {-a.uip} IN
  IF o.shrink THEN ShrinkAndMinimizeClause(o, a.db, t, a.seen, clause)
  ELSE MinimizeClause(o, a.db, t, a.seen, clause)

\* A mutant: the learned clause watches any second literal.
DriveAnyWatch(o, a, t, clause, assumptions) ==
  LET uip == -a.uip
      rest == clause \ {uip}
      jump == MaxLevel(t, rest)
      id == IF rest = {} THEN NoReason ELSE FreshId(a.db)
  IN {Outcome(d, SearchAssign(o.chrono, d, Backtrack(t, n), uip, id), FALSE) :
        n \in DetermineActualBacktrackLevel(o, t, jump, assumptions),
        d \in {IF rest = {} THEN a.db
               ELSE AddTo(a.db, Clause(clause, {uip, CHOOSE l \in rest : TRUE}, TRUE))}}

\* It is learned and drives the search: it watches the flipped literal and
\* the last one assigned on the jump level.
Drive(o, a, t, clause, assumptions) ==
  LET uip == -a.uip
      rest == clause \ {uip}
      jump == MaxLevel(t, rest)
      second == CHOOSE l \in rest : \A k \in rest :
                  \/ LevelOf(t, l) > LevelOf(t, k)
                  \/ LevelOf(t, l) = LevelOf(t, k) /\ Pos(t, l) >= Pos(t, k)
      id == IF rest = {} THEN NoReason ELSE FreshId(a.db)
  IN {Outcome(IF id = NoReason THEN d ELSE EagerlySubsume(o, d, id),
              SearchAssign(o.chrono, d, Backtrack(t, n), uip, id), FALSE) :
        n \in DetermineActualBacktrackLevel(o, t, jump, assumptions),
        d \in {IF rest = {} THEN a.db
               ELSE AddTo(a.db, Clause(clause, {uip, second}, TRUE))}}

\* Analysis on the conflict level.
AnalyzeOnLevel(o, db, t, conflict, assumptions) ==
  IF Level(t) = 0 THEN {Outcome(db, t, TRUE)}
  ELSE UNION {IF a.otfs THEN OtfsDrive(o, a, t, assumptions)
              ELSE UNION {Drive(o, a, t, c, assumptions) : c \in {LearnedClause(o, a, t)}} :
                a \in {FirstUip(o, db, t, conflict)}}

\* The conflict may be below the current level: analysis happens on its own
\* level, unless a single literal of it is on that level and is flipped.
AnalyzeBelow(o, db, t, conflict, assumptions) ==
  UNION {
    LET top == MaxLevel(t, d[conflict].lits)
        forced == Forced(t, d[conflict])
        down == Backtrack(t, top - 1)
    IN IF forced # {}
       THEN {Outcome(d, SearchAssign(o.chrono, d, down, l, conflict), FALSE) : l \in forced}
       ELSE AnalyzeOnLevel(o, d, Backtrack(t, top), conflict, assumptions) :
    d \in FindConflictLevel(db, t, conflict)}

\* The whole of analyze () without a propagator.
AnalyzeConflict(o, db, t, conflict, assumptions) ==
  IF o.chrono = 0 THEN AnalyzeOnLevel(o, db, t, conflict, assumptions)
  ELSE AnalyzeBelow(o, db, t, conflict, assumptions)
=============================================================================
