------------------------------- MODULE Search -------------------------------
(***************************************************************************)
(* The CDCL search of CaDiCaL (Internal): clauses and assumptions come in  *)
(* through the API, solve () runs the loop of propagation, analysis,       *)
(* restarts, reductions and decisions, and leaves with a model, with a set *)
(* of failed assumptions, or, when it is interrupted, with nothing.        *)
(*                                                                         *)
(* One step of propagation visits one watch of the literal that is being   *)
(* propagated; the order of a watch list is arbitrary, and so are the      *)
(* decisions: Decide has the heuristics.  Blocking literals only say that  *)
(* a clause with a true literal may be left as it is.                      *)
(***************************************************************************)
EXTENDS Analyze

CONSTANTS
  MaxVar,         \* a bound on the variables of the user
  Options,        \* the option records a solver may be created with
  Rounds,         \* what a user may do: sequences of [add, assume, constrain]
  MixedCalls,     \* may clauses be added after literals were assumed?
  MaxReductions   \* reductions of one solve

\* add_new_original_clause drops the repetitions of a literal first.
ClausesAdded ==
  {c \in Seq(LitsOf(MaxVar)) : \A j, k \in DOMAIN c : c[j] = c[k] => j = k}

ASSUME SearchAssumption ==
  /\ MaxVar \in Nat
  /\ MaxReductions \in Nat
  /\ MixedCalls \in BOOLEAN
  /\ Rounds \subseteq Seq([add : Seq(ClausesAdded), assume : Seq(LitsOf(MaxVar)),
                          constrain : SUBSET SUBSET LitsOf(MaxVar)])
  /\ \A o \in Options :
       /\ o.chrono \in 0..2 /\ o.chronolevelim \in Nat
       /\ {o.chronoalways, o.chronoreusetrail, o.otfs, o.shrink, o.minimize,
           o.eagersubsume, o.ilb, o.ilbassumptions, o.restartreusetrail} \subseteq BOOLEAN

VARIABLES
  opts,        \* the options
  input,       \* what the user will still do
  maxVar,      \* internal variables are 1..maxVar
  original,    \* the clauses added so far
  db,          \* the clauses of the solver, by id
  t,           \* the trail
  todo,        \* clauses still to visit for the literal being propagated
  conflict,    \* the falsified clause found, or 0
  unsat,       \* the empty clause was derived
  assumptions, \* sequence of assumed literals
  constrained, \* {} or {c}: the constraint the user gave
  constraint,  \* {} or the literals of it that are left
  unsatConstraint, \* no literal of it can be true
  failed,      \* the assumptions marked as failed
  pc,          \* "ready", "search", "reduce" or "done"
  result,      \* of the last solve
  fresh,       \* a conflict was found since the last restart
  reductions   \* of this solve so far

apiVars == <<opts, maxVar, original, assumptions, constrained, constraint>>
searchVars == <<db, t, todo, conflict, unsat>>
vars == <<apiVars, searchVars, input, unsatConstraint, failed, pc, result,
          fresh, reductions>>

Vars == 1..maxVar

\* A solver with n variables and nothing else.
InitWith(n) ==
  /\ opts \in Options
  /\ input \in Rounds
  /\ maxVar = n /\ original = {} /\ db = <<>> /\ t = EmptyTrail
  /\ todo = {} /\ conflict = 0 /\ unsat = FALSE
  /\ assumptions = <<>> /\ constrained = {} /\ constraint = {}
  /\ unsatConstraint = FALSE /\ failed = {} /\ pc = "ready" /\ result = 0
  /\ fresh = FALSE /\ reductions = 0

Init == InitWith(0)

\* propagate () returned true.
Propagated == conflict = 0 /\ todo = {} /\ t.propagated = Len(t.trail)

-----------------------------------------------------------------------------
(* Propagation.                                                            *)

Propagating == pc \in {"search", "reduce"} \/ (pc = "ready" /\ Level(t) = 0)

\* The next literal of the trail: the clauses that watch its negation.
PropagateLiteral ==
  /\ Propagating /\ ~unsat /\ conflict = 0 /\ todo = {}
  /\ t.propagated < Len(t.trail)
  /\ t' = [t EXCEPT !.propagated = @ + 1]
  /\ todo' = {i \in DOMAIN db : -t.trail[t.propagated + 1].lit \in db[i].watch}
  /\ UNCHANGED <<apiVars, input, db, conflict, unsat, unsatConstraint, failed,
                 pc, result, fresh, reductions>>

Visited(i) ==
  /\ i \in todo
  /\ UNCHANGED <<apiVars, input, unsat, unsatConstraint, failed, pc, result,
                 fresh, reductions>>

PropagatedLit == -t.trail[t.propagated].lit

OtherWatch(c) == CHOOSE l \in c.watch : l # PropagatedLit

\* A binary clause is never looked at, even when it is garbage; one that is
\* falsified does not stop the propagation of the literal.
PropagateBinary(i) ==
  LET other == OtherWatch(db[i]) IN
  /\ Cardinality(db[i].lits) = 2
  /\ Visited(i)
  /\ todo' = todo \ {i}
  /\ conflict' = IF Val(t, other) < 0 THEN i ELSE conflict
  /\ t' = IF Val(t, other) = 0 THEN SearchAssign(opts.chrono, db, t, other, i) ELSE t
  /\ UNCHANGED db

Long(i) == Cardinality(db[i].lits) > 2

\* A binary conflict stops the propagation at the first longer clause.
StopAtLong(i) ==
  /\ Long(i) /\ conflict # 0
  /\ Visited(i)
  /\ todo' = {}
  /\ UNCHANGED <<db, t, conflict>>

\* Garbage is skipped, and so is a clause with a true blocking literal, a
\* true other watch or a true replacement.
SkipLong(i) ==
  /\ Long(i) /\ conflict = 0
  /\ db[i].garbage \/ Satisfied(t, db[i].lits)
  /\ Visited(i)
  /\ todo' = todo \ {i}
  /\ UNCHANGED <<db, t, conflict>>

\* An unassigned literal replaces the false watch.
ReplaceWatch(i) ==
  LET c == db[i] IN
  /\ Long(i) /\ conflict = 0 /\ ~c.garbage
  /\ Val(t, OtherWatch(c)) <= 0
  /\ Visited(i)
  /\ \E r \in Undefined(t, c.lits \ c.watch) :
       db' = [db EXCEPT ![i].watch = {OtherWatch(c), r}]
  /\ todo' = todo \ {i}
  /\ UNCHANGED <<t, conflict>>

\* All literals but the other watch are false.  With chrono = 2 the false
\* watch moves to a literal of the level of the new assignment.
PropagateUnit(i) ==
  LET c == db[i]
      other == OtherWatch(c)
      new == SearchAssign(opts.chrono, db, t, other, i)
      lev == LevelOf(new, other)
      high == {l \in c.lits \ c.watch : LevelOf(t, l) = lev} IN
  /\ Long(i) /\ conflict = 0 /\ ~c.garbage
  /\ Val(t, other) = 0 /\ Falsified(t, c.lits \ {other})
  /\ Visited(i)
  /\ t' = new
  /\ IF opts.chrono > 1 /\ lev > LevelOf(t, PropagatedLit)
     THEN \E s \in high : db' = [db EXCEPT ![i].watch = {other, s}]
     ELSE db' = db
  /\ todo' = todo \ {i}
  /\ UNCHANGED conflict

FindConflict(i) ==
  /\ Long(i) /\ conflict = 0 /\ ~db[i].garbage
  /\ Falsified(t, db[i].lits)
  /\ Visited(i)
  /\ conflict' = i
  /\ todo' = {}
  /\ UNCHANGED <<db, t>>

Visit(i) ==
  \/ PropagateBinary(i) \/ StopAtLong(i) \/ SkipLong(i)
  \/ ReplaceWatch(i) \/ PropagateUnit(i) \/ FindConflict(i)

Propagate == PropagateLiteral \/ \E i \in todo : Visit(i)

-----------------------------------------------------------------------------
(* The loop.                                                               *)

\* A conflict in the loop is analyzed.
AnalyzeStep ==
  /\ pc = "search" /\ ~unsat /\ todo = {} /\ conflict # 0
  /\ \E r \in AnalyzeConflict(opts, db, t, conflict, Len(assumptions)) :
       /\ db' = r.db /\ t' = r.t /\ unsat' = r.unsat
       /\ conflict' = IF r.unsat THEN conflict ELSE 0
  /\ fresh' = TRUE
  /\ UNCHANGED <<apiVars, input, todo, unsatConstraint, failed, pc, result, reductions>>

\* A conflict while clauses are added, or while units found above the root
\* level are propagated before a reduction, is one at the root level.
LearnEmptyClause ==
  /\ pc \in {"ready", "reduce"} /\ ~unsat /\ todo = {} /\ conflict # 0
  /\ unsat' = TRUE
  /\ pc' = IF pc = "reduce" THEN "search" ELSE pc
  /\ UNCHANGED <<apiVars, input, db, t, todo, conflict, unsatConstraint,
                 failed, result, fresh, reductions>>

\* The solve ends; failed assumptions are not computed yet.
Return(r) ==
  /\ pc' = "done"
  /\ result' = r
  /\ UNCHANGED <<apiVars, input, db, t, todo, conflict, unsat, failed, fresh, reductions>>

ReturnUnsat ==
  /\ pc = "search" /\ (unsat \/ unsatConstraint)
  /\ Return(20) /\ UNCHANGED unsatConstraint

Searching == pc = "search" /\ ~unsat /\ ~unsatConstraint /\ Propagated

\* The levels of the assumptions and of the constraint.
AssumptionLevels == Len(assumptions) + (IF constraint = {} THEN 0 ELSE 1)

\* All variables are assigned and all assumptions are decided.
SatisfiedAll == Level(t) >= AssumptionLevels /\ Len(t.trail) = maxVar

ReturnSat ==
  /\ Searching /\ SatisfiedAll
  /\ Return(10) /\ UNCHANGED unsatConstraint

\* A limit is hit or the terminator says so.
ReturnUnknown ==
  /\ Searching /\ ~SatisfiedAll
  /\ Return(0) /\ UNCHANGED unsatConstraint

\* Levels a restart may keep: those of the assumptions, that of a constraint
\* they imply, and then as many as the heuristics would decide again.
ReuseTrail ==
  LET trivial == Len(assumptions)
        + (IF t.control[Len(assumptions) + 1].decision = 0 THEN 1 ELSE 0)
  IN IF opts.restartreusetrail THEN trivial..Level(t) ELSE {trivial}

\* A mutant: no conflict is needed between restarts.
RestartAlways ==
  /\ Searching /\ ~SatisfiedAll
  /\ Level(t) >= Len(assumptions) + 2
  /\ \E n \in ReuseTrail : t' = Backtrack(t, n)
  /\ fresh' = FALSE
  /\ UNCHANGED <<apiVars, input, db, todo, conflict, unsat, unsatConstraint,
                 failed, pc, result, reductions>>

Restart ==
  /\ Searching /\ ~SatisfiedAll /\ fresh
  /\ Level(t) >= Len(assumptions) + 2
  /\ \E n \in ReuseTrail : t' = Backtrack(t, n)
  /\ fresh' = FALSE
  /\ UNCHANGED <<apiVars, input, db, todo, conflict, unsat, unsatConstraint,
                 failed, pc, result, reductions>>

\* Units assigned above the root level are propagated at the root level
\* before clauses are collected.
StartReduce ==
  /\ Searching /\ ~SatisfiedAll
  /\ \E i \in DOMAIN db : db[i].redundant /\ ~db[i].garbage
  /\ reductions < MaxReductions
  /\ reductions' = reductions + 1
  /\ t' = IF OutOfOrderUnits(t) THEN Backtrack(t, 0) ELSE t
  /\ pc' = "reduce"
  /\ UNCHANGED <<apiVars, input, db, todo, conflict, unsat, unsatConstraint,
                 failed, result, fresh>>

\* Clauses that root-level units satisfy are garbage, falsified literals are
\* removed from the others.  Watches are not looked for again.
RemoveFixed(c) ==
  LET false == {l \in c.lits : Fixed(t, l) < 0} IN
  IF c.garbage THEN c
  ELSE IF \E l \in c.lits : Fixed(t, l) > 0 THEN [c EXCEPT !.garbage = TRUE]
  ELSE IF Cardinality(c.lits \ false) < 2 THEN c
  ELSE [c EXCEPT !.lits = @ \ false, !.watch = @ \ false]

\* The clauses that are reasons are protected.
Reasons == {t.trail[k].reason : k \in Positions(t)}

\* Garbage and any of the redundant clauses that are not reasons go: which
\* ones are useless is the policy's choice.
Reduce ==
  LET marked == [i \in DOMAIN db |-> RemoveFixed(db[i])]
      garbage == {i \in DOMAIN db \ Reasons : marked[i].garbage}
      candidates == {i \in DOMAIN db \ (Reasons \cup garbage) : marked[i].redundant} IN
  /\ pc = "reduce" /\ ~unsat /\ Propagated
  /\ \E useless \in SUBSET candidates :
       db' = [i \in DOMAIN db \ (garbage \cup useless) |-> marked[i]]
  /\ pc' = "search"
  /\ UNCHANGED <<apiVars, input, t, todo, conflict, unsat, unsatConstraint,
                 failed, result, fresh, reductions>>

\* The next assumption is decided, or skipped with a level of its own when it
\* holds already; a false one ends the search.
DecideAssumption ==
  LET lit == assumptions[Level(t) + 1] IN
  /\ Searching /\ ~SatisfiedAll /\ Level(t) < Len(assumptions)
  /\ IF Val(t, lit) < 0 THEN Return(20)
     ELSE /\ t' = IF Val(t, lit) > 0 THEN NewTrailLevel(t, 0) ELSE AssumeDecision(t, lit)
          /\ UNCHANGED <<apiVars, input, db, todo, conflict, unsat, failed, pc,
                         result, fresh, reductions>>
  /\ UNCHANGED unsatConstraint

\* Then one literal of the constraint is.
DecideConstraint ==
  /\ Searching /\ ~SatisfiedAll
  /\ Level(t) = Len(assumptions) /\ constraint # {}
  /\ IF Falsified(t, constraint) THEN unsatConstraint' = TRUE /\ Return(20)
     ELSE /\ IF Satisfied(t, constraint) THEN t' = NewTrailLevel(t, 0)
             ELSE \E l \in Undefined(t, constraint) : t' = AssumeDecision(t, l)
          /\ UNCHANGED <<apiVars, input, db, todo, conflict, unsat, failed, pc,
                         result, fresh, reductions, unsatConstraint>>

\* Then any unassigned variable, in any phase.
DecideVariable ==
  /\ Searching /\ ~SatisfiedAll /\ Level(t) >= AssumptionLevels
  /\ \E l \in Undefined(t, LitsOf(maxVar)) : t' = AssumeDecision(t, l)
  /\ UNCHANGED <<apiVars, input, db, todo, conflict, unsat, unsatConstraint,
                 failed, pc, result, fresh, reductions>>

Solving ==
  \/ Propagate \/ AnalyzeStep \/ LearnEmptyClause
  \/ ReturnUnsat \/ ReturnSat \/ ReturnUnknown
  \/ Restart \/ StartReduce \/ Reduce
  \/ DecideAssumption \/ DecideConstraint \/ DecideVariable

-----------------------------------------------------------------------------
(* Failed assumptions.                                                     *)

\* The decisions on which the literals of lits, all true, rest.
Support(d, tr, lits) ==
  LET S[k \in 0..Len(tr.trail)] ==
        IF k = 0 THEN lits
        ELSE LET e == tr.trail[Len(tr.trail) + 1 - k] IN
             IF e.lit \in S[k - 1] /\ e.reason # NoReason
             THEN S[k - 1] \cup {-l : l \in d[e.reason].lits \ {e.lit}}
             ELSE S[k - 1]
  IN {e.lit : e \in {tr.trail[k] : k \in {j \in Positions(tr) :
        tr.trail[j].lit \in S[Len(tr.trail)] /\ tr.trail[j].level > 0
        /\ tr.trail[j].reason = NoReason}}}

\* A mutant: only the false assumptions are marked.
FailingAlone(d, tr) == {l \in Rng(assumptions) : Val(tr, l) < 0}

\* A false assumption that fails on its own, against another assumption, or
\* because of the ones its negation rests on.
Failing(d, tr) ==
  LET A == Rng(assumptions)
      false == {l \in A : Val(tr, l) < 0}
      units == {l \in false : LevelOf(tr, l) = 0}
      clashing == {l \in false : tr.trail[Pos(tr, l)].reason = NoReason}
      first == CHOOSE l \in false : \A k \in false : LevelOf(tr, l) <= LevelOf(tr, k)
  IN IF unsatConstraint THEN Support(d, tr, {-l : l \in constraint})
     ELSE IF units # {} THEN {CHOOSE l \in units : TRUE}
     ELSE IF clashing # {} THEN LET l == CHOOSE l \in clashing : TRUE IN {l, -l}
     ELSE {first} \cup Support(d, tr, {-first})

\* failed () is asked after an unsatisfiable solve.
MarkFailed ==
  /\ pc = "done" /\ result = 20 /\ ~unsat /\ failed = {}
  /\ failed' = Failing(db, t)
  /\ UNCHANGED <<apiVars, searchVars, input, unsatConstraint, pc, result, fresh, reductions>>

-----------------------------------------------------------------------------
(* The API, as far as it reaches the search.                               *)

\* A mutant: the assumptions stay.
NextRoundKept ==
  /\ pc = "done" /\ input # <<>>
  /\ pc' = "ready" /\ failed' = {} /\ result' = 0
  /\ UNCHANGED <<apiVars, searchVars, input, unsatConstraint, fresh, reductions>>

\* The assumptions are dropped when a user goes on after a solve.
NextRound ==
  /\ pc = "done" /\ input # <<>>
  /\ pc' = "ready"
  /\ assumptions' = <<>> /\ constrained' = {} /\ constraint' = {} /\ unsatConstraint' = FALSE
  /\ failed' = {} /\ result' = 0
  /\ UNCHANGED <<opts, maxVar, original, searchVars, input, fresh, reductions>>

Ready == pc = "ready" /\ (unsat \/ Propagated \/ Level(t) > 0)

\* External::internalize: an unknown variable extends the range.
Internalize(lits) == maxVar' = Max({maxVar} \cup {VarOf(l) : l \in lits})

\* Where the trail goes when clause lits is added: to the root, unless
\* incremental lazy backtracking keeps it.
Lazy == IF opts.ilb THEN t ELSE Backtrack(t, 0)

\* A new clause is simplified by the root-level assignment, watched, and
\* then the trail is made to fit it: a unit goes back to the root, a
\* falsified clause below the level that falsifies it, and a unit clause is
\* propagated.
AddClause ==
  LET clause == Head(input[1].add)
      c == Rng(clause)
      lits == {l \in c : Fixed(Lazy, l) >= 0}
      skip == unsat \/ \E l \in c : -l \in c \/ Fixed(Lazy, l) > 0
      unit == CHOOSE l \in lits : TRUE
      Best(w, x) == \A y \in w : WatchRank(Lazy, x) >= WatchRank(Lazy, y)
      Handled(new, w) ==
        LET p == CHOOSE l \in w : Best(w, l)
            q == CHOOSE l \in w : l # p
            down == IF opts.chrono = 0 THEN Backtrack(Lazy, LevelOf(Lazy, q)) ELSE Lazy IN
        IF Level(Lazy) = 0 \/ Val(Lazy, q) >= 0 \/ Val(Lazy, p) > 0 THEN Lazy
        ELSE IF Val(down, p) < 0 THEN Backtrack(down, LevelOf(Lazy, q) - 1)
        ELSE SearchAssign(opts.chrono, new, down, p, FreshId(db))
  IN
  /\ Ready /\ input # <<>> /\ input[1].add # <<>>
  /\ original' = original \cup {c} /\ Internalize(c)
  /\ input' = [input EXCEPT ![1].add = Tail(@)]
  /\ IF skip THEN t' = Lazy /\ UNCHANGED <<db, unsat>>
     ELSE IF lits = {} THEN t' = Lazy /\ unsat' = TRUE /\ UNCHANGED db
     ELSE IF Cardinality(lits) = 1
     THEN t' = SearchAssign(0, db, Backtrack(Lazy, 0), unit, NoReason) /\ UNCHANGED <<db, unsat>>
     ELSE /\ \E w \in MoveLiteralsToWatch(Lazy, clause, lits) :
               /\ db' = AddTo(db, Clause(lits, w, FALSE))
               /\ t' = Handled(db', w)
          /\ UNCHANGED unsat
  /\ UNCHANGED <<opts, assumptions, constrained, constraint, todo, conflict, unsatConstraint,
                 failed, pc, result, fresh, reductions>>

\* Assumptions are kept without repetition.
Assume ==
  LET l == Head(input[1].assume) IN
  /\ Ready /\ input # <<>> /\ input[1].assume # <<>>
  /\ MixedCalls \/ input[1].add = <<>>
  /\ t' = IF ~opts.ilbassumptions THEN Backtrack(t, 0)
          ELSE IF Val(t, l) < 0 THEN Backtrack(t, Max({0, LevelOf(t, l) - 1})) ELSE t
  /\ assumptions' = IF l \in Rng(assumptions) THEN assumptions ELSE Append(assumptions, l)
  /\ input' = [input EXCEPT ![1].assume = Tail(@)] /\ Internalize({l})
  /\ UNCHANGED <<opts, original, constrained, constraint, db, todo, conflict, unsat,
                 unsatConstraint, failed, pc, result, fresh, reductions>>

\* A constraint is closed: the trail goes to the root, whose assignment
\* satisfies the constraint, falsifies it or leaves some of its literals.
Constrain ==
  LET c == CHOOSE c \in input[1].constrain : TRUE
      root == Backtrack(t, 0)
      left == {l \in c : Val(root, l) = 0}
      satisfied == \E l \in c : -l \in c \/ Val(root, l) > 0 IN
  /\ Ready /\ input # <<>> /\ input[1].add = <<>> /\ input[1].constrain # {}
  /\ input' = [input EXCEPT ![1].constrain = {}]
  /\ constrained' = {c} /\ Internalize(c)
  /\ t' = root
  /\ constraint' = IF satisfied THEN {} ELSE left
  /\ unsatConstraint' = (~satisfied /\ left = {})
  /\ UNCHANGED <<opts, original, assumptions, db, todo, conflict, unsat, failed,
                 pc, result, fresh, reductions>>

\* Assigned assumptions come first, in the order of levels and trail.
SortedAssumptions ==
  LET Before(a, b) ==
        CASE Val(t, a) # 0 /\ Val(t, b) # 0 ->
               \/ LevelOf(t, a) < LevelOf(t, b)
               \/ LevelOf(t, a) = LevelOf(t, b) /\ Pos(t, a) < Pos(t, b)
          [] Val(t, a) = 0 /\ Val(t, b) = 0 -> VarOf(a) < VarOf(b)
          [] OTHER -> Val(t, a) # 0
  IN {s \in [DOMAIN assumptions -> Rng(assumptions)] :
        /\ Rng(s) = Rng(assumptions)
        /\ \A j, k \in DOMAIN s : j < k => ~Before(s[k], s[j])}

\* The highest level up to which the trail decides the sorted assumptions s;
\* i is the next level, j the next assumption.
ReuseAssumptions(s) ==
  LET assigned == {k \in DOMAIN s : Val(t, s[k]) # 0}
      top == Min({Level(t), Max({0} \cup {LevelOf(t, s[k]) : k \in assigned})})
      Step(a) ==
        LET i == a.i
            j == a.j
            lit == t.control[i].decision
        IN IF a.stop \/ i > top THEN a
           ELSE IF Val(t, s[j]) # 0 /\ LevelOf(t, s[j]) < i
           THEN [a EXCEPT !.j = j + 1, !.target = i]
           ELSE IF lit # 0 /\ lit = s[j] THEN [a EXCEPT !.i = i + 1, !.j = j + 1, !.target = i]
           ELSE [a EXCEPT !.target = i - 1, !.stop = TRUE]
      state[n \in 0..Level(t) + Len(s)] ==
        IF n = 0 THEN [i |-> 1, j |-> 1, target |-> 0, stop |-> FALSE]
        ELSE ByValue(Step, state[n - 1])
  IN state[Level(t) + Len(s)].target

\* solve () starts: the trail is reused as far as the options allow.
Solve ==
  /\ Ready /\ input # <<>>
  /\ input[1].add = <<>> /\ input[1].assume = <<>> /\ input[1].constrain = {}
  /\ input' = Tail(input)
  /\ IF opts.ilb /\ opts.ilbassumptions /\ assumptions # <<>>
     THEN \E s \in SortedAssumptions :
            /\ assumptions' = s
            /\ t' = Backtrack(t, Min({Level(t), ReuseAssumptions(s)}))
     ELSE /\ t' = IF opts.ilb THEN t ELSE Backtrack(t, 0)
          /\ UNCHANGED assumptions
  /\ pc' = "search"
  /\ fresh' = FALSE /\ reductions' = 0
  /\ UNCHANGED <<opts, maxVar, original, constrained, constraint, db, todo, conflict,
                 unsat, unsatConstraint, failed, result>>

User == NextRound \/ AddClause \/ Assume \/ Constrain \/ Solve \/ MarkFailed

Next == Solving \/ User

\* solve () runs until it returns.
Spec == Init /\ [][Next]_vars /\ WF_vars(Solving)

-----------------------------------------------------------------------------
Ids == DOMAIN db

SearchTypeOK ==
  /\ opts \in Options /\ pc \in {"ready", "search", "reduce", "done"}
  /\ original \subseteq SUBSET LitsOf(maxVar)
  /\ \A i \in Ids :
       /\ db[i].lits \subseteq LitsOf(maxVar) /\ Cardinality(db[i].lits) >= 2
       /\ db[i].watch \in Pairs(db[i].lits)
       /\ db[i].redundant \in BOOLEAN /\ db[i].garbage \in BOOLEAN
  /\ \A k \in Positions(t) :
       /\ t.trail[k].lit \in LitsOf(maxVar) /\ t.trail[k].level \in 0..Level(t)
       /\ t.trail[k].reason \in Ids \cup {NoReason}
  /\ \A i \in 1..Level(t) : t.control[i].trail \in 0..Len(t.trail)
  /\ t.propagated \in 0..Len(t.trail)
  /\ todo \subseteq Ids /\ conflict \in Ids \cup {0} /\ unsat \in BOOLEAN
  /\ Rng(assumptions) \subseteq LitsOf(maxVar) /\ constraint \subseteq LitsOf(maxVar)
  /\ failed \subseteq LitsOf(maxVar) /\ result \in {0, 10, 20}
  /\ fresh \in BOOLEAN /\ reductions \in 0..MaxReductions

\* Backtracking that keeps out-of-order literals, reuse of the trail and
\* strengthening of clauses that are reasons leave an implication graph the
\* analysis can use: every reason implies its literal from false literals
\* assigned before it, the highest of which gives the assignment level, and
\* every decision starts its level.
TrailIsImplicationGraph ==
  /\ \A j, k \in Positions(t) : j # k => VarOf(t.trail[j].lit) # VarOf(t.trail[k].lit)
  /\ \A k \in Positions(t) :
       LET e == t.trail[k]
           others == db[e.reason].lits \ {e.lit} IN
       e.reason # NoReason =>
         /\ e.lit \in db[e.reason].lits
         /\ \A l \in others : Val(t, l) < 0 /\ Pos(t, l) < k
         /\ e.level = MaxLevel(t, others)
  /\ \A i \in 1..Level(t) :
       LET d == t.control[i].decision IN
       d # 0 => t.trail[t.control[i].trail + 1] = [lit |-> d, level |-> i, reason |-> NoReason]

\* Settings under which a clause may watch a false literal that no backtracking
\* propagates again: incremental lazy backtracking adds clauses to a trail it
\* keeps, where a true watch may be unassigned before the false one;
\* on-the-fly strengthening removes a watch that is false at the root level,
\* where chronological backtracking has put a unit above it.
MayMissUnits == opts.ilb \/ (opts.otfs /\ opts.chrono = 1)

\* The two watches and the literals propagated again after backtracking are
\* enough: when propagation ends without a conflict no clause is falsified,
\* and none is left with one unassigned literal and no true one.
PropagationComplete ==
  Propagated => \A i \in Ids :
    \/ db[i].garbage \/ Satisfied(t, db[i].lits)
    \/ Cardinality(Undefined(t, db[i].lits)) > (IF MayMissUnits THEN 0 ELSE 1)

\* Assertion 'FW1' of flush_watches: once the units found above the root are
\* propagated, no clause that a reduction keeps watches a literal it removes.
WatchesSurviveReduce ==
  pc = "reduce" /\ ~unsat /\ Propagated =>
    \A i \in Ids : RemoveFixed(db[i]).garbage \/ RemoveFixed(db[i]).watch = db[i].watch

\* Two watches per clause are enough, in the search and for a reduction that
\* removes falsified literals in place.
PropagationInv ==
  /\ PropagationComplete
  /\ WatchesSurviveReduce

Units == {{t.trail[k].lit} : k \in {j \in Positions(t) : t.trail[j].level = 0}}

Equivalent(F, G) == \A T \in SUBSET Vars : SatFormula(T, F) <=> SatFormula(T, G)

\* Learning, strengthening, subsumption and collection never lose a clause of
\* the user's and never add a wrong one: the irredundant clauses and the
\* root-level units say what the user said, the redundant ones follow.
FormulaKept ==
  ~unsat =>
    LET kept == Units \cup {db[i].lits : i \in {j \in Ids : ~db[j].redundant /\ ~db[j].garbage}} IN
    /\ Equivalent(kept, original)
    /\ Equivalent(kept \cup {db[i].lits : i \in Ids}, original)

\* The first levels, one per assumption, decide assumptions or nothing, and the
\* assumption with the number of a level is true there at the latest, also on a
\* trail that is reused from an earlier solve.  The level need not decide that
\* very assumption: reuse skips assumptions that were propagated without giving
\* them a level.
AssumptionsDecidedFirst ==
  pc \in {"search", "reduce"} =>
    \A i \in 1..Min({Level(t), Len(assumptions)}) :
      /\ t.control[i].decision \in {0} \cup Rng(assumptions)
      /\ Val(t, assumptions[i]) > 0 /\ LevelOf(t, assumptions[i]) <= i

\* Whatever was kept, reused or strengthened, the trail is an implication graph
\* whose first levels decide the assumptions of this solve.
TrailInv ==
  /\ SearchTypeOK
  /\ TrailIsImplicationGraph
  /\ AssumptionsDecidedFirst

\* The failed assumptions are assumptions, and with the constraint if that is
\* what failed they contradict the clauses.
FailedIsCore ==
  failed # {} =>
    /\ failed \subseteq Rng(assumptions)
    /\ ~Satisfiable(maxVar, original \cup (IF unsatConstraint THEN constrained ELSE {}), failed)

\* A model the search stops with satisfies what the user asked for.
ModelFound ==
  pc = "done" /\ result = 10 =>
    LET T == TrueLits(t) \cap Vars IN
    SatFormula(T, original \cup constrained) /\ SatAll(T, Rng(assumptions))

\* What External::check_assumptions_satisfied checks of a model: no assumption is
\* falsified by it.
AssumptionsSatisfied ==
  pc = "done" /\ result = 10 => \A k \in DOMAIN assumptions : Val(t, assumptions[k]) > 0

\* Both answers can be used: the failed assumptions are a core, the trail a model.
AnswersHold ==
  /\ FailedIsCore
  /\ ModelFound

\* Every solve returns: restarts need a new conflict, and reductions become
\* rarer and rarer.
SolveReturns == pc = "search" ~> pc = "done"

\* The search answers as the IPASIR interface promises.
Abstract == INSTANCE Ipasir WITH
  Interruptible <- TRUE,
  verdict <- IF pc # "done" \/ result = 0 THEN "INPUT" ELSE IF result = 10 THEN "SAT" ELSE "UNSAT",
  clauses <- original,
  assumed <- IF pc = "done" /\ result = 0 THEN {} ELSE Rng(assumptions),
  constraint <- IF pc = "done" /\ result = 0 THEN {} ELSE constrained
ImplementsIpasir == Abstract!IpasirSpec
=============================================================================
