----------------------------- MODULE Propagator -----------------------------
(***************************************************************************)
(* The search with a connected external propagator: the user's object is   *)
(* told about assignments of observed variables, new levels and            *)
(* backtracking, propagates literals whose reasons it gives later, adds    *)
(* clauses while the search runs, may force the search back, and has to    *)
(* approve every model.                                                    *)
(*                                                                         *)
(* The propagator stands for a theory, a sequence of clauses.  It knows    *)
(* only what it was told, gives a reason its theory holds, and says no to  *)
(* a model that falsifies the theory.                                      *)
(***************************************************************************)
EXTENDS Search

CONSTANTS
  Theory,      \* sequence of clauses over observed variables
  MaxForced    \* how often the propagator forces the search back

ASSUME PropagatorAssumption ==
  /\ MaxForced \in Nat
  /\ \A o \in Options : o.is_lazy \in BOOLEAN /\ o.forgettable \in BOOLEAN

VARIABLES
  observed,    \* observed variables
  view,        \* what the propagator was told: a set of literals per level
  notified,    \* how much of the trail it was told
  cb,          \* the callback that is next: "propagate", "clauses", "model" or "idle"
  again,       \* clauses were added, ask for propagations again
  given,       \* theory clauses added by the propagator on its own
  forced       \* backtracks forced so far

propVars == <<observed, view, notified, cb, again, given, forced>>
allVars == <<vars, propVars>>

TheoryVars == {VarOf(l) : l \in UNION Rng(Theory)}

PropagatorInit ==
  /\ InitWith(Max(TheoryVars))
  /\ observed = TheoryVars /\ view = << {} >> /\ notified = 0
  /\ cb = "propagate" /\ again = FALSE /\ given = {} /\ forced = 0

\* A propagated literal remembers with its reason which clause the propagator
\* will explain it with.
ReasonOf(i) == ExternalReason + 1 - i
Why(reason) == Theory[ExternalReason + 1 - reason]
IsExternal(e) == e.reason <= ExternalReason

Known == UNION Rng(view)

-----------------------------------------------------------------------------
(* Notifications.                                                          *)

\* Literals of observed variables on the trail tr above position from.
ObservedLits(obs, tr, from) ==
  {tr.trail[k].lit : k \in {j \in from + 1..Len(tr.trail) : VarOf(tr.trail[j].lit) \in obs}}

\* notify_assignments: the rest of the trail is told; it becomes part of the
\* propagator's highest level.
Told ==
  IF opts.is_lazy THEN view
  ELSE [view EXCEPT ![Len(view)] = @ \cup ObservedLits(observed, t, notified)]

NotifyAssignments ==
  view' = Told /\ notified' = IF opts.is_lazy THEN notified ELSE Len(t.trail)

NotifyDecision ==
  /\ view' = IF opts.is_lazy THEN view ELSE Append(Told, {})
  /\ notified' = IF opts.is_lazy THEN notified ELSE Len(t.trail)

\* notify_backtrack, when the search goes from t to t', and what backtrack and
\* search_assign_driving tell afterwards; v is the view and n literals of t
\* were told before.
NotifyChange(obs, v, n) ==
  LET down == Level(t') < Level(t)
      base == IF down THEN SubSeq(v, 1, Level(t') + 1) ELSE v
      from == IF down THEN Min({n, t.control[Level(t') + 1].trail}) ELSE n
  IN IF opts.is_lazy THEN UNCHANGED <<view, notified>>
     ELSE /\ view' = [base EXCEPT ![Len(base)] = @ \cup ObservedLits(obs, t', from)]
          /\ notified' = Len(t'.trail)

NotifyBacktrack ==
  IF Level(t') < Level(t) THEN NotifyChange(observed, view, notified)
  ELSE UNCHANGED <<view, notified>>

\* A mutant: the levels are told after the literals.
RenotifyAtRoot ==
  /\ view' = [i \in 1..Level(t') + 1 |-> IF i = 1 THEN ObservedLits(observed, t', 0) ELSE {}]
  /\ notified' = Len(t'.trail)

\* renotify_full_trail: a kept trail is told again from the root, every
\* literal on the highest level up to it.
RenotifyFullTrail ==
  LET Top(k) == Max({0} \cup {t'.trail[j].level : j \in 1..k}) IN
  /\ view' = [i \in 1..Level(t') + 1 |->
       {t'.trail[k].lit : k \in {j \in Positions(t') :
          VarOf(t'.trail[j].lit) \in observed /\ Top(j) = i - 1}}
       \cup (IF i = 1 THEN view[1] ELSE {})]
  /\ notified' = Len(t'.trail)

-----------------------------------------------------------------------------
(* Clauses of the propagator.                                              *)

Result(d, tr, c, u) == [db |-> d, t |-> tr, conflict |-> c, unsat |-> u]

\* handle_external_clause for a clause that watches w: the first watch is
\* falsified, propagated, or nothing happens.
HandleExternalClause(d, id, w) ==
  LET p == CHOOSE l \in w : \A k \in w : WatchRank(t, l) >= WatchRank(t, k)
      q == CHOOSE l \in w : l # p
      down == IF opts.chrono = 0 /\ Val(t, q) < 0 THEN Backtrack(t, LevelOf(t, q)) ELSE t
  IN IF Val(t, p) > 0 \/ Val(t, q) >= 0 \/ Level(t) = 0 THEN Result(d, t, 0, FALSE)
     ELSE IF Val(down, p) < 0 THEN Result(d, down, id, FALSE)
     ELSE Result(d, SearchAssign(opts.chrono, d, down, p, id), 0, FALSE)

\* add_external_clause: root-level falsified literals are removed; the empty
\* clause ends the search, a unit goes back to the root.
AddExternalClause(c) ==
  LET lits == {l \in c : Fixed(t, l) >= 0}
      unit == CHOOSE l \in lits : TRUE
      watches == MoveLiteralsToWatch(t, SetToSeq(lits), lits)
  IN IF \E l \in c : Fixed(t, l) > 0 THEN {Result(db, t, 0, FALSE)}
     ELSE IF lits = {} THEN {Result(db, t, 0, TRUE)}
     ELSE IF Cardinality(lits) = 1
     THEN {Result(db, SearchAssign(0, db, Backtrack(t, 0), unit, NoReason), 0, FALSE)}
     ELSE {HandleExternalClause(AddTo(db, Clause(lits, w, opts.forgettable)), FreshId(db), w) :
             w \in watches}

\* The outcome r of adding a clause becomes the next state.
Become(r) ==
  /\ db' = r.db /\ t' = r.t /\ conflict' = r.conflict /\ unsat' = r.unsat
  /\ UNCHANGED <<apiVars, input, todo, unsatConstraint, failed, pc, result, fresh, reductions>>

-----------------------------------------------------------------------------
(* The callbacks of external_propagate.                                    *)

\* cb_propagate: a literal that the theory implies from what was told.  At the
\* root, or when the literal is false already, its reason is added at once;
\* otherwise it is assigned without one.
CbPropagate ==
  /\ Searching /\ cb = "propagate" /\ ~opts.is_lazy
  /\ \E i \in DOMAIN Theory : \E l \in Theory[i] :
       /\ \A k \in Theory[i] \ {l} : -k \in UNION Rng(Told)
       /\ Val(t, l) <= 0
       /\ IF Val(t, l) = 0 /\ Level(t) > 0
          THEN Become(Result(db, SearchAssign(opts.chrono, db, t, l, ReasonOf(i)), 0, FALSE))
          ELSE \E r \in AddExternalClause(Theory[i]) : Become(r)
  /\ NotifyChange(observed, Told, Len(t.trail))
  /\ UNCHANGED <<observed, cb, again, given, forced>>

\* A mutant: the flag that asks for another round is not reset.
CbNothingAgain ==
  /\ Searching /\ cb = "propagate"
  /\ cb' = IF opts.is_lazy THEN "idle" ELSE "clauses"
  /\ again' = again
  /\ NotifyAssignments
  /\ UNCHANGED <<vars, observed, given, forced>>

\* cb_propagate returns 0; a lazy propagator is not asked.
CbNothing ==
  /\ Searching /\ cb = "propagate"
  /\ cb' = IF opts.is_lazy THEN "idle" ELSE "clauses"
  /\ again' = FALSE
  /\ NotifyAssignments
  /\ UNCHANGED <<vars, observed, given, forced>>

\* cb_has_external_clause: any clause of the theory.
CbClause ==
  /\ Searching /\ cb = "clauses"
  /\ \E i \in DOMAIN Theory \ given :
       /\ \E r \in AddExternalClause(Theory[i]) : Become(r)
       /\ given' = given \cup {i}
  /\ again' = TRUE
  /\ NotifyChange(observed, Told, Len(t.trail))
  /\ UNCHANGED <<observed, cb, forced>>

CbNoClause ==
  /\ Searching /\ cb = "clauses"
  /\ cb' = IF again THEN "propagate" ELSE "idle"
  /\ NotifyAssignments
  /\ UNCHANGED <<vars, observed, again, given, forced>>

-----------------------------------------------------------------------------
(* Conflict analysis explains external propagations first.                 *)

\* A mutant: literals that are false on any level are removed, so that a unit
\* is left.
LearnReasonShort(a, k) ==
  [a EXCEPT !.t.trail[k] = [@ EXCEPT !.level = 0, !.reason = NoReason]]

\* The reason of the literal at position k is learned; the trail is not
\* touched, but for a unit, which becomes one of the root level.
LearnReason(a, k) ==
  LET e == a.t.trail[k]
      lits == {l \in Why(e.reason) : Fixed(a.t, l) >= 0}
      w == CHOOSE w \in MoveLiteralsToWatch(a.t, SetToSeq(lits), lits) : TRUE
  IN IF Cardinality(lits) = 1
     THEN [a EXCEPT !.t.trail[k] = [@ EXCEPT !.level = 0, !.reason = NoReason]]
     ELSE [a EXCEPT !.db = AddTo(@, Clause(lits, w, opts.forgettable)),
                    !.t.trail[k].reason = FreshId(a.db)]

\* Down the trail: the reason of a needed literal is learned if it is not
\* known, and the literals of the reason are needed too.
ExplainReason(a, k) ==
  LET e == a.t.trail[k]
      b == IF IsExternal(e) THEN LearnReason(a, k) ELSE a
      r == b.t.trail[k].reason
  IN IF e.lit \notin a.need \/ e.level = 0 THEN a
     ELSE IF r = NoReason THEN b
     ELSE [b EXCEPT !.need = @ \cup {-l : l \in b.db[r].lits \ {e.lit}}]

\* A mutant: the level stays that of the propagation.
KeptLevel(a, k) == a

\* And up again: the real assignment level of a needed literal.
RealLevel(a, k) ==
  LET e == a.t.trail[k]
      real == MaxLevel(a.t, a.db[e.reason].lits \ {e.lit})
  IN IF e.lit \notin a.need \/ e.level = 0 \/ e.reason = NoReason THEN a
     ELSE [a EXCEPT !.t.trail[k] =
             [@ EXCEPT !.level = Min({@, real}), !.reason = IF real = 0 THEN NoReason ELSE @]]

\* One step of op after the other at the positions s.
Along(op(_, _), a, s) == FoldLeft(LAMBDA b, k : ByValue(LAMBDA c : op(c, k), b), a, s)

Upwards == [k \in Positions(t) |-> k]

\* A mutant: the levels are corrected on the way down, before those they depend on.
ExplainedDownwards(need) ==
  LET down == Reverse(Upwards)
  IN Along(RealLevel, Along(ExplainReason, [db |-> db, t |-> t, need |-> need], down), down)

\* explain_external_propagations from the true literals in need.
Explained(need) ==
  Along(RealLevel,
        Along(ExplainReason, [db |-> db, t |-> t, need |-> need], Reverse(Upwards)), Upwards)

AnalyzeExplained ==
  /\ pc = "search" /\ ~unsat /\ todo = {} /\ conflict # 0
  /\ \E e \in {IF opts.is_lazy THEN [db |-> db, t |-> t]
               ELSE Explained({-l : l \in db[conflict].lits})} :
     \E r \in AnalyzeBelow(opts, e.db, e.t, conflict, Len(assumptions)) :
       /\ db' = r.db /\ t' = r.t /\ unsat' = r.unsat
       /\ conflict' = IF r.unsat THEN conflict ELSE 0
  /\ fresh' = TRUE
  /\ NotifyBacktrack
  /\ cb' = "propagate"
  /\ UNCHANGED <<apiVars, input, todo, unsatConstraint, failed, pc, result, reductions,
                 observed, again, given, forced>>

-----------------------------------------------------------------------------
(* Models and decisions.                                                   *)

\* cb_check_found_model: the model is approved, or a clause has to follow.
CbCheckModel ==
  /\ Searching /\ cb = "idle" /\ SatisfiedAll
  /\ IF \A c \in Rng(Theory) : Satisfied(t, c)
     THEN cb' = cb /\ Return(10) /\ UNCHANGED unsatConstraint
     ELSE cb' = "model" /\ UNCHANGED vars
  /\ NotifyAssignments
  /\ UNCHANGED <<observed, again, given, forced>>

\* The clause need not be falsified.  A conflict is left on its own level; a
\* trail that did not change is checked again.
CbModelClause ==
  /\ Searching /\ cb = "model"
  /\ \E i \in {j \in DOMAIN Theory : j \notin given \/ Falsified(t, Theory[j])} :
       /\ \E r \in AddExternalClause(Theory[i]) :
            /\ Become(IF r.conflict = 0 THEN r
                      ELSE [r EXCEPT !.t = Backtrack(@, MaxLevel(@, r.db[r.conflict].lits))])
            /\ cb' \in (IF r.unsat \/ r.conflict # 0 \/ r.t # t THEN {"propagate"}
                        ELSE {"model", "idle"})
       /\ given' = given \cup {i}
  /\ NotifyChange(observed, Told, Len(t.trail))
  /\ UNCHANGED <<observed, again, forced>>

\* While it is asked for a decision the propagator may force the search back;
\* a decision follows without further callbacks.
ForceBacktrack ==
  /\ Searching /\ cb = "idle" /\ ~SatisfiedAll /\ ~opts.is_lazy
  /\ Level(t) >= AssumptionLevels /\ forced < MaxForced
  /\ \E n \in 0..Level(t) - 1 : t' = Backtrack(t, n)
  /\ NotifyBacktrack
  /\ cb' = "decide" /\ forced' = forced + 1
  /\ UNCHANGED <<apiVars, input, db, todo, conflict, unsat, unsatConstraint,
                 failed, pc, result, fresh, reductions, observed, again, given>>

\* Levels are announced; what the propagator suggests is one of the choices.
DecideNotified ==
  /\ cb \in {"idle", "decide"}
  /\ DecideAssumption \/ DecideConstraint \/ DecideVariable
  /\ IF Level(t') > Level(t) THEN NotifyDecision ELSE NotifyAssignments
  /\ cb' = "propagate"
  /\ UNCHANGED <<observed, again, given, forced>>

\* The other steps of the loop.
LoopNotified ==
  /\ \/ cb = "idle" /\ (Restart \/ StartReduce \/ ReturnUnknown)
     \/ Reduce \/ ReturnUnsat \/ LearnEmptyClause
  /\ NotifyBacktrack
  /\ cb' = "propagate"
  /\ UNCHANGED <<observed, again, given, forced>>

\* The failed assumptions: reasons are learned as far as they are needed.
FailedExplained ==
  /\ pc = "done" /\ result = 20 /\ ~unsat /\ failed = {}
  /\ \E e \in {Explained(IF unsatConstraint THEN {-l : l \in constraint}
                         ELSE {-l : l \in {k \in Rng(assumptions) : Val(t, k) < 0}})} :
       db' = e.db /\ t' = e.t /\ failed' = Failing(e.db, e.t)
  /\ UNCHANGED <<apiVars, input, todo, conflict, unsat, unsatConstraint, pc, result,
                 fresh, reductions, propVars>>

-----------------------------------------------------------------------------
(* The user between solves.                                                *)

UserNotified ==
  /\ NextRound \/ AddClause \/ Assume \/ Constrain
  /\ IF t' = t THEN UNCHANGED <<view, notified>> ELSE NotifyChange(observed, view, notified)
  /\ UNCHANGED <<observed, cb, again, given, forced>>

SolveNotified ==
  /\ Solve
  /\ IF opts.ilb /\ ~opts.is_lazy /\ t'.trail # <<>> THEN RenotifyFullTrail ELSE NotifyBacktrack
  /\ cb' = "propagate"
  /\ UNCHANGED <<observed, again, given, forced>>

\* add_observed_var: an assignment above the root the propagator could not be
\* told of in order is undone, a fixed one is told explicitly.
Observe(v) ==
  /\ Ready /\ input # <<>> /\ v \in Vars \ observed
  /\ observed' = observed \cup {v}
  /\ t' = IF Val(t, v) # 0 /\ Level(t) > 0 THEN Backtrack(t, Max({0, LevelOf(t, v) - 1})) ELSE t
  /\ IF Fixed(t, v) # 0 /\ ~opts.is_lazy
     THEN /\ view' = << view[1] \cup {Fixed(t, v) * v} \cup ObservedLits(observed', t', notified) >>
          /\ notified' = Len(t'.trail)
     ELSE IF Level(t') < Level(t) THEN NotifyChange(observed', view, notified)
     ELSE UNCHANGED <<view, notified>>
  /\ UNCHANGED <<apiVars, input, db, todo, conflict, unsat, unsatConstraint, failed, pc,
                 result, fresh, reductions, cb, again, given, forced>>

\* remove_observed_var goes back to the root unless the variable is fixed; the
\* propagator forgets it.
Unobserve(v) ==
  LET Forget(w) == [i \in DOMAIN w |-> w[i] \ {v, -v}] IN
  /\ Ready /\ input # <<>> /\ v \in observed \ TheoryVars
  /\ observed' = observed \ {v}
  /\ t' = IF Fixed(t, v) = 0 THEN Backtrack(t, 0) ELSE t
  /\ IF Level(t') < Level(t) THEN NotifyChange(observed', Forget(view), notified)
     ELSE view' = Forget(view) /\ UNCHANGED notified
  /\ UNCHANGED <<apiVars, input, db, todo, conflict, unsat, unsatConstraint, failed, pc,
                 result, fresh, reductions, cb, again, given, forced>>

PropagatorSolving ==
  \/ Propagate /\ UNCHANGED propVars
  \/ CbPropagate \/ CbNothing \/ CbClause \/ CbNoClause
  \/ CbCheckModel \/ CbModelClause \/ ForceBacktrack
  \/ AnalyzeExplained \/ DecideNotified \/ LoopNotified

PropagatorNext ==
  \/ PropagatorSolving
  \/ FailedExplained \/ UserNotified \/ SolveNotified
  \/ \E v \in Vars : Observe(v) \/ Unobserve(v)

PropagatorSpec ==
  PropagatorInit /\ [][PropagatorNext]_allVars /\ WF_allVars(PropagatorSolving)

-----------------------------------------------------------------------------
PropagatorTypeOK ==
  /\ \A v \in observed : v \in 1..MaxVar
  /\ Known \subseteq LitsOf(MaxVar) /\ notified \in Nat
  /\ cb \in {"propagate", "clauses", "model", "decide", "idle"} /\ again \in BOOLEAN
  /\ given \subseteq DOMAIN Theory /\ forced \in 0..MaxForced
  /\ \A k \in Positions(t) : IsExternal(t.trail[k]) => t.trail[k].lit \in Why(t.trail[k].reason)

\* What the propagator was told is the observed part of the trail, literal by
\* literal and level by level: backtracking that keeps literals, lowered
\* levels of explained literals, reused trails and newly observed variables
\* included.
ViewIsTrail ==
  ~opts.is_lazy =>
    /\ notified <= Len(t.trail)
    /\ Known = ObservedLits(observed, t, 0) \ ObservedLits(observed, t, notified)
    /\ pc \in {"search", "reduce"} => Len(view) = Level(t) + 1

\* What the propagator keeps when the search goes back to any level is what
\* the search keeps.
ViewBacktracks ==
  ~opts.is_lazy /\ pc \in {"search", "reduce"} =>
    \A n \in 0..Level(t) - 1 :
      UNION {view[i] : i \in 1..n + 1} \subseteq TrueLits(Backtrack(t, n))

\* The propagator and the search agree on the observed literals and their levels,
\* now and after going back to any level.
ViewInv ==
  /\ PropagatorTypeOK
  /\ ViewIsTrail
  /\ ViewBacktracks

\* Reasons, also those not asked for yet, are false before their literals, and no
\* literal is on a lower level than its reason says.  It may be on a higher one:
\* the level of an external propagation is only guessed.
ReasonsAreEarlier ==
  \A k \in Positions(t) :
    LET e == t.trail[k]
        others == (IF IsExternal(e) THEN Why(e.reason) ELSE db[e.reason].lits) \ {e.lit}
    IN e.reason # NoReason =>
         /\ \A l \in others : Val(t, l) < 0 /\ Pos(t, l) < k
         /\ e.level >= MaxLevel(t, others)

\* What explain_external_propagations is for: the analysis of a conflict meets
\* no unknown reason and no guessed level.  Literals it does not reach, and those
\* propagated from them, keep their levels.
LevelsAreAccurate ==
  pc = "search" /\ ~unsat /\ todo = {} /\ conflict # 0 /\ ~opts.is_lazy =>
    \A e \in {Explained({-l : l \in db[conflict].lits})} :
      /\ {-l : l \in db[conflict].lits} \subseteq e.need
      /\ \A k \in Positions(t) :
           LET x == e.t.trail[k]
               others == e.db[x.reason].lits \ {x.lit}
           IN x.lit \in e.need /\ x.level > 0 /\ x.reason # NoReason =>
                /\ ~IsExternal(x)
                /\ {-l : l \in {m \in others : LevelOf(e.t, m) > 0}} \subseteq e.need
                /\ x.level = MaxLevel(e.t, others)

\* Reasons given late fit the trail, and where the analysis goes the levels are
\* those of the reasons.
ReasonsInOrder == ReasonsAreEarlier /\ LevelsAreAccurate

\* With the theory the clauses of the solver say what the user's say, also
\* those learned from explanations.
TheoryRespected ==
  LET all == original \cup Rng(Theory) IN
  /\ ~unsat => Equivalent(all \cup Units \cup {db[i].lits : i \in Ids}, all)
  /\ pc = "done" /\ result = 20 =>
       ~Satisfiable(maxVar, all \cup constrained, Rng(assumptions))

\* A model the propagator approved satisfies clauses, assumptions and theory.
ApprovedModel ==
  pc = "done" /\ result = 10 =>
    LET T == TrueLits(t) \cap Vars IN
    SatFormula(T, original \cup constrained \cup Rng(Theory)) /\ SatAll(T, Rng(assumptions))

\* The failed assumptions contradict the clauses and the theory.
FailedWithTheory ==
  failed # {} =>
    ~Satisfiable(maxVar, original \cup Rng(Theory) \cup constrained, failed)

\* Learned clauses, models and cores are right for the clauses and the theory
\* together, although the theory is told clause by clause and only on demand.
AnswersRespectTheory ==
  /\ TheoryRespected
  /\ ApprovedModel
  /\ FailedWithTheory

\* Callbacks, explanations and forced backtracking do not keep solve () from
\* returning.
PropagatorReturns == pc = "search" ~> pc = "done"
=============================================================================
