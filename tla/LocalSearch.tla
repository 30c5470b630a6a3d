----------------------------- MODULE LocalSearch -----------------------------
(***************************************************************************)
(* What solve () tries between preprocessing and the search: rounds of     *)
(* random walks from the saved phases, the attempt to decide a minimum the *)
(* walk found, and a few lucky assignments.  Any of them may give the      *)
(* answer of the query.                                                    *)
(*                                                                         *)
(* In a walk all variables are assigned, the assumed ones for good.  A     *)
(* clause is broken or watched by one true literal.  Which literal of a    *)
(* broken clause is flipped is random; with positive scores it may be any. *)
(* An assignment is the set of its true literals.  Where the order of the  *)
(* literals in a clause decides, it is the order of their variables.       *)
(*                                                                         *)
(* A second query may add a clause.  It finds the phases and the minimum   *)
(* of the first.                                                           *)
(***************************************************************************)
EXTENDS Vivify

CONSTANTS
  Assumptions,     \* sequences of literals to assume
  Additions,       \* clauses a second query may add
  Phase,           \* the option 'phase', 1 or -1
  MaxBefore,       \* techniques run before a local search
  MaxRounds        \* rounds of local search

ASSUME LocalSearchAssumption ==
  /\ Phase \in {1, -1} /\ MaxBefore \in Nat /\ MaxRounds \in Nat
  /\ \A s \in Assumptions : Rng(s) \subseteq Lits
  /\ \A c \in Additions : c \subseteq Lits /\ Cardinality(c) > 1 /\ ~\E l \in c : -l \in c

VARIABLES
  assumptions,  \* the assumptions of the query
  walker,       \* [minimum, saved, prev]: the global minimum, phases
  queries       \* queries so far

localVars == <<vivifyVars, assumptions, walker, queries>>

Unreached == -1     \* no minimum yet

LocalInit ==
  /\ VivifyInit
  /\ assumptions = <<>>
  /\ walker = [minimum |-> Unreached, saved |-> {}, prev |-> {}]
  /\ queries = 1

Assumed == Rng(assumptions)

Done(res, vals) == [name |-> "done", res |-> res, vals |-> vals]

Searching ==
  /\ ~db.unsat
  /\ UNCHANGED <<opts, models, runs, probes, propfixed, queries>>

KeepClauses == UNCHANGED <<assumptions, db, checked, left, lastFixed, flagged>>

-----------------------------------------------------------------------------
(* Random walks.                                                           *)

\* The user assumed literals before the query.
LocalSearchBegin ==
  /\ Searching
  /\ job = Idle /\ runs <= MaxBefore
  /\ assumptions' \in Assumptions
  /\ job' = [name |-> "rounds", round |-> 0]
  /\ UNCHANGED <<walker, db, checked, left, lastFixed, flagged>>

\* The value of v by phases, the first that has one.
PhaseOf(v, first, second) ==
  IF {v, -v} \cap first # {} THEN CHOOSE l \in {v, -v} \cap first : TRUE
  ELSE IF {v, -v} \cap second # {} THEN CHOOSE l \in {v, -v} \cap second : TRUE
  ELSE Phase * v

\* Save the assignment as phases if it is better than any before.
SaveMinimum(w, vals, broken) ==
  IF w.minimum = Unreached \/ broken < w.minimum
  THEN [w EXCEPT !.minimum = broken, !.saved = vals] ELSE w

Least(S) == CHOOSE l \in S : \A k \in S : VarOf(l) <= VarOf(k)

BrokenIn(watch) == {k \in DOMAIN watch : watch[k] = 0}

\* No literal of a false clause may be flipped.
Hopeless(D, vals, c) ==
  c \cap vals = {} /\ VarsOf(c) \subseteq VarsOf(D.units \cup Assumed)

\* Clauses are cleaned up if there are new units.  Assumptions that are false,
\* or that make a clause false, end local search.
WalkBegin ==
  /\ Searching
  /\ job.name = "rounds" /\ job.round < MaxRounds
  /\ LET Collected(D) == IF lastFixed < Fixed(D) THEN DeleteGarbage(MarkSatisfied(D, opts.kept)) ELSE D
     IN db' = ByValue(Collected, db)
  /\ lastFixed' = Fixed(db)
  /\ checked' = checked \cap DOMAIN db'.cl
  /\ left' = left \cap DOMAIN db'.cl
  /\ flagged' = flagged \cap DOMAIN db'.cl
  /\ UNCHANGED assumptions
  /\ \E vals \in {db.units \cup Assumed \cup
                   {PhaseOf(v, walker.prev, walker.saved) :
                      v \in (1..Var) \ VarsOf(db.units \cup Assumed)}} :
       LET walked == LivesAs(db', FALSE)
           C(k) == db'.cl[k].lits
           watch == [k \in walked |-> IF C(k) \cap vals = {} THEN 0 ELSE Least(C(k) \cap vals)]
           broken == Cardinality(BrokenIn(watch))
       IN IF \/ \E l \in db.units \cup Assumed : -l \in db.units \cup Assumed
             \/ \E k \in walked : Hopeless(db', vals, C(k))
          THEN /\ job' = Done(20, {})
               /\ walker' = [walker EXCEPT !.prev = walker.saved]
          ELSE /\ job' = [name |-> "walk", round |-> job.round + 1, vals |-> vals,
                          watch |-> watch, minimum |-> broken]
               /\ walker' = SaveMinimum(walker, vals, broken)

\* A mutant: only clause k is made.
FlipOne(k, l, vals) ==
  [h \in DOMAIN job.watch |->
     LET now == db.cl[h].lits \cap vals IN
     IF h = k THEN l
     ELSE IF job.watch[h] = -l THEN (IF now = {} THEN 0 ELSE Least(now))
     ELSE job.watch[h]]

\* The watches when l of the broken clause k becomes true: broken clauses with
\* l are made, those watched by -l are watched by another true literal or break.
Flipped(k, l, vals) ==
  [h \in DOMAIN job.watch |->
     LET now == db.cl[h].lits \cap vals IN
     IF job.watch[h] = 0 THEN (IF l \in db.cl[h].lits THEN l ELSE 0)
     ELSE IF job.watch[h] = -l THEN (IF now = {} THEN 0 ELSE Least(now))
     ELSE job.watch[h]]

WalkFlip ==
  /\ Searching /\ KeepClauses
  /\ job.name = "walk"
  /\ \E k \in BrokenIn(job.watch) :
     \E l \in {l \in db.cl[k].lits : VarOf(l) \notin VarsOf(db.units \cup Assumed)} :
     \E vals \in {(job.vals \ {-l}) \cup {l}} :
     \E watch \in {Flipped(k, l, vals)} :
       LET broken == Cardinality(BrokenIn(watch)) IN
       /\ job' = [job EXCEPT !.vals = vals, !.watch = watch,
                             !.minimum = IF broken < @ THEN broken ELSE @]
       /\ walker' = IF broken < job.minimum THEN SaveMinimum(walker, vals, broken) ELSE walker

\* The limit is hit, or no clause is broken.
WalkEnd ==
  /\ Searching /\ KeepClauses
  /\ job.name = "walk"
  /\ job' = IF job.minimum = 0 THEN [name |-> "saved", level |-> 0, vals |-> db.units]
            ELSE [name |-> "rounds", round |-> job.round]
  /\ walker' = [walker EXCEPT !.prev = walker.saved]

LocalSearchEnd ==
  /\ Searching /\ KeepClauses
  /\ job.name = "rounds"
  /\ job' = [name |-> "lucky"]
  /\ UNCHANGED walker

-----------------------------------------------------------------------------
(* Deciding the saved phases.                                              *)

\* Phases are saved for all literals that are assigned, on a conflict for an
\* unknown part of what propagation assigned.
SaveAll(w, vals) ==
  [w EXCEPT !.saved = {l \in @ : -l \notin vals} \cup vals]

SavedPropagate(l) ==
  \E w \in {Watched(db, job.vals \cup {l})} :
    IF ~w.conflict
    THEN /\ job' = [job EXCEPT !.level = @ + 1, !.vals = w.units]
         /\ walker' = SaveAll(walker, w.units)
    ELSE /\ job' = [name |-> "lucky"]
         /\ \E S \in SUBSET (w.units \ job.vals) :
              /\ ~\E x \in S : -x \in S
              /\ walker' = SaveAll(walker, S \cup {l})

\* Assumptions first, then variables in the order of the queue or the scores.
\* The first case does not occur: a walk satisfied the assumptions.
SavedDecide ==
  /\ Searching /\ KeepClauses
  /\ job.name = "saved"
  /\ IF job.level < Len(assumptions)
     THEN LET l == assumptions[job.level + 1] IN
          IF -l \in job.vals THEN job' = Done(20, {}) /\ UNCHANGED walker
          ELSE IF l \in job.vals THEN job' = [job EXCEPT !.level = @ + 1] /\ UNCHANGED walker
          ELSE SavedPropagate(l)
     ELSE IF Cardinality(job.vals) = Var THEN job' = Done(10, job.vals) /\ UNCHANGED walker
     ELSE \E v \in (1..Var) \ VarsOf(job.vals) : SavedPropagate(PhaseOf(v, walker.saved, {}))

-----------------------------------------------------------------------------
(* Lucky phases.                                                           *)

\* Decide a literal that has no value and propagate.
LuckyAssume(D, st, l) ==
  LET F(w) == [vals |-> w.units, ok |-> ~w.conflict]
  IN IF ~st.ok \/ {l, -l} \cap st.vals # {} THEN st ELSE ByValue(F, Watched(D, st.vals \cup {l}))

InOrder(D, start, s) ==
  LET Step(st, l) == LET F(x) == LuckyAssume(D, x, l) IN ByValue(F, st)
  IN FoldLeft(Step, start, s)

Root(D) == [vals |-> D.units, ok |-> TRUE]

Forward(sign) == [i \in 1..Var |-> sign * i]

Backward(sign) == [i \in 1..Var |-> sign * (Var + 1 - i)]

\* The literals of clause c that satisfy it or can be decided with this sign.
Usable2(vals, c, sign) == {l \in c : l \in vals \/ (-l \notin vals /\ sign * l > 0)}

\* Every clause is satisfied or has a literal of this sign.
TriviallySatisfiable(D, sign) ==
  LET st == InOrder(D, Root(D), Forward(sign))
  IN [st EXCEPT !.ok = @ /\ \A k \in LivesAs(D, FALSE) : Usable2(D.units, D.cl[k].lits, sign) # {}]

\* The first literal of this sign in a clause that is not satisfied is decided,
\* the variables without value get the other sign.
HornSatisfiable(D, sign) ==
  LET Visit(st, k) ==
        LET S == Usable2(st.vals, D.cl[k].lits, sign)
        IN IF S = {} THEN [st EXCEPT !.ok = FALSE] ELSE LuckyAssume(D, st, Least(S))
      Step(st, k) == LET F(x) == Visit(x, k) IN ByValue(F, st)
      G(st) == InOrder(D, st, Forward(-sign))
  IN ByValue(G, FoldLeft(Step, Root(D), Ascending(LivesAs(D, FALSE))))

LuckyAttempts(D) ==
  << TriviallySatisfiable(D, -1), TriviallySatisfiable(D, 1),
     InOrder(D, Root(D), Forward(1)), InOrder(D, Root(D), Forward(-1)),
     InOrder(D, Root(D), Backward(-1)), InOrder(D, Root(D), Backward(1)),
     HornSatisfiable(D, 1), HornSatisfiable(D, -1) >>

\* Not tried with assumptions.  The solver may be terminated on the way; then,
\* and without luck, the search follows.
LuckyPhases ==
  /\ Searching /\ KeepClauses
  /\ job.name = "lucky"
  /\ \/ job' = Done(0, {})
     \/ /\ assumptions = <<>>
        /\ \E s \in {LuckyAttempts(db)} :
             LET lucky == {i \in DOMAIN s : s[i].ok}
             IN lucky # {} /\ job' = Done(10, s[Min(lucky)].vals)
  /\ UNCHANGED walker

-----------------------------------------------------------------------------
\* The next query adds a clause over variables that have no value.
NewQuery ==
  /\ ~db.unsat /\ job.name = "done" /\ queries = 1
  /\ queries' = 2
  /\ assumptions' = <<>>
  /\ \E c \in Additions :
       /\ \A l \in c : Active(db, l)
       /\ db' = [NewClause(db, opts.kept, c, FALSE, FALSE) EXCEPT !.justified = db.justified]
       /\ models' = {T \in models : SatClause(T, c)}
  /\ job' = Idle
  /\ UNCHANGED <<opts, runs, checked, left, probes, propfixed, lastFixed, flagged, walker>>

LocalNext ==
  \/ VivifyNext /\ queries = 1 /\ UNCHANGED <<assumptions, walker, queries>>
  \/ LocalSearchBegin \/ WalkBegin \/ WalkFlip \/ WalkEnd \/ LocalSearchEnd
  \/ SavedDecide \/ LuckyPhases \/ NewQuery

LocalSpec == LocalInit /\ [][LocalNext]_localVars

-----------------------------------------------------------------------------
\* An answer before the search is right: a model of the formula and the
\* assumptions, or no model of the formula has the assumptions.  It does not
\* depend on phases and a minimum that an earlier query left.
EarlyAnswers ==
  job.name = "done" =>
    /\ job.res = 10 => /\ Cardinality(job.vals) = Var /\ Assumed \subseteq job.vals
                       /\ {v \in 1..Var : v \in job.vals} \in models
    /\ job.res = 20 => \A T \in models : \E l \in Assumed : ~SatLit(T, l)

\* In a walk exactly the broken clauses are false and every other clause is
\* watched by a literal that is true; assumptions are never flipped.
OneWatch ==
  job.name = "walk" =>
    /\ db.units \cup Assumed \subseteq job.vals
    /\ \A k \in DOMAIN job.watch :
         IF job.watch[k] = 0 THEN db.cl[k].lits \cap job.vals = {}
         ELSE job.watch[k] \in db.cl[k].lits \cap job.vals

\* In the first query the saved phases are those of the global minimum: so
\* many clauses are false by them.
SavedMinimum ==
  queries = 1 /\ walker.minimum # Unreached /\ job.name \in {"walk", "rounds", "saved"} =>
    Cardinality({k \in LivesAs(db, FALSE) : db.cl[k].lits \cap walker.saved = {}}) = walker.minimum

\* Local search answers only what is so, flips against watches that are right and
\* saves the phases of the minimum it counts.
LocalSearchInv ==
  /\ EarlyAnswers
  /\ OneWatch
  /\ SavedMinimum
=============================================================================
