----------------------------- MODULE SolverApi -----------------------------
(***************************************************************************)
(* solver.cpp and the parts of external.cpp its calls reach: the state     *)
(* machine behind CaDiCaL's API.  Every call is an action; its guard is    *)
(* the call's contract (a violated contract aborts the program), and       *)
(* solve () is two steps, because the state SOLVING is visible to          *)
(* terminate () from another thread.  The search itself is an oracle here. *)
(***************************************************************************)
EXTENDS Cnf

CONSTANTS
  MaxVar,    \* variables are 1..MaxVar
  Calls      \* the calls besides IPASIR's that the user makes

ASSUME SolverApiAssumption ==
  /\ MaxVar \in Nat
  /\ Calls \subseteq {"flip", "lookahead", "phase"}

VARIABLES
  state,               \* Solver::_state
  adding_clause,       \* the last literal given to add () was not zero
  adding_constraint,   \* the last literal given to constrain () was not zero
  pending,             \* the literals of the clause that is being added
  clauses,             \* the clauses added so far
  assumptions,         \* External::assumptions
  constraint,          \* External::constraint, and whether its zero was added
  max_var,             \* External::max_var
  extended,            \* External::extended
  model,               \* the variables the internal solver has set to true
  limited,             \* a limit is set or only preprocessing is asked for
  termination_forced   \* Internal::termination_forced

vars == <<state, adding_clause, adding_constraint, pending, clauses,
          assumptions, constraint, max_var, extended, model, limited,
          termination_forced>>

Lits == LitsOf(MaxVar)

READY == {"CONFIGURING", "STEADY", "SATISFIED", "UNSATISFIED"}
VALID == READY \cup {"ADDING"}
States == VALID \cup {"SOLVING", "DELETING"}

\* No complete assignment is held: zero is not a variable.
NoModel == {0}

NoConstraint == [lits |-> {}, ended |-> FALSE]

Init ==
  /\ state = "CONFIGURING"
  /\ adding_clause = FALSE /\ adding_constraint = FALSE
  /\ pending = {} /\ clauses = {}
  /\ assumptions = {} /\ constraint = NoConstraint
  /\ max_var = 0 /\ extended = FALSE /\ model = NoModel
  /\ limited = FALSE /\ termination_forced = FALSE

-----------------------------------------------------------------------------
(* transition_to_steady_state, reset_extended and internalize *)

\* Mutation of SteadyAssumptions: a verdict's assumptions are not reset.
KeptAssumptions == assumptions

\* The assumptions after transition_to_steady_state: a verdict's are reset.
SteadyAssumptions ==
  IF state \in {"SATISFIED", "UNSATISFIED"} THEN {} ELSE assumptions

SteadyConstraint ==
  IF state \in {"SATISFIED", "UNSATISFIED"} THEN NoConstraint ELSE constraint

\* The value of the flag afterwards.
reset_extended == FALSE

\* The largest variable after internalize (l) has initialized missing ones.
Internalized(l) == IF VarOf(l) > max_var THEN VarOf(l) ELSE max_var

\* What the calls that change the problem share.  The assignment of the
\* internal solver can not be asked for outside of SATISFIED.
LeavesVerdict ==
  /\ extended' = reset_extended
  /\ model' = NoModel
  /\ UNCHANGED <<limited, termination_forced>>

-----------------------------------------------------------------------------
(* The IPASIR calls and their companions. *)

Add(l) ==
  /\ state \in VALID
  /\ pending' = pending \cup {l}
  /\ adding_clause' = TRUE
  /\ state' = "ADDING"
  /\ assumptions' = SteadyAssumptions
  /\ constraint' = SteadyConstraint
  /\ max_var' = Internalized(l)
  /\ LeavesVerdict
  /\ UNCHANGED <<adding_constraint, clauses>>

\* The state is STEADY also when the zero of a constraint is missing: the
\* transition to STEADY has happened before adding_constraint is looked at.
AddZero ==
  /\ state \in VALID
  /\ clauses' = clauses \cup {pending}
  /\ pending' = {}
  /\ adding_clause' = FALSE
  /\ state' = "STEADY"
  /\ assumptions' = SteadyAssumptions
  /\ constraint' = SteadyConstraint
  /\ LeavesVerdict
  /\ UNCHANGED <<adding_constraint, max_var>>

\* A constraint whose zero was added is replaced, else it grows.
Growing ==
  IF SteadyConstraint.ended THEN {} ELSE SteadyConstraint.lits

Constrain(l) ==
  /\ state \in VALID
  /\ constraint' = [lits |-> Growing \cup {l}, ended |-> FALSE]
  /\ adding_constraint' = TRUE
  /\ state' = "ADDING"
  /\ assumptions' = SteadyAssumptions
  /\ max_var' = Internalized(l)
  /\ LeavesVerdict
  /\ UNCHANGED <<adding_clause, pending, clauses>>

ConstrainZero ==
  /\ state \in VALID
  /\ constraint' = [lits |-> Growing, ended |-> TRUE]
  /\ adding_constraint' = FALSE
  /\ state' = "STEADY"
  /\ assumptions' = SteadyAssumptions
  /\ LeavesVerdict
  /\ UNCHANGED <<adding_clause, pending, clauses, max_var>>

Assume(l) ==
  /\ state \in VALID
  /\ assumptions' = SteadyAssumptions \cup {l}
  /\ constraint' = SteadyConstraint
  /\ state' = "STEADY"
  /\ max_var' = Internalized(l)
  /\ LeavesVerdict
  /\ UNCHANGED <<adding_clause, adding_constraint, pending, clauses>>

Reserve(v) ==
  /\ state \in VALID
  /\ state' = "STEADY"
  /\ assumptions' = SteadyAssumptions
  /\ constraint' = SteadyConstraint
  /\ max_var' = Internalized(v)
  /\ LeavesVerdict
  /\ UNCHANGED <<adding_clause, adding_constraint, pending, clauses>>

\* reset_assumptions () and reset_constraint () keep the extended flag.
ResetAssumptions ==
  /\ state \in VALID
  /\ state' = "STEADY"
  /\ assumptions' = {}
  /\ constraint' = SteadyConstraint
  /\ model' = NoModel
  /\ UNCHANGED <<adding_clause, adding_constraint, pending, clauses, max_var,
                 extended, limited, termination_forced>>

ResetConstraint ==
  /\ state \in VALID
  /\ state' = "STEADY"
  /\ assumptions' = SteadyAssumptions
  /\ constraint' = NoConstraint
  /\ model' = NoModel
  /\ UNCHANGED <<adding_clause, adding_constraint, pending, clauses, max_var,
                 extended, limited, termination_forced>>

\* limit (), and the preprocessing limit of simplify ().
Limit ==
  /\ state \in VALID
  /\ limited' = TRUE
  /\ UNCHANGED <<state, adding_clause, adding_constraint, pending, clauses,
                 assumptions, constraint, max_var, extended, model,
                 termination_forced>>

\* solve () and simplify () enter the internal solver.
SolveCalled(preprocess_only) ==
  /\ state \in READY
  /\ state' = "SOLVING"
  /\ assumptions' = SteadyAssumptions
  /\ constraint' = SteadyConstraint
  /\ extended' = reset_extended
  /\ model' = NoModel
  /\ limited' = (limited \/ preprocess_only)
  /\ UNCHANGED <<adding_clause, adding_constraint, pending, clauses, max_var,
                 termination_forced>>

\* The constraint as a set of clauses: none when the vector is empty.
ConstraintClauses ==
  IF constraint = NoConstraint THEN {} ELSE {constraint.lits}

Satisfying(T) ==
  SatFormula(T, clauses \cup ConstraintClauses) /\ SatAll(T, assumptions)

Models == {T \in SUBSET (1..MaxVar) : Satisfying(T)}

\* solve () returns r.  The termination flag and the limits are reset, also
\* when terminate () was called too late to have an effect.
SolveReturns(r) ==
  /\ state = "SOLVING"
  /\ \/ r = 10 /\ model' \in Models /\ state' = "SATISFIED"
     \/ r = 20 /\ Models = {} /\ model' = NoModel /\ state' = "UNSATISFIED"
     \/ /\ r = 0 /\ (limited \/ termination_forced)
        /\ model' = NoModel /\ state' = "STEADY"
  /\ assumptions' = IF r = 0 THEN {} ELSE assumptions
  /\ constraint' = IF r = 0 THEN NoConstraint ELSE constraint
  /\ limited' = FALSE /\ termination_forced' = FALSE
  /\ UNCHANGED <<adding_clause, adding_constraint, pending, clauses, max_var,
                 extended>>

\* val () extends the assignment the first time it is called.
Val ==
  /\ state = "SATISFIED"
  /\ extended' = TRUE
  /\ UNCHANGED <<state, adding_clause, adding_constraint, pending, clauses,
                 assumptions, constraint, max_var, model, limited,
                 termination_forced>>

Terminate ==
  /\ state \in VALID \cup {"SOLVING"}
  /\ termination_forced' = TRUE
  /\ UNCHANGED <<state, adding_clause, adding_constraint, pending, clauses,
                 assumptions, constraint, max_var, extended, model, limited>>

\* Releasing the solver.
Release ==
  /\ state \in VALID \cup {"SOLVING"}
  /\ state' = "DELETING"
  /\ assumptions' = {} /\ constraint' = NoConstraint
  /\ extended' = FALSE /\ model' = NoModel
  /\ UNCHANGED <<adding_clause, adding_constraint, pending, clauses, max_var,
                 limited, termination_forced>>

-----------------------------------------------------------------------------
(* Calls outside of IPASIR that touch the assignment. *)

\* What a flip of v may lead to: v changes and no clause becomes false; how the
\* solver finds that out is in Flip.  Other variables may differ too: eliminated
\* ones get their value when the assignment is extended.
Flipped(v) ==
  {T \in SUBSET (1..MaxVar) : (v \in T) # (v \in model) /\ SatFormula(T, clauses)}

\* A successful flip: assumptions and constraint are not considered.
Flip(v) ==
  /\ "flip" \in Calls
  /\ state = "SATISFIED" /\ v <= max_var /\ model # NoModel
  /\ model' \in Flipped(v)
  /\ extended' = reset_extended
  /\ UNCHANGED <<state, adding_clause, adding_constraint, pending, clauses,
                 assumptions, constraint, max_var, limited,
                 termination_forced>>

\* lookahead () leaves the API state and the assumptions alone; the internal
\* solver backtracks unless everything is assigned at the root level.
Lookahead ==
  /\ "lookahead" \in Calls
  /\ state \in VALID
  /\ extended' = reset_extended
  /\ model' \in {model, NoModel}
  /\ termination_forced' = FALSE
  /\ UNCHANGED <<state, adding_clause, adding_constraint, pending, clauses,
                 assumptions, constraint, max_var, limited>>

\* phase () initializes a new variable without resetting the extension.
Phase(l) ==
  /\ "phase" \in Calls
  /\ state \in VALID \cup {"SOLVING"}
  /\ max_var' = Internalized(l)
  /\ UNCHANGED <<state, adding_clause, adding_constraint, pending, clauses,
                 assumptions, constraint, extended, model, limited,
                 termination_forced>>

-----------------------------------------------------------------------------
Next ==
  \/ \E l \in Lits : Add(l) \/ Constrain(l) \/ Assume(l) \/ Phase(l)
  \/ \E v \in 1..MaxVar : Reserve(v) \/ Flip(v)
  \/ AddZero \/ ConstrainZero \/ ResetAssumptions \/ ResetConstraint
  \/ Limit \/ (\E p \in BOOLEAN : SolveCalled(p))
  \/ \E r \in {0, 10, 20} : SolveReturns(r)
  \/ Val \/ Terminate \/ Release \/ Lookahead

Spec == Init /\ [][Next]_vars
-----------------------------------------------------------------------------
(* Properties. *)

\* Types of what Solver and External keep between calls.
SolverApiTypeOK ==
  /\ state \in States
  /\ adding_clause \in BOOLEAN /\ adding_constraint \in BOOLEAN
  /\ pending \subseteq Lits /\ clauses \subseteq SUBSET Lits
  /\ assumptions \subseteq Lits
  /\ constraint \in [lits : SUBSET Lits, ended : BOOLEAN]
  /\ max_var \in 0..MaxVar
  /\ extended \in BOOLEAN
  /\ model \in (SUBSET (1..MaxVar)) \cup {NoModel}
  /\ limited \in BOOLEAN /\ termination_forced \in BOOLEAN

\* The solver behind the API keeps the IPASIR promise: assumptions and the
\* constraint hold for exactly one solve, clauses for ever, every verdict is
\* about the problem given before the call, also when calls are interleaved
\* with an unfinished clause, a limit, a termination request or a release.
Abstract ==
  INSTANCE Ipasir WITH
    Interruptible <- TRUE,
    verdict <- IF state = "SATISFIED" THEN "SAT"
               ELSE IF state = "UNSATISFIED" THEN "UNSAT" ELSE "INPUT",
    assumed <- assumptions,
    constraint <- ConstraintClauses

RefinesIpasir == Abstract!IpasirSpec
=============================================================================
