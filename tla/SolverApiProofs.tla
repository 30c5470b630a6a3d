-------------------------- MODULE SolverApiProofs --------------------------
(***************************************************************************)
(* The API state machine of solver.cpp implements the IPASIR promise, for  *)
(* every number of variables and every set of calls.                       *)
(***************************************************************************)
EXTENDS SolverApi, TLAPS

\* The absent constraint is one.
LEMMA NoConstraintType == NoConstraint \in [lits : SUBSET Lits, ended : BOOLEAN]
  BY DEF NoConstraint

\* The state a user starts in has every variable in its type.
LEMMA InitType == Init => SolverApiTypeOK
<1> SUFFICES ASSUME Init PROVE SolverApiTypeOK
  OBVIOUS
<1>1. state \in States /\ max_var \in 0..MaxVar
  BY SolverApiAssumption DEF Init, States, VALID, READY
<1>2. /\ constraint \in [lits : SUBSET Lits, ended : BOOLEAN]
      /\ model \in (SUBSET (1..MaxVar)) \cup {NoModel}
  BY NoConstraintType DEF Init
<1>3. /\ pending \subseteq Lits /\ clauses \subseteq SUBSET Lits
      /\ assumptions \subseteq Lits
  BY DEF Init
<1> QED
  BY <1>1, <1>2, <1>3 DEF Init, SolverApiTypeOK

\* The variable of a literal is a variable, so internalize stays in bounds.
LEMMA InternalizedType ==
  ASSUME SolverApiTypeOK, NEW l \in Lits
  PROVE  Internalized(l) \in 0..MaxVar
  BY SolverApiAssumption
  DEF SolverApiTypeOK, Lits, LitsOf, Internalized, VarOf

\* What transition_to_steady_state leaves is as well typed as what it found.
LEMMA SteadyType ==
  ASSUME SolverApiTypeOK
  PROVE  /\ SteadyAssumptions \subseteq Lits
         /\ SteadyConstraint \in [lits : SUBSET Lits, ended : BOOLEAN]
         /\ Growing \subseteq Lits
  BY DEF SolverApiTypeOK, SteadyAssumptions, SteadyConstraint, Growing,
         NoConstraint

\* Every call keeps every variable in its type.
LEMMA TypeKept ==
  ASSUME SolverApiTypeOK, [Next]_vars
  PROVE  SolverApiTypeOK'
<1> USE SolverApiAssumption
<1>1. ASSUME NEW l \in Lits, Add(l)
      PROVE  SolverApiTypeOK'
  BY <1>1, InternalizedType, SteadyType
  DEF SolverApiTypeOK, Add, LeavesVerdict, reset_extended, States,
      VALID
<1>2. ASSUME NEW l \in Lits, Constrain(l)
      PROVE  SolverApiTypeOK'
  BY <1>2, InternalizedType, SteadyType
  DEF SolverApiTypeOK, Constrain, LeavesVerdict, reset_extended,
      States, VALID
<1>3. ASSUME NEW l \in Lits, Assume(l)
      PROVE  SolverApiTypeOK'
  BY <1>3, InternalizedType, SteadyType
  DEF SolverApiTypeOK, Assume, LeavesVerdict, reset_extended,
      States, VALID, READY
<1>4. ASSUME NEW l \in Lits, Phase(l)
      PROVE  SolverApiTypeOK'
  BY <1>4, InternalizedType DEF SolverApiTypeOK, Phase
<1>5. ASSUME NEW v \in 1..MaxVar, Reserve(v)
      PROVE  SolverApiTypeOK'
  <2>1. v \in Lits
    BY DEF Lits, LitsOf
  <2> QED
    BY <1>5, <2>1, InternalizedType, SteadyType
    DEF SolverApiTypeOK, Reserve, LeavesVerdict, reset_extended,
        States, VALID, READY
<1>6. ASSUME NEW v \in 1..MaxVar, Flip(v)
      PROVE  SolverApiTypeOK'
  BY <1>6
  DEF SolverApiTypeOK, Flip, Flipped, reset_extended
<1>7. CASE AddZero
  BY <1>7, SteadyType
  DEF SolverApiTypeOK, AddZero, LeavesVerdict, reset_extended,
      States, VALID, READY
<1>8. CASE ConstrainZero
  BY <1>8, SteadyType
  DEF SolverApiTypeOK, ConstrainZero, LeavesVerdict, reset_extended,
      States, VALID, READY
<1>9. CASE ResetAssumptions \/ ResetConstraint
  BY <1>9, SteadyType, NoConstraintType
  DEF SolverApiTypeOK, ResetAssumptions, ResetConstraint, States,
      VALID, READY
<1>10. CASE Limit \/ Val \/ Terminate
  BY <1>10 DEF SolverApiTypeOK, Limit, Val, Terminate
<1>11. ASSUME NEW p \in BOOLEAN, SolveCalled(p)
       PROVE  SolverApiTypeOK'
  BY <1>11, SteadyType
  DEF SolverApiTypeOK, SolveCalled, reset_extended, States
<1>12. ASSUME NEW r \in {0, 10, 20}, SolveReturns(r)
       PROVE  SolverApiTypeOK'
  BY <1>12
  DEF SolverApiTypeOK, SolveReturns, Models, NoConstraint, States,
      VALID, READY
<1>13. CASE Release
  BY <1>13 DEF SolverApiTypeOK, Release, NoConstraint, States
<1>14. CASE Lookahead
  BY <1>14 DEF SolverApiTypeOK, Lookahead, reset_extended
<1>15. CASE UNCHANGED vars
  BY <1>15 DEF SolverApiTypeOK, vars
<1> QED
  BY <1>1, <1>2, <1>3, <1>4, <1>5, <1>6, <1>7, <1>8, <1>9, <1>10, <1>11,
     <1>12, <1>13, <1>14, <1>15 DEF Next

\* Type correctness: no sequence of calls that respect the contracts takes a
\* variable of solver.cpp and external.cpp out of its type; in particular
\* External::max_var never exceeds the largest variable used.
THEOREM SolverApiTypeCorrect == Spec => []SolverApiTypeOK
<1>1. SolverApiTypeOK /\ [Next]_vars => SolverApiTypeOK'
  BY TypeKept
<1> QED
  BY InitType, <1>1, PTL DEF Spec

-----------------------------------------------------------------------------
(* The refinement. *)

\* transition_to_steady_state forgets exactly what IPASIR forgets.
LEMMA SteadyIsFresh ==
  /\ SteadyAssumptions = Abstract!FreshAssumed
  /\ (IF SteadyConstraint = NoConstraint THEN {} ELSE {SteadyConstraint.lits})
       = Abstract!FreshConstraint
  BY DEF SteadyAssumptions, SteadyConstraint, ConstraintClauses,
         Abstract!FreshAssumed, Abstract!FreshConstraint

\* Both literal sets are the same set.
LEMMA SameLits == Abstract!Lits = Lits
  BY DEF Lits, LitsOf, Abstract!Lits, Abstract!LitsOf

\* ... and both notions of satisfaction the same notion.
LEMMA SameSat ==
  /\ \A T, F : Abstract!SatFormula(T, F) <=> SatFormula(T, F)
  /\ \A T, A : Abstract!SatAll(T, A) <=> SatAll(T, A)
  BY DEF SatFormula, SatClause, SatLit, SatAll, Abstract!SatFormula,
         Abstract!SatClause, Abstract!SatLit, Abstract!SatAll

\* A call that only drops the verdict, or that drops the assumptions or the
\* constraint as well, is a Forget.
LEMMA ForgetStep ==
  ASSUME state' \notin {"SATISFIED", "UNSATISFIED"}, UNCHANGED clauses,
         assumptions' \in {SteadyAssumptions, {}},
         constraint' \in {SteadyConstraint, NoConstraint}
  PROVE  Abstract!Forget
  BY SteadyIsFresh DEF Abstract!Forget, ConstraintClauses

\* A call that leaves what IPASIR sees alone is a stutter.
LEMMA StutterStep ==
  ASSUME UNCHANGED <<state, clauses, assumptions, constraint>>
  PROVE  UNCHANGED Abstract!ipasirVars
  BY DEF Abstract!ipasirVars, ConstraintClauses

\* Every call is a step of the promise.
LEMMA StepRefines ==
  ASSUME SolverApiTypeOK, [Next]_vars
  PROVE  [Abstract!IpasirNext]_(Abstract!ipasirVars)
<1>1. ASSUME NEW l \in Lits, Add(l)
      PROVE  Abstract!Forget
  BY <1>1, ForgetStep DEF Add
<1>2. ASSUME NEW l \in Lits, Constrain(l)
      PROVE  \E c \in SUBSET Abstract!Lits : Abstract!Constrain(c)
  <2>1. Growing \cup {l} \in SUBSET Abstract!Lits
    BY SteadyType, SameLits
  <2>2. constraint' # NoConstraint /\ constraint'.lits = Growing \cup {l}
    BY <1>2 DEF Constrain, NoConstraint
  <2>3. Abstract!Constrain(Growing \cup {l})
    BY <1>2, <2>2, SteadyIsFresh
    DEF Constrain, Abstract!Constrain, ConstraintClauses
  <2> QED
    BY <2>1, <2>3
<1>3. ASSUME NEW l \in Lits, Assume(l)
      PROVE  Abstract!AssumeLits({l})
  BY <1>3, SteadyIsFresh DEF Assume, Abstract!AssumeLits, ConstraintClauses
<1>4. ASSUME NEW l \in Lits, Phase(l)
      PROVE  UNCHANGED Abstract!ipasirVars
  BY <1>4, StutterStep DEF Phase
<1>5. ASSUME NEW v \in 1..MaxVar, Reserve(v)
      PROVE  Abstract!Forget
  BY <1>5, ForgetStep DEF Reserve
<1>6. ASSUME NEW v \in 1..MaxVar, Flip(v)
      PROVE  UNCHANGED Abstract!ipasirVars
  BY <1>6, StutterStep DEF Flip
<1>7. ASSUME AddZero
      PROVE  \E c \in SUBSET Abstract!Lits : Abstract!AddClauses({c})
  <2>1. pending \in SUBSET Abstract!Lits
    BY SameLits DEF SolverApiTypeOK
  <2>2. Abstract!AddClauses({pending})
    BY <1>7, SteadyIsFresh
    DEF AddZero, Abstract!AddClauses, ConstraintClauses
  <2> QED
    BY <2>1, <2>2
<1>8. ASSUME ConstrainZero
      PROVE  \E c \in SUBSET Abstract!Lits : Abstract!Constrain(c)
  <2>1. Growing \in SUBSET Abstract!Lits
    BY SteadyType, SameLits
  <2>2. constraint' # NoConstraint /\ constraint'.lits = Growing
    BY <1>8 DEF ConstrainZero, NoConstraint
  <2>3. Abstract!Constrain(Growing)
    BY <1>8, <2>2, SteadyIsFresh
    DEF ConstrainZero, Abstract!Constrain, ConstraintClauses
  <2> QED
    BY <2>1, <2>3
<1>9. ASSUME ResetAssumptions \/ ResetConstraint
      PROVE  Abstract!Forget
  BY <1>9, ForgetStep DEF ResetAssumptions, ResetConstraint
<1>10. ASSUME Limit \/ Val \/ Terminate \/ Lookahead
       PROVE  UNCHANGED Abstract!ipasirVars
  BY <1>10, StutterStep DEF Limit, Val, Terminate, Lookahead
<1>11. ASSUME NEW p \in BOOLEAN, SolveCalled(p)
       PROVE  Abstract!Forget
  BY <1>11, ForgetStep DEF SolveCalled
<1>12. ASSUME NEW r \in {0, 10, 20}, SolveReturns(r)
       PROVE  Abstract!Solve(r)
  <2>1. /\ Abstract!FreshAssumed = assumptions
        /\ Abstract!FreshConstraint = ConstraintClauses
    BY <1>12 DEF SolveReturns, Abstract!FreshAssumed, Abstract!FreshConstraint
  <2>2. Abstract!Holds <=> Models # {}
    BY <2>1, SameSat
    DEF Abstract!Holds, Abstract!Satisfiable, Models, Satisfying
  <2>3. r = 10 => Abstract!Holds
    BY <1>12, <2>2 DEF SolveReturns
  <2>4. r = 20 => ~Abstract!Holds
    BY <1>12, <2>2 DEF SolveReturns
  <2>5. /\ UNCHANGED clauses
        /\ assumptions' = IF r = 0 THEN {} ELSE assumptions
        /\ constraint' = IF r = 0 THEN NoConstraint ELSE constraint
        /\ r = 10 => state' = "SATISFIED"
        /\ r = 20 => state' = "UNSATISFIED"
        /\ r = 0 => state' = "STEADY"
    BY <1>12 DEF SolveReturns
  <2>6. ConstraintClauses' = IF r = 0 THEN {} ELSE ConstraintClauses
    BY <2>5 DEF ConstraintClauses
  <2> QED
    BY <2>1, <2>3, <2>4, <2>5, <2>6 DEF Abstract!Solve
<1>13. ASSUME Release
       PROVE  Abstract!Forget
  BY <1>13, ForgetStep DEF Release
<1>14. ASSUME UNCHANGED vars
       PROVE  UNCHANGED Abstract!ipasirVars
  BY <1>14, StutterStep DEF vars
<1> QED
  BY <1>1, <1>2, <1>3, <1>4, <1>5, <1>6, <1>7, <1>8, <1>9, <1>10, <1>11,
     <1>12, <1>13, <1>14, SameLits DEF Next, Abstract!IpasirNext

\* CaDiCaL's API implements IPASIR: whatever is called, in whatever order, a
\* verdict is about the clauses, assumptions and constraint given before the
\* solve, and the one-shot parts are gone when the next problem is built.
THEOREM ApiRefinesIpasir == Spec => RefinesIpasir
<1>1. Init => Abstract!IpasirInit
  BY DEF Init, Abstract!IpasirInit, ConstraintClauses
<1>2. SolverApiTypeOK /\ [Next]_vars
        => [Abstract!IpasirNext]_(Abstract!ipasirVars)
  BY StepRefines
<1> QED
  BY <1>1, <1>2, SolverApiTypeCorrect, PTL
  DEF Spec, RefinesIpasir, Abstract!IpasirSpec
=============================================================================
