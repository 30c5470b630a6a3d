------------------------------- MODULE Ipasir -------------------------------
(***************************************************************************)
(* What an incremental SAT solver promises through the IPASIR calls of     *)
(* ipasir.h, plus the one-shot constraint CaDiCaL adds to them.  Clauses   *)
(* stay for ever; assumptions and the constraint hold for the next solve   *)
(* only; a verdict is about the clauses, assumptions and constraint given  *)
(* before the call and is lost when the formula changes.                   *)
(***************************************************************************)
EXTENDS Cnf

CONSTANTS
  MaxVar,         \* variables are 1..MaxVar
  Interruptible   \* TRUE when a limit or a terminator may end a solve early

ASSUME IpasirAssumption == MaxVar \in Nat /\ Interruptible \in BOOLEAN

VARIABLES
  verdict,     \* "INPUT", "SAT" or "UNSAT": the state of the interface
  clauses,     \* the clauses added so far
  assumed,     \* the literals assumed for the next solve
  constraint   \* {} or {c}: the constraint clause for the next solve

ipasirVars == <<verdict, clauses, assumed, constraint>>

Lits == LitsOf(MaxVar)

IpasirTypeOK ==
  /\ verdict \in {"INPUT", "SAT", "UNSAT"}
  /\ clauses \subseteq SUBSET Lits
  /\ assumed \subseteq Lits
  /\ constraint \subseteq SUBSET Lits

\* Leaving a verdict forgets the assumptions and the constraint it was for.
FreshAssumed == IF verdict = "INPUT" THEN assumed ELSE {}
FreshConstraint == IF verdict = "INPUT" THEN constraint ELSE {}

IpasirInit ==
  verdict = "INPUT" /\ clauses = {} /\ assumed = {} /\ constraint = {}

\* The clauses F are added, literal by literal, each closed by a zero.
AddClauses(F) ==
  /\ clauses' = clauses \cup F
  /\ verdict' = "INPUT"
  /\ assumed' = FreshAssumed
  /\ constraint' = FreshConstraint

\* The literals of A are assumed.
AssumeLits(A) ==
  /\ assumed' = FreshAssumed \cup A
  /\ constraint' = FreshConstraint
  /\ verdict' = "INPUT"
  /\ UNCHANGED clauses

\* The constraint becomes c (a later one replaces an earlier one).
Constrain(c) ==
  /\ constraint' = {c}
  /\ assumed' = FreshAssumed
  /\ verdict' = "INPUT"
  /\ UNCHANGED clauses

\* The caller drops the verdict, the assumptions or the constraint.
Forget ==
  /\ verdict' = "INPUT"
  /\ assumed' \in {FreshAssumed, {}}
  /\ constraint' \in {FreshConstraint, {}}
  /\ UNCHANGED clauses

\* The problem the next solve decides.
Holds ==
  Satisfiable(MaxVar, clauses \cup FreshConstraint, FreshAssumed)

\* solve () returns r: 10, 20, or 0 when it is interrupted.
Solve(r) ==
  /\ r \in {IF Holds THEN 10 ELSE 20}
             \cup (IF Interruptible THEN {0} ELSE {})
  /\ verdict' = IF r = 10 THEN "SAT" ELSE IF r = 20 THEN "UNSAT" ELSE "INPUT"
  /\ assumed' = IF r = 0 THEN {} ELSE FreshAssumed
  /\ constraint' = IF r = 0 THEN {} ELSE FreshConstraint
  /\ UNCHANGED clauses

IpasirNext ==
  \/ \E c \in SUBSET Lits : AddClauses({c}) \/ Constrain(c)
  \/ \E l \in Lits : AssumeLits({l})
  \/ Forget
  \/ \E r \in {0, 10, 20} : Solve(r)

IpasirSpec == IpasirInit /\ [][IpasirNext]_ipasirVars
=============================================================================
