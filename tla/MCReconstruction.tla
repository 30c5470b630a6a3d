-------------------------- MODULE MCReconstruction --------------------------
(* Reconstruction with bounds on what the user gives the solver. *)
EXTENDS Condition, Gates

CONSTANTS
  MaxClauses,      \* clauses the user adds
  MaxAssumptions,  \* literals assumed for one solve
  MaxStack,        \* entries on the extension stack
  MaxFormula       \* irredundant clauses, unless some are restored

\* Clauses that give gates, blocked clauses, equivalences, units and, added
\* late, conflicts with every kind of witness.  The one before last gives an
\* asymmetric tautology; the first family does without it.
Clauses == {{1, 2}, {-1, 2}, {-2, 3}, {1, -2, -3}, {1, 3}, {-3}}
Assumable == {-2}

\* Equivalences and AND gates, if-then-else gates, and XOR gates, each with
\* clauses that almost make another one.
Gatelike ==
  (SUBSET {{-1, 2}, {1, -2}, {-1, 3}, {-1, 4}, {1, -2, -3}, {1, -2, -3, -4}, {1, 2}, {1, -3}})
  \cup (SUBSET {{-1, -2, 3}, {1, -2, -3}, {-1, 2, 4}, {1, 2, -4}, {1, -2, 3}, {1, 2, 4}, {-1, 2, -4}})
  \cup (SUBSET {{-1, 2, 3}, {-1, -2, -3}, {1, -2, 3}, {1, 2, -3}, {1, 2, 3}, {-1, 2, -3}, {2, 3}})

\* A behaviour fills the stack by one of two families of techniques.
VARIABLE globally   \* by covering and conditioning

Busy == cover # NotCovering \/ cond # NotConditioning

\* The steps of a behaviour of the second family while it simplifies.
GlobalNext ==
  /\ \/ ~Busy /\ UNCHANGED <<cover, cond>> /\ (SearchEnds \/ \E c \in irredundant : Subsume(c))
     \/ Cover /\ cond = NotConditioning /\ UNCHANGED cond
     \/ Conditioning

MCNext ==
  /\ IF globally /\ phase = "solving" THEN GlobalNext
     ELSE Next /\ UNCHANGED <<cover, cond>>
  /\ Cardinality(original') <= MaxClauses
  /\ globally \/ {1, 3} \notin original'
  /\ Cardinality(assumptions') <= MaxAssumptions
  /\ Len(extension') > Len(extension) =>
       Len(extension') <= MaxStack \/ cover # NotCovering
  /\ Busy' => Busy \/ (globally /\ extension = <<>>)
  /\ Cardinality(irredundant') > MaxFormula =>
       phase = "restoring" \/ Cardinality(irredundant') <= Cardinality(irredundant)
  /\ UNCHANGED globally

MCInit == ConditionInit /\ globally \in BOOLEAN

MCSpec == MCInit /\ [][MCNext]_<<condVars, globally>>
=============================================================================
