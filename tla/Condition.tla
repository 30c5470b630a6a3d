------------------------------ MODULE Condition ------------------------------
(***************************************************************************)
(* Globally blocked clause elimination (condition.cpp).  An assignment is  *)
(* split into a conditional and an autarky part: no clause that the        *)
(* autarky part touches is left without a true literal.  For a candidate   *)
(* clause conditional literals not negated in it are unassigned, which     *)
(* makes more literals conditional.  If in the end the clause has an       *)
(* autarky literal, it is removed with the autarky part as its witness.    *)
(*                                                                         *)
(* Each clause that has true and false literals is watched by a true one.  *)
(* The watches are shared by all candidates of a round, which are tried in *)
(* some fixed order until a limit is hit.  The code leaves out the reasons *)
(* of the current trail; here they are tried too.                          *)
(***************************************************************************)
EXTENDS Cover

VARIABLE cond   \* [vals, conditional, watch, candidates], vals {}: none

condVars == <<coverVars, cond>>

NotConditioning == [vals |-> {}, conditional |-> {}, watch |-> <<>>, candidates |-> {}]

ConditionInit == CoverInit /\ cond = NotConditioning

Positive(A, c) == c \cap A
Negative(A, c) == {l \in c : -l \in A}

\* One of the literals, chosen by its variable.
Highest(S) == CHOOSE l \in S : \A k \in S : VarOf(k) <= VarOf(l)

\* All active variables that are not frozen have a value, from the trail or by
\* their phase.
Assigned == {v \in Vars : Removable(v)}

\* The conditional part is what clauses without a true literal make false.
ConditionBegin ==
  /\ Solving /\ cover = NotCovering /\ cond = NotConditioning
  /\ \E T \in SUBSET Assigned :
       LET A == {IF v \in T THEN v ELSE -v : v \in Assigned}
           long == {c \in irredundant : Cardinality(c) >= 2}
           watched == {c \in long : Positive(A, c) # {} /\ Negative(A, c) # {}}
       IN /\ A # {}
          /\ cond' = [vals |-> A,
                      conditional |-> UNION {Negated(Negative(A, c)) :
                                               c \in {c \in long : Positive(A, c) = {}}},
                      watch |-> [c \in watched |-> Highest(Positive(A, c))],
                      candidates |-> {c \in long : Positive(A, c) # {}}]
  /\ UNCHANGED coverVars

\* The refinement of st = [vals, conditional, todo, watch] for candidate c.
Autarky(st) == st.vals \ st.conditional

\* l is unassigned: its clauses get another watch, or their false literals
\* become conditional.
Unassigned(st, l) ==
  LET still == st.vals \ {l}
      visited == {d \in DOMAIN st.watch : st.watch[d] = l}
      lost == {d \in visited : Positive(still, d) = {}}
      new == (UNION {Negated(Negative(still, d)) : d \in lost}) \ st.conditional
  IN [vals |-> still,
      conditional |-> st.conditional \cup new,
      todo |-> (st.todo \ {l}) \cup new,
      watch |-> [d \in DOMAIN st.watch |->
                   IF d \in visited \ lost THEN Highest(Positive(still, d)) ELSE st.watch[d]]]

\* What is left to unassign, unless c has lost its last autarky literal.
ToUnassign(c, st) ==
  IF c \cap Autarky(st) = {} THEN {} ELSE {l \in st.todo : -l \notin c}

\* The refinement takes a literal away in each round, so it ends.
Refine(c, st) ==
  LET round[n \in 0..Cardinality(st.vals)] ==
        IF n = 0 THEN st
        ELSE LET s == round[n - 1]
             IN  IF ToUnassign(c, s) = {} THEN s
                 ELSE Unassigned(s, Highest(ToUnassign(c, s)))
  IN  round[Cardinality(st.vals)]

\* A mutant: unassigned literals are not assigned again.
ReassignedNot(st) == [cond EXCEPT !.vals = st.vals, !.watch = st.watch]

\* After a candidate: the initial assignment and partition.
Reassigned(st) == [cond EXCEPT !.watch = st.watch]

ConditionTry ==
  /\ cond.candidates # {} /\ cond.vals # cond.conditional
  /\ \E c \in {CHOOSE c \in cond.candidates : TRUE} :
     \E st \in {Refine(c, [vals |-> cond.vals, conditional |-> cond.conditional,
                           todo |-> cond.conditional, watch |-> cond.watch])} :
       /\ cond' = [Reassigned(st) EXCEPT !.candidates = @ \ {c}]
       /\ IF c \cap Autarky(st) = {} THEN UNCHANGED vars
          ELSE /\ Push(<<Entry(Autarky(st), c)>>)
               /\ irredundant' = irredundant \ {c}
               /\ UNCHANGED inactive
               /\ Simplifies
  /\ UNCHANGED cover

ConditionEnd ==
  /\ cond # NotConditioning
  /\ cond' = NotConditioning
  /\ UNCHANGED coverVars

Conditioning == ConditionBegin \/ ConditionTry \/ ConditionEnd

ConditionNext ==
  \/ Next /\ cover = NotCovering /\ cond = NotConditioning /\ UNCHANGED <<cover, cond>>
  \/ Cover /\ cond = NotConditioning /\ UNCHANGED cond
  \/ Conditioning

ConditionSpec == ConditionInit /\ [][ConditionNext]_condVars

-----------------------------------------------------------------------------
\* Between candidates every clause with false literals has a true one, by
\* which it is watched, or its false literals are conditional, although the
\* watches moved while another assignment was refined.
ConditionWatched ==
  cond # NotConditioning =>
    \A c \in irredundant : Cardinality(c) >= 2 /\ Negative(cond.vals, c) # {} =>
      \/ c \in DOMAIN cond.watch /\ cond.watch[c] \in c \cap cond.vals
      \/ Negated(Negative(cond.vals, c)) \subseteq cond.conditional
=============================================================================
