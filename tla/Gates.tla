-------------------------------- MODULE Gates --------------------------------
(***************************************************************************)
(* How variable elimination finds the gate of a pivot (gates.cpp): an      *)
(* equivalence, an AND, an if-then-else or an XOR, by looking for certain  *)
(* clauses.  Reconstruction eliminates with any set of clauses that        *)
(* defines the pivot; here the sets that are found are shown to do so.     *)
(*                                                                         *)
(* Each search gives the sets it may find in formula F, one for each order *)
(* of clauses and literals.  The units and duplicates it finds on the way  *)
(* are left to Derive and Subsume.                                         *)
(***************************************************************************)
EXTENDS Reconstruction

CONSTANTS
  GateVar,        \* the largest variable of the formulas
  GateFormulas    \* the formulas in which gates are searched

ASSUME GatesAssumption ==
  /\ GateVar \in Nat
  /\ \A F \in GateFormulas : \A c \in F : c \subseteq LitsOf(GateVar) /\ ~Tautological(c)

\* The literals in binary clauses with l.
BinaryLiterals(F, l) == {k \in UNION F : k # l /\ {l, k} \in F}

\* pivot = second by two binary clauses.
FindEquivalence(F, pivot) ==
  {{{-pivot, k}, {pivot, -k}} :
     k \in {k \in BinaryLiterals(F, -pivot) : -k \in BinaryLiterals(F, pivot)}}

\* A mutant: one marked literal is enough.
FindAndGateOne(F, pivot) ==
  {{c} \cup {{pivot, -l} : l \in {l \in c \ {-pivot} : -l \in BinaryLiterals(F, pivot)}} :
     c \in {c \in F : /\ -pivot \in c /\ Cardinality(c) > 2
                      /\ \E l \in c \ {-pivot} : -l \in BinaryLiterals(F, pivot)}}

\* A long clause with -pivot, and a binary clause with pivot for each of its
\* other literals.
FindAndGate(F, pivot) ==
  {{c} \cup {{pivot, -l} : l \in c \ {-pivot}} :
     c \in {c \in F : /\ -pivot \in c /\ Cardinality(c) > 2
                      /\ Negated(c \ {-pivot}) \subseteq BinaryLiterals(F, pivot)}}

Ternary(F, pivot) == {d \in F : pivot \in d /\ Cardinality(d) = 3}

\* Two ternary clauses with pivot that differ in the sign of one literal b
\* and have other variables besides, and the two that complete them.
FindIfThenElse(F, pivot) ==
  UNION {UNION {
    {{di, dj, {-pivot, b} \cup Negated(di \ {pivot, b}), {-pivot, -b} \cup Negated(dj \ {pivot, -b})} :
       b \in {b \in di \ {pivot} : /\ -b \in dj
                                   /\ VarsOf(di \ {pivot, b}) # VarsOf(dj \ {pivot, -b})
                                   /\ {-pivot, b} \cup Negated(di \ {pivot, b}) \in F
                                   /\ {-pivot, -b} \cup Negated(dj \ {pivot, -b}) \in F}} :
    dj \in Ternary(F, pivot) \ {di}} : di \in Ternary(F, pivot)}

\* The clause with an even number of signs changed.
SameParity(d) ==
  {Negated(S) \cup (d \ S) : S \in {S \in SUBSET d : Cardinality(S) % 2 = 0}}

\* A clause of size three or more and all clauses of the same parity.
FindXorGate(F, pivot) ==
  {SameParity(d) : d \in {d \in F : /\ pivot \in d /\ Cardinality(d) > 2
                                    /\ SameParity(d) \subseteq F}}

\* The first search that finds something decides.
FindGateClauses(F, pivot) ==
  LET s == <<FindEquivalence(F, pivot), FindAndGate(F, pivot), FindAndGate(F, -pivot),
             FindIfThenElse(F, pivot), FindXorGate(F, pivot)>>
      found == {i \in DOMAIN s : s[i] # {}}
  IN IF found = {} THEN {{}}
     ELSE s[CHOOSE i \in found : \A j \in found : i <= j]

-----------------------------------------------------------------------------
R(F) == INSTANCE Reconstruction WITH irredundant <- F, MaxVar <- GateVar

\* Every gate that is found defines the pivot in the sense by which elimination
\* is shown to be sound.
GatesDefine ==
  original = {} /\ phase = "input" =>
    \A F \in GateFormulas : \A pivot \in LitsOf(GateVar) :
      \A G \in FindGateClauses(F, pivot) : R(F)!Gate(G, pivot)
=============================================================================
