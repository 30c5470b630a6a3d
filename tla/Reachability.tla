---------------------------- MODULE Reachability ----------------------------
(***************************************************************************)
(* What the JSON description of a transition system means, independently   *)
(* of its encoding: a state gives every boolean atom a truth value and     *)
(* every other atom one value of its domain; a rule fires in a state that  *)
(* satisfies its preconditions and leads to a state that satisfies its     *)
(* effects and keeps every atom the effects do not name.                   *)
(***************************************************************************)
EXTENDS Integers, Sequences, SequencesExt

Symbols(m) == {m.states[k].symbol : k \in DOMAIN m.states}

AtomOf(m, s) == CHOOSE a \in {m.states[k] : k \in DOMAIN m.states} :
                  a.symbol = s

ValuesOf(a) == IF a.type = "boolean" THEN BOOLEAN
               ELSE {a.domain[k] : k \in DOMAIN a.domain}

\* A state as a function from symbols to values, flattened to <<symbol,
\* value>> pairs so that values of different domains are never compared.
AllStates(m) ==
  {S \in SUBSET UNION {{<<s, v>> : v \in ValuesOf(AtomOf(m, s))} :
                         s \in Symbols(m)} :
     \A s \in Symbols(m) : \E v \in ValuesOf(AtomOf(m, s)) :
       {p \in S : p[1] = s} = {<<s, v>>}}

SymbolOf(m, name) == IF name \in Symbols(m) THEN name ELSE Front(name)

LitHolds(m, S, l) ==
  (IF l.name \in Symbols(m) THEN <<l.name, TRUE>> \in S
   ELSE <<Front(l.name), Last(l.name)>> \in S) = ~l.neg

FormulaHolds(m, S, f) ==
  \E k \in DOMAIN f : \A l \in f[k] : LitHolds(m, S, l)

AllHold(m, S, fs) == \A k \in DOMAIN fs : FormulaHolds(m, S, fs[k])

\* The symbols the formulas fs name.
Named(m, fs) ==
  UNION {UNION {{SymbolOf(m, l.name) : l \in fs[k][j]} : j \in DOMAIN fs[k]} :
           k \in DOMAIN fs}

Fires(m, rule, S, U) ==
  /\ AllHold(m, S, rule.preconditions)
  /\ AllHold(m, U, rule.effects)
  /\ {p \in S : p[1] \notin Named(m, rule.effects)} =
       {p \in U : p[1] \notin Named(m, rule.effects)}

InitialStates(m) == {S \in AllStates(m) : AllHold(m, S, m.init)}

\* The states within n transitions of an initial state.
Within(m, n) ==
  LET R[k \in 0..n] ==
        IF k = 0 THEN InitialStates(m)
        ELSE R[k - 1] \cup
               {U \in AllStates(m) : \E S \in R[k - 1] :
                  \E r \in DOMAIN m.transitions :
                    Fires(m, m.transitions[r], S, U)}
  IN  R[n]

Violates(m, S) == ~AllHold(m, S, m.safety)
=============================================================================
