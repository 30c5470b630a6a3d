--------------------------- MODULE Reconstruction ---------------------------
(***************************************************************************)
(* extend.cpp, restore.cpp and what feeds them: the clauses preprocessing  *)
(* takes out of the formula go with a witness to the extension stack; the  *)
(* ones that a new clause or assumption makes unsafe are restored before   *)
(* the next search; and the assignment the search finds is repaired        *)
(* through the stack, backwards, before the user sees it.  Restoring and   *)
(* extending take one step per stack entry.  The search is an oracle for   *)
(* the irredundant clauses.  Internal and external literals are not told   *)
(* apart, and the option restoreflush has its default 0.                   *)
(***************************************************************************)
EXTENDS Cnf, Sequences, FiniteSets

CONSTANTS
  MaxVar,        \* variables are 1..MaxVar
  UserClauses,   \* the clauses the user may add
  UserLits,      \* the literals the user may assume
  restoreall     \* the option: 0, 1 or 2

ASSUME ReconstructionAssumption ==
  /\ MaxVar \in Nat
  /\ UserClauses \subseteq SUBSET LitsOf(MaxVar)
  /\ UserLits \subseteq LitsOf(MaxVar)
  /\ restoreall \in 0..2

VARIABLES
  original,      \* the clauses the user added
  irredundant,   \* the irredundant clauses, root level units included
  extension,     \* External::extension, one record per clause
  witness,       \* External::witness, the marked literals
  tainted,       \* External::tainted, the marked literals
  inactive,      \* the eliminated, substituted and pure variables
  assumptions,   \* External::assumptions; their variables are frozen
  phase,         \* where the solver is
  at,            \* the entry the restore or the extend loop is at
  vals           \* the assignment: the variables that are true

vars == <<original, irredundant, extension, witness, tainted, inactive,
          assumptions, phase, at, vals>>

Vars == 1..MaxVar
Lits == LitsOf(MaxVar)
Negated(c) == {-l : l \in c}
VarsOf(c) == {VarOf(l) : l \in c}
Tautological(c) == \E l \in c : -l \in c

Entry(w, c) == [witness |-> w, clause |-> c]
Entries == [witness : SUBSET Lits, clause : SUBSET Lits]

\* No call is running.
Idle == {"input", "sat", "extended", "unsat"}
Phases == Idle \cup {"restoring", "solving", "extending"}

Init ==
  /\ original = {} /\ irredundant = {} /\ extension = <<>>
  /\ witness = {} /\ tainted = {} /\ inactive = {} /\ assumptions = {}
  /\ phase = "input" /\ at = 0 /\ vals = {}

-----------------------------------------------------------------------------
(* Root level propagation. *)

\* U holds every literal that is unit under it.
Closed(F, U) ==
  \A c \in F : \A l \in c : Negated(c \ {l}) \subseteq U => l \in U

\* What unit propagation derives: the smallest closed set.
Units(F) ==
  LET closed == {U \in SUBSET Lits : Closed(F, U)}
  IN  {l \in Lits : \A U \in closed : l \in U}

\* The formula {{}} stands for the flag unsat.
Unsat == {{}}

\* F after propagation: satisfied clauses and falsified literals are gone.
propagate(F) ==
  LET U == Units(F)
  IN  IF \E c \in F : Negated(c) \subseteq U THEN Unsat
      ELSE {{l} : l \in U} \cup
           {c \ Negated(U) : c \in {d \in F : d \cap U = {}}}

Fixed(v) == {v} \in irredundant \/ {-v} \in irredundant
Active(v) == v \notin inactive /\ ~Fixed(v)
Frozen(v) == v \in VarsOf(assumptions)

\* Mutation of Removable: frozen variables are not protected.
RemovableEvenFrozen(v) == Active(v)

\* Only these may be eliminated, substituted or blocked on.
Removable(v) == Active(v) /\ ~Frozen(v)

\* add_new_original_clause: tautologies are skipped.
AddOriginal(F, c) == IF Tautological(c) THEN F ELSE propagate(F \cup {c})

-----------------------------------------------------------------------------
(* internalize: what using literals of the user does to the marks. *)

Reactivated(L) == inactive \ VarsOf(L)

\* Mutation of Tainted: the literal itself is looked up.
TaintedSameSign(L) == tainted \cup (L \cap witness)

\* A literal is tainted when it may break a witness.
Tainted(L) == tainted \cup {l \in L : -l \in witness}

internalize(L) ==
  /\ inactive' = Reactivated(L)
  /\ tainted' = Tainted(L)

-----------------------------------------------------------------------------
(* The calls of the user. *)

\* A verdict's assumptions are reset, and melted, by the next call.
FreshAssumptions == IF phase = "input" THEN assumptions ELSE {}

Add(c) ==
  /\ phase \in Idle
  /\ original' = original \cup {c}
  /\ irredundant' = AddOriginal(irredundant, c)
  /\ internalize(c)
  /\ assumptions' = FreshAssumptions
  /\ phase' = "input" /\ vals' = {} /\ at' = 0
  /\ UNCHANGED <<extension, witness>>

Assume(l) ==
  /\ phase \in Idle
  /\ assumptions' = FreshAssumptions \cup {l}
  /\ internalize({l})
  /\ phase' = "input" /\ vals' = {} /\ at' = 0
  /\ UNCHANGED <<original, irredundant, extension, witness>>

\* already_solved (), then the guard of Internal::restore_clauses.
Solve ==
  /\ phase \in Idle
  /\ assumptions' = FreshAssumptions
  /\ \/ /\ {} \in irredundant
        /\ phase' = "unsat" /\ at' = 0
     \/ /\ {} \notin irredundant /\ restoreall <= 1 /\ tainted = {}
        /\ phase' = "solving" /\ at' = 0
     \/ /\ {} \notin irredundant /\ (restoreall = 2 \/ tainted # {})
        /\ phase' = "restoring" /\ at' = 1
  /\ vals' = {}
  /\ UNCHANGED <<original, irredundant, extension, witness, tainted, inactive>>

-----------------------------------------------------------------------------
(* External::restore_clauses. *)

Without(s, i) == [j \in 1..(Len(s) - 1) |-> IF j < i THEN s[j] ELSE s[j + 1]]

\* The negation of a witness literal is tainted.
WitnessTainted(e) == \E w \in e.witness : -w \in tainted

MustRestore(e) == WitnessTainted(e) \/ restoreall > 0

\* The position after an entry is taken out.
AfterRestored == at

\* restore_clause may taint literals, which the entries still to come see.
RestoreEntry ==
  /\ phase = "restoring" /\ at <= Len(extension)
  /\ MustRestore(extension[at])
  /\ irredundant' = AddOriginal(irredundant, extension[at].clause)
  /\ internalize(extension[at].clause)
  /\ extension' = Without(extension, at)
  /\ at' = AfterRestored
  /\ UNCHANGED <<original, witness, assumptions, phase, vals>>

KeepEntry ==
  /\ phase = "restoring" /\ at <= Len(extension)
  /\ ~MustRestore(extension[at])
  /\ at' = at + 1
  /\ UNCHANGED <<original, irredundant, extension, witness, tainted, inactive,
                 assumptions, phase, vals>>

Witnesses(s) == UNION {s[k].witness : k \in DOMAIN s}

\* The marks are recomputed; a conflict after restoring ends the solve.
RestoreEnds ==
  /\ phase = "restoring" /\ at > Len(extension)
  /\ tainted' = {}
  /\ witness' = Witnesses(extension)
  /\ phase' = IF {} \in irredundant THEN "unsat" ELSE "solving"
  /\ at' = 0
  /\ UNCHANGED <<original, irredundant, extension, inactive, assumptions, vals>>

-----------------------------------------------------------------------------
(* The preprocessing that uses the extension stack. *)

Push(es) ==
  /\ extension' = extension \o es
  /\ witness' = witness \cup Witnesses(es)

Simplifies ==
  UNCHANGED <<original, tainted, assumptions, phase, at, vals>>

Solving == phase = "solving" /\ {} \notin irredundant

\* Every resolvent of c on lit is tautological.
is_blocked_clause(c, lit) ==
  \A d \in irredundant : -lit \in d => \E k \in d \ {-lit} : -k \in c

\* A clause that is blocked on lit moves to the stack.
Block(c, lit) ==
  /\ Solving
  /\ c \in irredundant /\ lit \in c /\ Cardinality(c) >= 2
  /\ Removable(VarOf(lit))
  /\ is_blocked_clause(c, lit)
  /\ Push(<<Entry({lit}, c)>>)
  /\ irredundant' = irredundant \ {c}
  /\ UNCHANGED inactive
  /\ Simplifies

\* The clauses with the literal l.
Occs(l) == {c \in irredundant : l \in c}

Resolvent(c, pivot, d) == (c \ {pivot}) \cup (d \ {-pivot})

\* G is empty or defines the pivot: without it the clauses contradict each
\* other, and their resolvents on it are tautological.
Gate(G, pivot) ==
  \/ G = {}
  \/ /\ G \subseteq Occs(pivot) \cup Occs(-pivot)
     /\ \A T \in SUBSET Vars : \E c \in G : ~SatClause(T, c \ {pivot, -pivot})
     /\ \A c \in G \cap Occs(pivot), d \in G \cap Occs(-pivot) :
          Tautological(Resolvent(c, pivot, d))

\* With a gate, only gates with other clauses are resolved.
Resolvents(G, pivot) ==
  {Resolvent(p[1], pivot, p[2]) :
     p \in {q \in Occs(pivot) \X Occs(-pivot) :
              /\ G # {} => (q[1] \in G) # (q[2] \in G)
              /\ ~Tautological(Resolvent(q[1], pivot, q[2]))}}

\* The orders in which the clauses of S may be in an occurrence list.
Orders(S) == {s \in [1..Cardinality(S) -> S] : Rng(s) = S}

\* The entries for the clauses of s with the literal l.
EntriesFor(s, l) == [k \in 1..Len(s) |-> Entry({l}, s[k])]

\* Of the clauses with l, what is pushed: with a definition, only its gates.
Pushed(G, l) == {c \in Occs(l) : G = {} \/ c \in G}

\* What mark_eliminated_clauses_as_garbage pushes: the clauses with the
\* pivot, then those with its negation.
Weakened(G, pivot) ==
  {EntriesFor(s, pivot) \o EntriesFor(t, -pivot) :
     s \in Orders(Pushed(G, pivot)), t \in Orders(Pushed(G, -pivot))}

\* Variable elimination, and pure literals, which have no resolvents.  An
\* empty resolvent ends it before anything is pushed; a conflict that only
\* the propagation of the resolvents finds comes later.
Eliminate(pivot, G) ==
  /\ Solving
  /\ Removable(VarOf(pivot)) /\ VarOf(pivot) \in VarsOf(UNION original)
  /\ Cardinality(Occs(pivot)) <= Cardinality(Occs(-pivot))
  /\ Gate(G, pivot)
  /\ irredundant' = propagate((irredundant \ (Occs(pivot) \cup Occs(-pivot)))
                                \cup Resolvents(G, pivot))
  /\ \/ {} \in irredundant' /\ UNCHANGED <<extension, witness>>
     \/ \E es \in Weakened(G, pivot) : Push(es)
  /\ inactive' = inactive \cup {VarOf(pivot)}
  /\ Simplifies

\* c holds in every model of the formula and the clauses on the stack.
StackClauses == {extension[k].clause : k \in DOMAIN extension}
Implied(c) ==
  \A T \in SUBSET Vars :
    SatFormula(T, irredundant \cup StackClauses) => SatClause(T, c)

\* The literal l after idx is replaced by other.
Replaced(l, idx, other) ==
  IF l = idx THEN other ELSE IF l = -idx THEN -other ELSE l

Substituted(F, idx, other) ==
  {d \in {{Replaced(l, idx, other) : l \in c} : c \in F} : ~Tautological(d)}

\* decompose: one variable of a strongly connected component is replaced by
\* its representative, which has a smaller index.  A conflict, or a
\* representative that becomes a unit, leaves the variable active.
Substitute(idx, other) ==
  /\ Solving
  /\ Removable(idx) /\ Active(VarOf(other)) /\ VarOf(other) < idx
  /\ Implied({-idx, other}) /\ Implied({idx, -other})
  /\ Push(<<Entry({-idx}, {-idx, other}), Entry({idx}, {idx, -other})>>)
  /\ irredundant' = propagate(Substituted(irredundant, idx, other))
  /\ inactive' = IF {{}, {other}, {-other}} \cap irredundant' # {}
                   THEN inactive ELSE inactive \cup {idx}
  /\ Simplifies

\* The search and the other techniques derive from redundant clauses too,
\* which follow from the formula together with the stack.  A derived clause
\* that subsumes an irredundant one takes its place; every unit is kept.
Derive(c) ==
  /\ Solving
  /\ c # {} /\ \A l \in c : Active(VarOf(l))
  /\ Cardinality(c) = 1 \/ \E d \in irredundant : c \subseteq d /\ c # d
  /\ Implied(c)
  /\ irredundant' = propagate({d \in irredundant : ~(c \subseteq d)} \cup {c})
  /\ UNCHANGED <<extension, witness, inactive>>
  /\ Simplifies

\* A clause that follows from the other irredundant clauses is dropped.
Subsume(c) ==
  /\ Solving
  /\ c \in irredundant /\ Cardinality(c) >= 2
  /\ \A T \in SUBSET Vars :
       SatFormula(T, irredundant \ {c}) => SatClause(T, c)
  /\ irredundant' = irredundant \ {c}
  /\ UNCHANGED <<extension, witness, inactive>>
  /\ Simplifies

-----------------------------------------------------------------------------
(* The end of the search, and External::extend. *)

SearchEnds ==
  /\ phase = "solving"
  /\ \/ \E T \in SUBSET Vars :
          /\ SatFormula(T, irredundant) /\ SatAll(T, assumptions)
          /\ vals' = T /\ phase' = "sat" /\ assumptions' = assumptions
     \/ /\ ~Satisfiable(MaxVar, irredundant, assumptions)
        /\ phase' = "unsat" /\ UNCHANGED <<vals, assumptions>>
     \/ /\ phase' = "input" /\ assumptions' = {} /\ UNCHANGED vals
  /\ UNCHANGED <<original, irredundant, extension, witness, tainted, inactive,
                 at>>

\* T with the literals of W made true.
Flipped(T, W) == {v \in Vars : v \in W \/ (v \in T /\ -v \notin W)}

Repaired(T, e) == IF SatClause(T, e.clause) THEN T ELSE Flipped(T, e.witness)

ExtendCalled ==
  /\ phase = "sat"
  /\ phase' = "extending" /\ at' = Len(extension)
  /\ UNCHANGED <<original, irredundant, extension, witness, tainted, inactive,
                 assumptions, vals>>

\* Mutation of NextToExtend: the stack is read from its bottom.
NextToExtendForward == Len(extension) + 1 - at

NextToExtend == at

ExtendEntry ==
  /\ phase = "extending" /\ at > 0
  /\ vals' = Repaired(vals, extension[NextToExtend])
  /\ at' = at - 1
  /\ UNCHANGED <<original, irredundant, extension, witness, tainted, inactive,
                 assumptions, phase>>

ExtendEnds ==
  /\ phase = "extending" /\ at = 0
  /\ phase' = "extended"
  /\ UNCHANGED <<original, irredundant, extension, witness, tainted, inactive,
                 assumptions, at, vals>>

-----------------------------------------------------------------------------
Inprocess ==
  \/ \E c \in irredundant : Subsume(c) \/ \E l \in c : Block(c, l)
  \/ \E p \in Lits : \E G \in SUBSET (Occs(p) \cup Occs(-p)) : Eliminate(p, G)
  \/ \E v \in Vars, l \in Lits : Substitute(v, l)
  \/ \E c \in (SUBSET UNION irredundant) \cup {{l} : l \in Lits} : Derive(c)

Next ==
  \/ \E c \in UserClauses : Add(c)
  \/ \E l \in UserLits : Assume(l)
  \/ Solve \/ RestoreEntry \/ KeepEntry \/ RestoreEnds
  \/ Inprocess
  \/ SearchEnds \/ ExtendCalled \/ ExtendEntry \/ ExtendEnds

Spec == Init /\ [][Next]_vars
-----------------------------------------------------------------------------
(* Properties. *)

\* Types; the restore and the extend loop never leave the stack.
ReconstructionTypeOK ==
  /\ original \subseteq SUBSET Lits /\ irredundant \subseteq SUBSET Lits
  /\ extension \in Seq(Entries)
  /\ witness \subseteq Lits /\ tainted \subseteq Lits
  /\ inactive \subseteq Vars /\ assumptions \subseteq Lits
  /\ phase \in Phases
  /\ at \in 0..(Len(extension) + 1)
  /\ vals \subseteq Vars

\* The extended assignment satisfies every clause the user ever added and
\* the assumptions of this solve, whatever was removed and restored before.
ExtendedSatisfies ==
  phase = "extended" =>
    SatFormula(vals, original) /\ SatAll(vals, assumptions)

\* The formula and the stack together are equivalent to what the user added:
\* what preprocessing removes is never lost.
NothingLost ==
  \A T \in SUBSET Vars :
    SatFormula(T, original) <=> SatFormula(T, irredundant \cup StackClauses)

\* No irredundant clause has an eliminated, substituted or pure variable,
\* which the search would leave unassigned.
ClausesAreActive ==
  \A c \in irredundant : VarsOf(c) \cap inactive = {}

\* The assignments that extend () repairs to a model of the user's clauses
\* when it is at entry i.  An entry with a tainted witness that restoring has
\* not reached yet is only relied on while its clause is satisfied.
Pending(i) ==
  /\ phase = "restoring" => i >= at
  /\ WitnessTainted(extension[i])
Repairable ==
  LET R[i \in 0..Len(extension)] ==
        IF i = 0 THEN {T \in SUBSET Vars : SatFormula(T, original)}
        ELSE {T \in SUBSET Vars :
                IF SatClause(T, extension[i].clause) THEN T \in R[i - 1]
                ELSE \/ Pending(i)
                     \/ Flipped(T, extension[i].witness) \in R[i - 1]}
  IN  R[Len(extension)]

\* At every moment, also while clauses are being restored, each assignment
\* of the formula can be repaired up to the entries still to be restored.
EveryModelRepairable ==
  \A T \in SUBSET Vars : SatFormula(T, irredundant) => T \in Repairable

\* The state of the interface.
Verdict ==
  IF phase \in {"sat", "extending", "extended"} THEN "SAT"
  ELSE IF phase = "unsat" THEN "UNSAT" ELSE "INPUT"

\* Preprocessing, restoring and extending keep the IPASIR promise: verdicts
\* are about the clauses the user added and the assumptions of the solve.
Abstract ==
  INSTANCE Ipasir WITH
    Interruptible <- TRUE,
    verdict <- Verdict,
    clauses <- original,
    assumed <- assumptions,
    constraint <- {}

KeepsPromise == Abstract!IpasirSpec
=============================================================================
