---------------------------- MODULE CNFConverter ----------------------------
(***************************************************************************)
(* model_to_cnf.py: from the JSON description of a transition system to    *)
(* the DIMACS clauses and the activation literals of its bounded model     *)
(* checking problem.  One action per method of Specification and           *)
(* CNFConverter, in the order the constructors call them; the numbering    *)
(* loop takes one step per variable.                                       *)
(*                                                                         *)
(* Text is kept only as far as the code looks into it.  A name is the      *)
(* sequence <<stem, n1, ..., nk>> for stem_n1_..._nk, so cutting a name at *)
(* its last underscore, appending a step number and matching the patterns  *)
(* are sequence operations.  A formula is written without parentheses: a   *)
(* disjunction (a sequence) of conjunctions (sets) of literals, so joining *)
(* texts with " & " glues the last conjunction of one text to the first of *)
(* the next, as the precedence of & over | does.  SymPy keeps And and Or   *)
(* as sets of arguments and may fold a formula to the constant True or     *)
(* False, whose name the converter then looks up like that of an atom.     *)
(***************************************************************************)
EXTENDS Cnf, Sequences, SequencesExt

CONSTANTS
  Inputs,        \* the contents the JSON file may have
  StepChoices,   \* the values of the command line argument <steps>
  Incremental,   \* the values of the command line argument <incremental>
  LetterStems,   \* the stems made of letters and underscores only
  Folding,       \* And and Or fold complementary arguments (SymPy's release)
  None           \* Python's None

IsSequence(s) == s \in Seq(Rng(s))

\* What SymPy writes for a formula it has folded.
TrueName == <<"True">>
FalseName == <<"False">>

\* A text that is not empty is a disjunction of conjunctions, none empty, of
\* literals other than the constants.
IsFormula(f) ==
  /\ IsSequence(f) /\ f # <<>>
  /\ \A k \in DOMAIN f :
       /\ f[k] # {}
       /\ \A l \in f[k] : /\ l \in [neg : BOOLEAN, name : {l.name}]
                          /\ l.name \notin {TrueName, FalseName}

AreFormulas(fs) == IsSequence(fs) /\ \A k \in DOMAIN fs : IsFormula(fs[k])

\* The shape json.load and the command line give the arguments.
ASSUME InputsAssumption ==
  /\ StepChoices \subseteq Int /\ Incremental \subseteq BOOLEAN
  /\ Folding \in BOOLEAN
  /\ \A m \in Inputs :
       /\ IsSequence(m.states)
       /\ \A k \in DOMAIN m.states : IsSequence(m.states[k].domain)
       /\ AreFormulas(m.init) /\ AreFormulas(m.safety)
       /\ \A r \in DOMAIN m.transitions :
            /\ AreFormulas(m.transitions[r].preconditions)
            /\ AreFormulas(m.transitions[r].effects)

VARIABLES
  pc,                            \* the next method, or "raised", or "returned"
  input, steps, incremental,     \* what model_checker.py was called with
  state_atoms,                   \* the atoms, as [symbol, type, domain]
  symbol_atom_map,               \* symbol -> type of the atom it names
  initial_state_constraints,     \* normalised formulas: sets of clauses
  transition_constraints,        \* rule -> normalised formula
  safety_violation_constraints,  \* the clauses of the negated properties
  idx, frame, slot,              \* the numbering loop
  temporal_bool_vars,            \* step -> activation variable
  state_to_cnf_vars,             \* <<step, symbol, value>> -> variable
  cnf_clauses                    \* the clauses built so far

converterVars ==
  <<pc, input, steps, incremental, state_atoms, symbol_atom_map,
    initial_state_constraints, transition_constraints,
    safety_violation_constraints, idx, frame, slot, temporal_bool_vars,
    state_to_cnf_vars, cnf_clauses>>

-----------------------------------------------------------------------------
(* Helper: names and formulas. *)

Neg(l) == [l EXCEPT !.neg = ~@]

\* The text of f, " & ", and the text of g, parsed again.
JoinTwo(f, g) ==
  SubSeq(f, 1, Len(f) - 1) \o <<f[Len(f)] \cup g[1]>> \o Tail(g)

Joined(fs) ==
  LET join[k \in 1..Len(fs)] ==
        IF k = 1 THEN fs[1] ELSE JoinTwo(join[k - 1], fs[k])
  IN  join[Len(fs)]

\* An And of complementary arguments is False and drops out of an Or, an Or of
\* complementary arguments is True and drops out of an And.
Kept(G) ==
  IF Folding THEN {s \in G : ~\E l \in s : Neg(l) \in s} ELSE G

\* parse_expr: the conjunctions of a text.  Without any it is False, with the
\* empty one it is True, which is what an Or of a and ~a folds to.
Parsed(f) ==
  LET P == Kept(Rng(f))
  IN  IF Folding /\ \E l \in UNION P : {{l}, {Neg(l)}} \subseteq P THEN {{}}
      ELSE P

\* One literal out of each conjunction, in every way.
Distributed(P) ==
  {{h[d] : d \in P} : h \in {h \in [P -> UNION P] : \A d \in P : h[d] \in d}}

Negated(P) == {{Neg(l) : l \in d} : d \in P}

\* The text of a set of clauses, split at "&" and "|" again.
Written(F) ==
  IF {} \in F THEN {{[neg |-> FALSE, name |-> FalseName]}}
  ELSE IF F = {} THEN {{[neg |-> FALSE, name |-> TrueName]}}
  ELSE F

\* to_cnf of a formula.
ToCnf(f) == Written(Kept(Distributed(Parsed(f))))

\* Mutation of ToCnfOfNot: the clauses are formed, the literals not negated.
ToCnfUnnegated(f) == Written(Parsed(f))

\* to_cnf of a formula's negation: one clause per conjunction.
ToCnfOfNot(f) == Written(Negated(Parsed(f)))

\* Mutation of ImpliesClauses: the two sides are swapped.
ConverseClauses(p, q) ==
  {n \cup c : n \in Negated(Parsed(q)), c \in Distributed(Parsed(p))}

\* The clauses of Implies (p, q), which is True when its sides are equal.
ImpliesClauses(p, q) ==
  IF Parsed(p) = Parsed(q) THEN {}
  ELSE {n \cup c : n \in Negated(Parsed(p)), c \in Distributed(Parsed(q))}

\* Mutation of remove_domain_val: the number stays in the symbol.
KeepDomainVal(name) == name

\* A name without the number after its last underscore.
remove_domain_val(name) == IF Len(name) > 1 THEN Front(name) ELSE name

get_domain_val(name) == IF Len(name) > 1 THEN Last(name) ELSE None

TVname == <<"TV">>

\* The key under which get_cnf_clause looks a literal's variable up; an atom
\* of the integer domain loses its last number a second time.
MapKey(name) ==
  LET symbol == remove_domain_val(name)
  IN  IF symbol_atom_map[symbol] = "boolean"
        THEN <<symbol, None>>
        ELSE <<remove_domain_val(symbol), get_domain_val(name)>>

\* Both dictionary lookups of get_cnf_clause succeed.
Resolves(name, t) ==
  /\ remove_domain_val(name) \in DOMAIN symbol_atom_map
  /\ <<t>> \o MapKey(name) \in DOMAIN state_to_cnf_vars

Signed(l, v) == IF l.neg THEN -v ELSE v

get_cnf_clause(c, t) ==
  {Signed(l, state_to_cnf_vars[<<t>> \o MapKey(l.name)]) : l \in c}

\* extract_atom_info: symbol, value and step read back from the text of a
\* name with the step appended; the pattern matches a prefix of the text.
Matches(name) == name[1] \in LetterStems

extract_atom_info(timed) ==
  IF Len(timed) = 2
    THEN [key |-> <<<<timed[1]>>, None>>, t |-> timed[2]]
    ELSE [key |-> <<<<timed[1]>>, timed[2]>>, t |-> timed[3]]

-----------------------------------------------------------------------------
Init ==
  /\ pc = "create_state_atoms"
  /\ input \in Inputs /\ steps \in StepChoices /\ incremental \in Incremental
  /\ state_atoms = <<>> /\ symbol_atom_map = <<>>
  /\ initial_state_constraints = {}
  /\ transition_constraints = <<>>
  /\ safety_violation_constraints = {}
  /\ idx = 0 /\ frame = 0 /\ slot = 1
  /\ temporal_bool_vars = <<>> /\ state_to_cnf_vars = <<>>
  /\ cnf_clauses = {}

args == <<input, steps, incremental>>
constraints == <<initial_state_constraints, transition_constraints,
                 safety_violation_constraints>>
atoms == <<state_atoms, symbol_atom_map>>
numbering == <<idx, frame, slot, temporal_bool_vars, state_to_cnf_vars>>

Raise == pc' = "raised"

TemporalAtom == [symbol |-> TVname, type |-> "boolean", domain |-> <<>>]

\* The declared atoms; the temporal atom is last.
AtomsOf(m, inc) == m.states \o (IF inc THEN <<TemporalAtom>> ELSE <<>>)

\* A symbol declared twice keeps its last type.
TypesOf(as) ==
  [s \in {as[k].symbol : k \in DOMAIN as} |->
     as[CHOOSE k \in DOMAIN as :
          /\ as[k].symbol = s
          /\ \A j \in DOMAIN as : as[j].symbol = s => j <= k].type]

CreateStateAtoms ==
  /\ pc = "create_state_atoms"
  /\ state_atoms' = AtomsOf(input, incremental)
  /\ symbol_atom_map' = TypesOf(state_atoms')
  /\ pc' = "build_constraints"
  /\ UNCHANGED <<args, constraints, numbering, cnf_clauses>>

RuleFormula(rule, inc) ==
  LET cnf == ImpliesClauses(Joined(rule.preconditions), Joined(rule.effects))
      tv == IF inc THEN {[neg |-> FALSE, name |-> TVname]} ELSE {}
  IN  Written(Kept({c \cup tv : c \in cnf}))

\* A rule with no precondition or no effect is not a parsable formula.
Parsable(rule) == rule.preconditions # <<>> /\ rule.effects # <<>>

\* build_initial_state_constraints, build_transition_constraints and
\* build_safety_constraints: the properties are negated, and the clauses of
\* all the negations are put into one list.
BuildConstraints ==
  /\ pc = "build_constraints"
  /\ IF \A r \in DOMAIN input.transitions : Parsable(input.transitions[r])
       THEN /\ initial_state_constraints' =
                 {ToCnf(input.init[k]) : k \in DOMAIN input.init}
            /\ transition_constraints' =
                 [r \in DOMAIN input.transitions |->
                    RuleFormula(input.transitions[r], incremental)]
            /\ safety_violation_constraints' =
                 UNION {ToCnfOfNot(input.safety[k]) :
                          k \in DOMAIN input.safety}
            /\ pc' = "build_state_to_cnf_vars"
       ELSE Raise /\ UNCHANGED constraints
  /\ UNCHANGED <<args, atoms, numbering, cnf_clauses>>

\* The variables of one step in the order the loop creates them: the
\* activation variable, then one per boolean atom and one per value of the
\* others.
AtomSlots(a) ==
  IF a.type = "boolean" THEN <<<<a.symbol, None>>>>
  ELSE [k \in DOMAIN a.domain |-> <<a.symbol, a.domain[k]>>]

SlotsOf(as, inc) ==
  (IF inc THEN << <<>> >> ELSE <<>>)
    \o FlattenSeq([k \in DOMAIN as |-> AtomSlots(as[k])])

FrameSlots == SlotsOf(state_atoms, incremental)

\* A dictionary with one entry set.
Put(dict, key, val) ==
  [x \in DOMAIN dict \cup {key} |-> IF x = key THEN val ELSE dict[x]]

\* Mutation of NextIndex: the numbering starts again at every step.
NextIndexRestarting == IF slot = 1 THEN 1 ELSE idx + 1

\* idx += 1.
NextIndex == idx + 1

\* One iteration of build_state_to_cnf_vars: the next index goes to the next
\* slot (an entry written twice keeps the later index).
AllocateVariable ==
  /\ pc = "build_state_to_cnf_vars"
  /\ frame <= steps /\ FrameSlots # <<>>
  /\ idx' = NextIndex
  /\ IF FrameSlots[slot] = <<>>
       THEN /\ temporal_bool_vars' = Put(temporal_bool_vars, frame, idx')
            /\ UNCHANGED state_to_cnf_vars
       ELSE /\ state_to_cnf_vars' =
                 Put(state_to_cnf_vars, <<frame>> \o FrameSlots[slot], idx')
            /\ UNCHANGED temporal_bool_vars
  /\ IF slot < Len(FrameSlots)
       THEN slot' = slot + 1 /\ frame' = frame
       ELSE slot' = 1 /\ frame' = frame + 1
  /\ UNCHANGED <<pc, args, atoms, constraints, cnf_clauses>>

\* The steps are done, or there is nothing to number in any of them.
AllocationEnds ==
  /\ pc = "build_state_to_cnf_vars"
  /\ frame > steps \/ FrameSlots = <<>>
  /\ pc' = "build_initial_state_cnf"
  /\ UNCHANGED <<args, atoms, constraints, numbering, cnf_clauses>>

\* The guard that switches the clauses of step t on.
Activated(t, c) == {-temporal_bool_vars[t]} \cup c

BuildInitialStateCnf ==
  /\ pc = "build_initial_state_cnf"
  /\ LET cs == UNION initial_state_constraints
     IN  IF /\ 0 \in DOMAIN temporal_bool_vars
            /\ \A c \in cs : \A l \in c : Resolves(l.name, 0)
           THEN /\ cnf_clauses' = {Activated(0, get_cnf_clause(c, 0)) :
                                     c \in cs}
                /\ pc' = "build_transition_cnf"
           ELSE Raise /\ UNCHANGED cnf_clauses
  /\ UNCHANGED <<args, atoms, constraints, numbering>>

TransitionClauses(t) ==
  LET cs == UNION {transition_constraints[r] :
                     r \in DOMAIN transition_constraints}
  IN  {IF incremental THEN Activated(t, get_cnf_clause(c, t))
       ELSE get_cnf_clause(c, t) : c \in cs}

BuildTransitionCnf ==
  /\ pc = "build_transition_cnf"
  /\ IF \A t \in 0..steps, r \in DOMAIN transition_constraints :
          \A c \in transition_constraints[r] :
            \A l \in c : Resolves(l.name, t)
       THEN /\ cnf_clauses' =
                 cnf_clauses \cup UNION {TransitionClauses(t) : t \in 0..steps}
            /\ pc' = "build_safety_violation_cnf"
       ELSE Raise /\ UNCHANGED cnf_clauses
  /\ UNCHANGED <<args, atoms, constraints, numbering>>

\* One literal of a safety violation clause at step t, its name read back
\* from the text that get_timed_constraints makes.
TimedInfo(l, t) == extract_atom_info(Append(l.name, t))

TimedKey(l, t) == <<TimedInfo(l, t).t>> \o TimedInfo(l, t).key

SafetyClause(c, t) ==
  LET first == CHOOSE l \in c : TRUE
  IN  Activated(TimedInfo(first, t).t,
                {Signed(l, state_to_cnf_vars[TimedKey(l, t)]) : l \in c})

BuildSafetyViolationCnf ==
  /\ pc = "build_safety_violation_cnf"
  /\ IF \A t \in 0..steps, c \in safety_violation_constraints :
          \A l \in c : /\ Matches(l.name)
                       /\ TimedKey(l, t) \in DOMAIN state_to_cnf_vars
       THEN /\ cnf_clauses' = cnf_clauses \cup
                 {SafetyClause(c, t) : t \in 0..steps,
                                       c \in safety_violation_constraints}
            /\ pc' = "save_to_file"
       ELSE Raise /\ UNCHANGED cnf_clauses
  /\ UNCHANGED <<args, atoms, constraints, numbering>>

ConverterNext ==
  \/ CreateStateAtoms \/ BuildConstraints \/ AllocateVariable
  \/ AllocationEnds \/ BuildInitialStateCnf \/ BuildTransitionCnf
  \/ BuildSafetyViolationCnf
=============================================================================
