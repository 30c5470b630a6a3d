---------------------------- MODULE ModelChecker ----------------------------
(***************************************************************************)
(* model_checker.py: spec2cnf writes the two files, solve reads them and   *)
(* drives the solver.  The composition of CNFConverter and Caller through  *)
(* the files, and what a bounded model checker should promise about it.    *)
(***************************************************************************)
EXTENDS CNFConverter, Caller, Reachability, FiniteSets

\* MaxVar bounds the model only: it is large enough for every file written.
ASSUME RoomAssumption ==
  \A m \in Inputs, n \in StepChoices, inc \in Incremental :
    (n + 1) * Len(SlotsOf(AtomsOf(m, inc), inc)) <= MaxVar

vars == <<converterVars, callerVars, ipasirVars>>

NoFile == [nvars |-> 0, clauses |-> {}]

MainInit ==
  /\ Init /\ IpasirInit /\ CallerStart
  /\ cnf_file = NoFile /\ assumptions_file = <<>>

\* The end of spec2cnf: the header and the clauses go to one file, the
\* activation literals, in the order of the steps, to the other.
SaveToFile ==
  /\ pc = "save_to_file"
  /\ cnf_file' = [nvars |-> idx, clauses |-> cnf_clauses]
  /\ assumptions_file' = [k \in 1..(steps + 1) |-> temporal_bool_vars[k - 1]]
  /\ pc' = "returned"
  /\ UNCHANGED <<input, steps, incremental, state_atoms, symbol_atom_map,
                 constraints, numbering, cnf_clauses, cpc, numvars, nv,
                 current_assumtions, result, printed, values, ipasirVars>>

Spec2Cnf == ConverterNext /\ UNCHANGED <<callerVars, ipasirVars>>

CallSolve == pc = "returned" /\ CallerNext /\ UNCHANGED converterVars

Main == Spec2Cnf \/ SaveToFile \/ CallSolve

\* The activation variable of step t, whatever the number of steps.
ActivationOf(t) == t * Len(FrameSlots) + 1

\* Another process checks the same model with another number of steps.  The
\* name of the clause file contains that number, the name of the assumption
\* file does not: it is emptied and written before this process has read it.
OtherProcess ==
  /\ pc = "returned" /\ cpc \in {"get_formula", "get_assumptions"}
  /\ \E n \in {-1} \cup (StepChoices \ {steps}) :
       assumptions_file' = [k \in 1..(n + 1) |-> ActivationOf(k - 1)]
  /\ UNCHANGED <<converterVars, cnf_file, cpc, numvars, nv, current_assumtions,
                 result, printed, values, ipasirVars>>

Next == Main \/ OtherProcess

\* One process, one thread: it runs until main returns or an exception ends it.
Spec == MainInit /\ [][Next]_vars /\ WF_vars(Main)

-----------------------------------------------------------------------------
(* Vocabulary of the properties. *)

\* No symbol and no value is declared twice, and no symbol has the name of the
\* temporal atom or of a constant.
Distinct(m) ==
  /\ \A j, k \in DOMAIN m.states :
       m.states[j].symbol = m.states[k].symbol => j = k
  /\ Symbols(m) \cap {TVname, TrueName, FalseName} = {}
  /\ \A k \in DOMAIN m.states : IsInjective(m.states[k].domain)

\* The names of the formulas in the sequence fs.
NamesIn(fs) ==
  UNION {{l.name : l \in UNION Rng(fs[k])} : k \in DOMAIN fs}

NamesUsed(m) ==
  NamesIn(m.init) \cup NamesIn(m.safety) \cup
  UNION {NamesIn(m.transitions[r].preconditions) \cup
         NamesIn(m.transitions[r].effects) : r \in DOMAIN m.transitions}

\* Symbols are letters and underscores, every name used is a declared boolean
\* or a declared atom with a value of its domain, every rule has both parts.
Plain(m) ==
  /\ Distinct(m)
  /\ \A s \in Symbols(m) : s = <<s[1]>> /\ s[1] \in LetterStems
  /\ NamesUsed(m) \subseteq
       UNION {IF a.type = "boolean" THEN {a.symbol}
              ELSE {Append(a.symbol, a.domain[k]) : k \in DOMAIN a.domain} :
                a \in Rng(m.states)}
  /\ \A r \in DOMAIN m.transitions : Parsable(m.transitions[r])

BooleanOnly(m) == \A k \in DOMAIN m.states : m.states[k].type = "boolean"

NumberingDone == pc \notin {"create_state_atoms", "build_constraints",
                            "build_state_to_cnf_vars", "raised"}

FrameVars(t) ==
  {temporal_bool_vars[u] : u \in DOMAIN temporal_bool_vars \cap {t}} \cup
  {state_to_cnf_vars[k] : k \in {k \in DOMAIN state_to_cnf_vars : k[1] = t}}

\* The clauses of the file that mention the variables of steps before j only.
ClausesBefore(j) ==
  {c \in cnf_file.clauses :
     \A l \in c : \E t \in 0..(j - 1) : VarOf(l) \in FrameVars(t)}

\* S, a set of true names, makes the literal l, the text f, all the texts fs,
\* or the stored clauses F true, where the constant True is.
NameHolds(S, l) == (l.name \in S) = ~l.neg

TextHolds(S, f) == \E d \in Rng(f) : \A l \in d : NameHolds(S, l)

NamesHold(S, fs) == \A k \in DOMAIN fs : TextHolds(S, fs[k])

ClausesHold(S, F) ==
  \A c \in F : \E l \in c : NameHolds(S \cup {TrueName}, l)

\* Mentioned by a rule.
RuleNames(rule) == NamesIn(rule.preconditions) \cup NamesIn(rule.effects)

RuleIsImplication(r) ==
  LET rule == input.transitions[r]
  IN  \A S \in SUBSET (RuleNames(rule) \cup {TVname}) :
        ClausesHold(S, transition_constraints[r]) <=>
          \/ incremental /\ TVname \in S
          \/ NamesHold(S, rule.preconditions) => NamesHold(S, rule.effects)

\* Without a top level disjunction.
Conjunctive(fs) == \A k \in DOMAIN fs : Len(fs[k]) = 1

-----------------------------------------------------------------------------
(* Properties that hold. *)

\* Types of the encoder's and the driver's state.
ModelCheckerTypeOK ==
  /\ CallerTypeOK
  /\ pc \in {"create_state_atoms", "build_constraints",
             "build_state_to_cnf_vars", "build_initial_state_cnf",
             "build_transition_cnf", "build_safety_violation_cnf",
             "save_to_file", "returned", "raised"}
  /\ idx \in 0..MaxVar
  /\ cnf_clauses \subseteq SUBSET Lits
  /\ pc = "returned" => cnf_file.nvars = idx

\* No two entries of the numbering share a variable and none lies outside the
\* header's range, even when a symbol is declared twice and its entry rewritten.
NoVariableShared ==
  /\ \A t \in DOMAIN temporal_bool_vars :
       /\ temporal_bool_vars[t] \in 1..idx
       /\ \A u \in DOMAIN temporal_bool_vars :
            temporal_bool_vars[t] = temporal_bool_vars[u] => t = u
       /\ \A k \in DOMAIN state_to_cnf_vars :
            temporal_bool_vars[t] # state_to_cnf_vars[k]
  /\ \A k \in DOMAIN state_to_cnf_vars :
       /\ state_to_cnf_vars[k] \in 1..idx
       /\ \A j \in DOMAIN state_to_cnf_vars :
            state_to_cnf_vars[k] = state_to_cnf_vars[j] => k = j

\* The numbering loop leaves no variable of the header unused and gives none
\* twice, whatever the mixture of boolean and other atoms.
NumberingExact ==
  NumberingDone /\ Distinct(input) =>
    /\ UNION {FrameVars(t) : t \in 0..steps} = 1..idx
    /\ \A t, u \in 0..steps : t # u => FrameVars(t) \cap FrameVars(u) = {}
    /\ idx = Cardinality(DOMAIN temporal_bool_vars)
               + Cardinality(DOMAIN state_to_cnf_vars)

\* The number of steps does not change the activation variable of a step, so
\* the assumption files of processes with different bounds agree as far as
\* both reach.
ActivationsAgree ==
  \A t \in DOMAIN temporal_bool_vars : temporal_bool_vars[t] = ActivationOf(t)

\* Every clause belongs to one step: it is switched on by the activation
\* variable of that step and mentions no variable of another one.
FrameLocality ==
  Plain(input) =>
    \A c \in cnf_clauses : \E t \in 0..steps :
      /\ -temporal_bool_vars[t] \in c
      /\ \A l \in c : VarOf(l) \in FrameVars(t)

\* What the driver relies on in the numbering: no two entries share a variable,
\* the header's variables are shared out between the steps without a gap, a
\* step has the same activation variable whatever the number of steps, and no
\* clause reaches into another step.
VariablesApart ==
  /\ NoVariableShared
  /\ ModelCheckerTypeOK
  /\ NumberingExact
  /\ ActivationsAgree
  /\ FrameLocality

\* The verdict for bound j depends on the clauses of steps 0 .. j-1 only: what
\* has been generated for the later steps of the same file cannot disturb it,
\* because the clauses are in the solver but not activated, and neither can
\* the assumption file of another process.
BoundIsolation ==
  Plain(input) =>
    \A j \in DOMAIN printed :
      printed[j] # 0 /\ j <= steps + 1 =>
        (printed[j] = 10 <=>
           Satisfiable(MaxVar, ClausesBefore(j),
                       {temporal_bool_vars[t] : t \in 0..(j - 1)}))

\* For boolean models the first verdict is exact: "does not hold at step 1" is
\* printed if and only if some initial state violates every safety property.
FirstVerdictMeaning ==
  Plain(input) /\ BooleanOnly(input) /\ printed # <<>> /\ printed[1] # 0 =>
    (printed[1] = 10 <=>
       \E S \in InitialStates(input) :
         \A k \in DOMAIN input.safety :
           ~FormulaHolds(input, S, input.safety[k]))

\* The constraint of a rule whose formulas have no top level disjunction is
\* the implication from its preconditions to its effects, or the temporal atom.
ConjunctiveRuleIsImplication ==
  \A r \in DOMAIN transition_constraints :
    /\ Conjunctive(input.transitions[r].preconditions)
    /\ Conjunctive(input.transitions[r].effects)
    => RuleIsImplication(r)

\* A text that some names make true and others false.
Contingent(f) ==
  LET names == {l.name : l \in UNION Rng(f)}
  IN  /\ \E S \in SUBSET names : TextHolds(S, f)
      /\ \E S \in SUBSET names : ~TextHolds(S, f)

\* A rule whose implication some names make false.
Breakable(rule) ==
  \E S \in SUBSET RuleNames(rule) :
    TextHolds(S, Joined(rule.preconditions)) /\ ~TextHolds(S, Joined(rule.effects))

\* No formula of the model is constant.
NothingConstant(m) ==
  /\ \A k \in DOMAIN m.init : Contingent(m.init[k])
  /\ \A k \in DOMAIN m.safety : Contingent(m.safety[k])
  /\ \A r \in DOMAIN m.transitions : Breakable(m.transitions[r])

\* A rule whose effects are its preconditions, up to order and repetition.
HasIdleRule(m) ==
  \E r \in DOMAIN m.transitions :
    Rng(Joined(m.transitions[r].preconditions)) = Rng(Joined(m.transitions[r].effects))

\* A plain model in the incremental encoding raises no exception when none of
\* its formulas is constant, whatever SymPy folds, and never gets past the
\* rules when one of them has its preconditions as its effects: the constraint
\* of that rule is the text True, and True is not an atom.
PlainInputAccepted ==
  Plain(input) /\ incremental /\ steps >= 0 =>
    /\ NothingConstant(input) => pc # "raised"
    /\ HasIdleRule(input) => pc \notin {"build_safety_violation_cnf",
                                        "save_to_file", "returned"}

\* The program ends, by returning from main or with an exception.
Terminates == <>(cpc \in {"done", "raised"} \/ pc = "raised")

-----------------------------------------------------------------------------
(* What the comments and the messages of the program say, and the code does *)
(* not do.                                                                  *)

\* "UNSATISFIABLE up to step j. The property holds!" means that no state
\* within j - 1 transitions of an initial state violates a safety property.
HoldsMeansUnreachable ==
  \A j \in DOMAIN printed :
    printed[j] = 20 =>
      ~\E S \in Within(input, j - 1) : Violates(input, S)
=============================================================================
