# A TLA+ model of the bounded model checker and of the solver behind it

The repository is a bounded model checker for transition systems written as
JSON files.  Four hundred lines of Python turn a model into a DIMACS file and a
list of activation literals and drive an incremental SAT solver over growing
bounds; the solver is CaDiCaL, kept in the tree under `cadical/` and loaded as a
shared library through the IPASIR interface.  This directory models the Python
program completely and the solver from its interface inwards: the API, the
search, the simplifiers, the reconstruction of models, and proofs.

## Inventory

| Part | Source | State it keeps | Operations |
| --- | --- | --- | --- |
| Driver | `model_checker.py` | none | `main`: `spec2cnf`, then `solve` |
| Encoder | `model_to_cnf.py` | atoms, normalised constraints, the numbering of (step, atom, value), the clauses | `create_state_atoms`, the three `build_*_constraints`, `build_state_to_cnf_vars`, the three `build_*_cnf`, `save_to_file` |
| Incremental driver | `caller.py` | the assumption list, the last result, a global solver | `get_formula`, `get_assumptions`, `add_clauses`, `add_assmuptions`, `ipasir_solve`, `print_result` |
| Demos | `int_comp.py`, `formula_to_cnf.py` | none | print one formula; nothing imports them |
| API | `solver.cpp`, `external.cpp`, `constrain.cpp`, `flip.cpp`, `contract.hpp` | the API state, clause and constraint under construction, assumptions, constraint, extended flag, termination flag; for flips the propergated prefix of the trail and the tainted literal | `add`, `assume`, `constrain`, `solve`, `simplify`, `val`, `flip`, `lookahead`, `phase`, `reserve`, `reset_*`, `limit`, `terminate` |
| Search | `internal.cpp`, `propagate.cpp`, `analyze.cpp`, `minimize.cpp`, `shrink.cpp`, `backtrack.cpp`, `assume.cpp`, `restart.cpp`, `reduce.cpp`, `collect.cpp` | trail, levels, reasons, watches, clauses | propagate, analyze, backtrack, restart, reduce, decide, failing |
| External propagator | `external_propagate.cpp` | observed variables, how much of the trail was told, external reasons | notify, `cb_propagate`, explain, `cb_add_external_clause`, `cb_decide`, `cb_check_found_model` |
| Decisions | `queue.cpp`, `score.cpp`, `heap.hpp`, `decide.cpp`, `phases.cpp`, `rephase.cpp`, `compact.cpp` | linked queue with stamps, heap with scores, phases | bump, rescale, decide, unassign, rephase, shuffle, compact |
| Reconstruction | `extend.cpp`, `restore.cpp`, `external.cpp`, `flags.cpp` | extension stack, witness and tainted marks, inactive variables | `internalize`, `push_*_on_extension_stack`, `restore_clauses`, `extend` |
| Clause removal | `block.cpp`, `elim.cpp`, `gates.cpp`, `cover.cpp`, `condition.cpp`, `decompose.cpp` | the irredundant clauses | block, eliminate, cover, condition, substitute |
| Equivalent simplification | `deduplicate.cpp`, `transred.cpp`, `probe.cpp`, `subsume.cpp`, `vivify.cpp` | clauses, flags and marks that say what need not be tried again | one round of each |
| Local search | `walk.cpp`, `lucky.cpp` | broken clauses, watches, the global minimum, saved phases | walk, flip, save, decide the minimum, try lucky assignments |
| Proofs | `proof.cpp`, `lratbuilder.cpp`, `checker.cpp`, `lratchecker.cpp`, the tracers | clauses by id, watches, units, chains, batches, files | add, derive, shrink, weaken, restore, delete, conclude |
| Lookahead, averages, limits, application, fuzzer | the other files of `cadical/src` | | not modelled |

How the parts interact: the driver calls the encoder and the incremental driver
in sequence and they communicate through two files (clauses; activation
literals).  The incremental driver talks to CaDiCaL through six IPASIR calls.
CaDiCaL's API is a contract-checked state machine around an internal solver;
`terminate ()` may be called by another thread while `solve ()` runs.  Inside,
`solve ()` restores clauses from the stack, simplifies, tries local search and
lucky assignments, and enters the search, which calls the simplifiers again at
the root level; all of them share trail, watches and clauses, report to the
proof, and push what they remove on the stack; a user's propagator is called
back from the search.

What is hard here: the solver forgets assumptions at every verdict while clauses
stay, so each bound must be set up again; all steps live in one file and only
activation literals keep them apart; names are cut up and read back as text;
API calls come in any order, in the middle of a clause, after a verdict or while
another thread asks for termination; clauses that preprocessing removed for one
solve may be needed again by the next one, in the right order; chronological
backtracking keeps literals out of order, and trails are reused for other
assumptions, other candidates and other levels; every technique skips work
because of a flag that another one may have made stale; deletions are traced
late.  `PROJECT.json` lists these hazards at the lines where they bite, with the
properties that would catch them.

## Modules

The program.

* `Cnf` - literals, clauses, assignments, satisfiability.
* `Ipasir` - the abstract specification: what an incremental solver promises.
  A verdict is about the clauses, assumptions and constraint given before the
  call; assumptions and constraint last for one solve.
* `Caller` - `caller.py`, on top of `Ipasir`.  One action per statement group of
  `solve ()`; `cpc` is its program counter.
* `CNFConverter` - `model_to_cnf.py`.  One action per method, in the order of the
  constructors; the numbering loop takes one step per variable.  Names are
  sequences `<<stem, n1, ..., nk>>` for `stem_n1_..._nk`, because the code cuts
  names at underscores, appends step numbers and matches patterns against the
  result; formulas are disjunctions of conjunctions without parentheses, because
  the code joins texts with ` & ` and lets precedence decide.  SymPy keeps the
  arguments of And and Or as sets and folds constants: a rule whose preconditions are
  its effects becomes the text `True`, which is looked up like an atom, in vain.
  Whether And and Or also fold complementary arguments (`a | ~a`) depends on the
  release of SymPy, which the repository does not fix: that is the constant
  `Folding`.  An exception is `pc = "raised"`.
* `Reachability` - what a model file means, independently of the encoding.
* `ModelChecker` - `model_checker.py`: the composition of `CNFConverter` and
  `Caller` through the files.  `OtherProcess` is another run of the program on
  the same model with another number of steps, which shares the assumption file.
  `MCModelChecker` holds the families of input models.

The solver's interface.

* `SolverApi` - `solver.cpp` and the parts of `external.cpp` and `constrain.cpp`
  it reaches.  Each API call is an action whose guard is the contract; `solve ()`
  is two actions so that `SOLVING` is visible to `Terminate` and `Release`.  The
  search is an oracle.  `Abstract` is the instance of `Ipasir` it implements.
* `Flip` - `flip ()` and `flippable ()` on top of `Search`: the watches the search has
  left behind blocking literals, `propergate`, which visits them again, the clauses
  that watch the literal to be flipped, the flipped trail, and the tainted literal
  from which the next solve takes it back.  A call that fails half way leaves some
  watches replaced.
* `Reconstruction` - the formula the search sees (`irredundant`, root level units
  included), the clauses the user gave (`original`) and the extension stack
  between them.  `Add`, `Assume` and `Solve` are the calls; `RestoreEntry`,
  `KeepEntry` and `RestoreEnds` are `restore_clauses`; `Block`, `Eliminate`,
  `Substitute`, `Derive` and `Subsume` are what preprocessing and search do to
  the formula and the stack; `ExtendEntry` is one round of the loop of `extend`.
* `Cover`, `Condition` - covered and globally blocked clauses on top of it, step by
  step: asymmetric and covered literal addition with the entries they push, and
  the refinement of a conditional and an autarky part with moving watches.
* `Gates` - the syntactic search of `gates.cpp` for equivalences, AND, ITE and XOR
  gates, as operators, compared with `Reconstruction`'s meaning of a gate.

The search.

* `Trail` - the assignment stack and the clause database as values.
* `Analyze` - conflict analysis as operators: levels under chronological
  backtracking, first UIP, minimization, shrinking, on-the-fly strengthening,
  eager subsumption, the level to go back to.
* `Search` - `Internal` as a process: `pc` is its place in `solve ()` and the CDCL
  loop, one action per watch visited, per conflict, decision, restart and
  reduction.  It implements `Ipasir`.
* `Propagator` - the search with a user's propagator for a small theory.
* `Decide` - what is decided next: VMTF queue, EVSIDS heap, phases, rephasing,
  compaction.  The clauses are left out; propagation is arbitrary.

The simplifiers.

* `Inprocess` - the clause database at the root level as a value, with garbage
  clauses, watches of binary clauses and what the proof can still justify.
* `Simplify` - deduplication, transitive reduction, probing, subsumption and
  collection; a technique is a record of where it is in its round.
* `Vivify` - vivification next to them.  `LocalSearch` - walks and lucky
  assignments next to both, over two queries.

Proofs.

* `Rup` - unit propagation of builder and checkers.  `LratBuilder`, `Checker`,
  `LratChecker` - their state and what each event does to it.  `Tracers` - the
  files for LRAT, FRAT, VeriPB, IDRUP and LIDRUP, as lines, with what a reader
  makes of them.  `Proof` - the solver's clauses and every event.

The theorems are in modules of their own: `ModelCheckerProofs` for the Python
program, `SolverApiProofs` for the API, `ReconstructionProofs` for what is removed
and repaired, `TrailProofs` for the trail and the conflict analysis as operators,
`SearchProofs` for the search, `DecideProofs` for the decisions and `ProofProofs`
for proof tracing and the checkers.
`SequenceLemmas` has the facts about sequences, folds and recursive functions that
they share.  The `MC` modules bound the specifications for TLC.

## Runs

| Run | Question |
| --- | --- |
| `boolean_models` | Is every printed verdict true of its bound, also when solves are interrupted, and which bounds can ever fail?  Can clauses of later steps, or another process, disturb an earlier verdict?  Is the first verdict exact?  Do rules without disjunctions become implications?  Does the program end? |
| `integer_models` | Does any DIMACS variable get two meanings, is any unused, does the number of steps change the activation literals, does each clause stay within its step, which models are accepted and which rules never are? |
| `solver_api` | Does every order of API calls implement IPASIR? |
| `flip` | Is a literal flippable exactly when its other value satisfies every clause, do flipped assignments stay models, does `val ()` tell the flipped one, does the search ever work on a flipped trail? |
| `reconstruction` | Do extended assignments satisfy what the user added, can every model of the formula be repaired at every moment, is the whole still an implementation of `Ipasir`; are covered and globally blocked clauses removed soundly, step by step; is every gate that is found one? |
| `search` | Is the trail an implication graph, propagation complete, no clause lost or invented, a model a model and a failed set a core, under all interleavings of watches, decisions, restarts, reductions and interruptions; does every solve return; does the search implement `Ipasir`? |
| `propagator` | Does the propagator know the observed part of the trail at all times, are late reasons in order, do models and cores respect the theory, does solve return? |
| `decide` | Are queue and heap intact and is the best unassigned variable found, do saved and target phases hold what they should, does compaction only rename? |
| `proof` | Is only what follows accepted, and everything justified; are chains in order after any deletion; can a reader of each file follow the solver? |
| `simplify` | Do the simplifiers keep the models, are derived clauses justified by what the proof still has, are the shortcuts (skipped probes, unmarked variables, reused trails, unwatched clauses) sound, are answers before the search right? |
| `holds_message` | A violation: what "The property holds!" claims and the code does not check. |
| `mixed_calls` | A violation: an assumption that a model does not satisfy, when clauses are added after assumptions and the trail is kept for both. |

`KeepsPromise` is `Reconstruction` implementing `Ipasir`, `RefinesIpasir` is
`SolverApi` implementing it, `ImplementsIpasir` the search.

Where several facts hold together or not at all they are one invariant, the
conjunction of named parts: `VariablesApart`, `FlipInv`, `TrailInv`, `PropagationInv`,
`AnswersHold`, `ViewInv`, `AnswersRespectTheory`, `DecideInv`, `CheckersInv`,
`FilesInv`, `DerivationsInv`, `SkipsHold`, `VivifyInv`, `LocalSearchInv`.  The type
invariant of a module that has no proofs is the first part of one of them.  The
types of `Caller`, `SolverApi` and `Reconstruction`, `StopsAtFirstNonUnsat`,
`NothingLost` and `ClausesAreActive` are proved and have no run.

`holds_message`.  The message is printed although a violation is one transition
away.  Two steps share no variable: no clause relates a step to the next one, and
a bound demands a violation at every activated step.  `OnlyFirstBoundCanFail` is
the general form and is proved.

`mixed_calls`.  With `ilb`, `ilbassumptions` and `chrono` a solve keeps the levels
whose decisions are the next assumptions.  `sort_and_reuse_assumptions` passes over
an assumption with a value on a lower level, "we can ignore propagated assumptions"
(`assume.cpp:584`), and does not ask which value.  Clauses added after `assume ()`
may have made it false; the levels above are kept all the same, and `satisfied ()`,
which counts a level for each assumption, never comes back to it.  After a solve of
`3 4 5` under 1 and 2, assuming 1, 3, 2 and then adding `-3 -1` gives SATISFIABLE
with 3 false, which `External::check_assumptions_satisfied` (`external.cpp:729`)
would refuse.  Adding the clause before the assumptions gives UNSATISFIABLE.  The
run `search` therefore adds clauses first (`MixedCalls = FALSE`), and the theorems
about answers say so in a hypothesis.

Three parts of invariants have a precondition because the code does less than a comment
says, see below: `SkippedProbesHold` without hyper binary resolution,
`SubsumersMarked` for rounds that run to their end, the second part of
`PropagationComplete` unless `MayMissUnits`.

### Bounds

* `boolean_models`, `integer_models`: models in the shape of `input_files` with one
  or two atoms and up to three steps; `MaxVar` is what the largest needs.  `Folding`
  is TRUE in `integer_models`, whose inputs have formulas that fold, and FALSE in the
  other two; the proofs cover both.
* `solver_api`: two variables, so that a new variable can meet an
  extended assignment, one complete clause, one assumption, one or two literals
  under construction; a second call of each kind shows what the first one left.
* `reconstruction`: three variables and clauses that give gates, blocked and
  covered clauses, pure literals, equivalences and units, at most three added
  (`MaxClauses`), one assumption, two entries on the stack (`MaxStack`, more only
  while one clause is covered), three irredundant clauses (`MaxFormula`; not while
  restoring).  Two entries are enough for one witness to break the clause of
  another and for a restored entry to taint a later one.  A behaviour fills the
  stack either by blocking, eliminating and substituting or by covering and
  conditioning (`globally`).  The gate search is compared on some five hundred formulas over four
  variables (`GateVar`).  `restoreall = 0`, the default; the proofs cover 0, 1, 2.
* `search`: eight problems of up to six variables and two solves, with conflicts on
  several levels, units above the root, failed assumptions and constraints, under
  nine settings of the options; one reduction per solve (`MaxReductions`); clauses
  before assumptions (`MixedCalls`).  `mixed_calls`: the shortest problem that shows it.
* `flip`: five problems of up to four variables and three solves, with binary and
  long clauses, garbage, units, assumptions and a constraint, under three settings
  with and without `ilb` and chronological backtracking; any number of flips.
* `propagator`: three problems over five variables with a theory of two clauses,
  four settings; the propagator forces the search back once (`MaxForced`).  With five
  variables a literal that the conflict does not reach keeps a level that an external
  propagation only guessed.
* `decide`: four variables, six settings, one rephasing, one compaction.  Scores
  are small integers, `One = 4` and `ScoreLimit = 17`, so that rescaling makes some
  equal.
* `proof`: three scripts over three variables, three modes, four steps of the
  solver (`MaxSteps`).  Words of the extension stack have five bits (`IdBits`), so
  that all ids fit, as they do in the code below 2^31; with three bits
  `CheckersInv` fails, because ids come back changed.
* `simplify`: six formulas over four variables, four settings, three techniques in
  a row (`MaxRuns`), at most one before a local search (`MaxBefore`), two rounds
  of walks (`MaxRounds`), a second query with one more clause.

### Fairness

`caller.py` and `model_checker.py` are one thread that runs to its end, so their
specifications have weak fairness of that thread's steps; another process may do
as it likes.  `Search` and `Propagator` have weak fairness of the solver's steps:
`solve ()` is a loop without blocking, and callbacks return.  Interruption is
possible and never assumed.  The other specifications have no fairness: the user
may stop calling.  Deadlock checking is off where the program ends or a user is
free to stop.

## Proofs

All theorems hold for every value of the constants that meets the assumptions
named in the modules: `IpasirAssumption` and `SolverApiAssumption` (the number of
variables is a natural number), `InputsAssumption` (an input has the shape
`json.load` and the checks of `model_checker.py` leave: sequences of states, rules
and formulas; nothing is said of the names, the types or the domains in them),
`SearchAssumption` (numbers are natural numbers, the options are in their ranges, a
round adds clauses without repeated literals, which `add_new_original_clause` drops
first, and assumes and constrains literals), `ProofAssumption` (the scripts are
sequences of queries over the variables, learned clauses are sequences of literals),
`RoomAssumption` (`MaxVar`, which bounds the literals of the interface, is not less
than what the numbering can reach), `DecideAssumption` and
`ReconstructionAssumption` (below) and
`GatesAssumption` (the clauses gates are looked for in are over the variables and
no tautologies, which the solver never keeps).

* `ModelCheckerProofs`, the caller.  The inductive invariant adds to the types what the loop knows:
  after `add_clauses` the solver's clauses are the file's; the assumption list is
  a prefix of the file's list, one longer than the printed verdicts while a
  solve is under way; at "solve" exactly that prefix is assumed and the interface
  has left its last verdict; at "print" the result is the truth about it; every
  verdict printed before another iteration is 20.  Neither `VerdictIsForBound`
  nor `OnlyFirstBoundCanFail` is inductive without it.  The second rests on the
  lemma `SatisfiableMonotone`: assuming more keeps a problem unsatisfiable.
* `ModelCheckerProofs`, the numbering.  That no variable has two meanings
  (`NoVariableShared`) is, with `idx \in Nat`, inductive by itself: the index only grows
  and an entry is only ever given the next index.  The rest of `VariablesApart` needs
  where the loops are: `NumberedInv` says that the
  atoms are those of the input (`AtomsInv`), that frame and slot are within the
  bounds of their loops and that the index counts the slots passed (`PositionInv`),
  that exactly the entries before that position are in the tables, the activation
  variable of a step at its place (`EntriesInv`), and that with distinct
  declarations each index is one entry's (`ExactInv`).  Activation literals and
  frames can be read off, whatever the number of steps.
  The clauses and the verdicts: `EncodedInv` adds what the
  constraints are once they are built (`ConstraintsInv`; lemmas say which names are left
  by parsing, distributing, negating and writing a formula, `ClauseNames`, and what they
  do to its meaning, `RuleMeaning`) and what the
  clauses are at each method (`ClausesInv`: the initial clauses, then those of the
  transitions, then those of the properties; each has an activation literal and stays
  within its step), and which lookups must have succeeded (`ResolvedInv`).  With it an
  input whose names are declared and whose formulas are not constant never raises
  (`PlainNeverRaises`; `NoConstantClause` says that SymPy folds a formula only if it is
  constant, `NothingFolded` that none was folded in a model that got through), one with a rule of equal sides never gets past the rules
  (`IdleRuleRefused`), and rules without disjunctions are implications under every
  assignment (`ConjunctiveRulesCorrect`).  `CheckedInv` adds the loop invariant
  of the caller, which must hold for whatever the other process writes, and that
  the files hold what the encoder has built.  `BoundsIsolated`: given a model of the
  clauses up to a bound, `SwitchedOff` makes every later activation literal false,
  which satisfies the later clauses and touches no earlier one.
  `FirstVerdictExact`: `ModelIsState` reads a state off a model and `StateIsModel`
  builds a model from a state, so that the first solve is unsatisfiable exactly when
  no initial state violates every property.
* `SolverApiProofs`.  Type correctness and the refinement `ApiRefinesIpasir`.  The refinement maps SATISFIED and UNSATISFIED to the
  verdicts and every other state to "INPUT", and the constraint vector to a set
  of at most one clause.  Each call is then one step of `Ipasir` or a stutter:
  `SteadyIsFresh` says that `transition_to_steady_state` forgets exactly what the
  promise forgets, `ForgetStep` and `StutterStep` cover the calls that add
  nothing.

* `ReconstructionProofs`.  From `ReconstructionAssumption` (a natural number of
  variables, clauses and assumptions over them, `restoreall` in 0..2).  None of
  the properties is inductive.  `StackInv` adds: no irredundant clause is a
  tautology; every witness literal on the stack is marked (`Marked`); formula and
  stack together are equivalent to the user's clauses (`Equivalent`, which is
  `NothingLost`); no entry that will stay on the stack has a witness that
  contradicts an assumption (`Safe`); and `Chained`: there is a function `g` from
  stack positions to sets of assignments such that `g[0]` holds only models of
  the user's clauses, every model of the formula is in the last set, and each
  entry takes an assignment of one set, repaired if its clause is false, to one
  of the set before.  Entries that are still to be restored (`PendingEntries`)
  are exempt from the repair.  While extending, the assignment is in `g[at]`.
  A new clause cuts every set down to its models, which is sound because exactly
  the entries whose witness could break it are pending (`ChainAdd`); restoring an
  entry joins two neighbouring sets and may make later ones pending, never
  earlier ones (`ChainRestore`); a push appends sets (`ChainPush`), given the
  redundancy of what was removed (`BlockedRepair`, `EliminatedRepair` with and
  without a gate, `SubstitutedRepair`).  Stating that some `g` exists, instead of
  computing it by recursion, makes every step a local change of `g`; the extend
  loop itself walks down the chain.  The refinement also needs the end of the walk
  before it has begun, because SATISFIABLE is announced first: `ChainReaches`
  looks at the lowest position that an assignment which satisfies the assumptions
  can reach.

* `ReconstructionProofs`, covered and globally blocked clauses, and gates.
  `ModelsStayRepairable` follows from `StackInv`: the chain `g` is a lower bound of
  what `Repairable` computes by recursion (`ChainRepairs`).
  The invariant of the two techniques is `RemovalInv`, `StackInv` with two parts.
  `CoverInv` is about a clause on its way: `Grows` says that each entry of the
  extension so far was false only where the next, longer clause was true by one of
  its literals, and that flipping its witness keeps the other clauses; and the
  clause as extended by asymmetric literals is false whenever the other clauses hold
  and the covered literals are false.  From there, walking the entries back repairs
  every model (`GrownRepaired`), which is `CoverSound`, and a push of all of them is
  a step of the chain.  `CondInv` is about a round of conditioning: the assignment
  is consistent and of removable literals, and each clause is guarded: it watches a
  true literal, or the literals it makes false are conditional ones.  Refining the partition for one candidate keeps `Guarded` although it moves
  watches that other candidates use (`UnassignedStep`, `WatchesShared`), and it ends,
  because each round takes a literal away (`RefineEnds`).  The autarky that is
  left is the witness (`AutarkyRepair`).
  `GatesFound` takes each kind of gate by itself; for XOR it counts parities: the
  clauses of a gate have sign patterns of one parity, so every assignment of the
  inputs leaves one value for the pivot.
* `SequenceLemmas`.  The library's induction theorems take a predicate as a parameter,
  which the installed provers cannot instantiate.  `NatSetInduction` is induction
  for a set instead, from the least element of a set of numbers (`NatLeast`); with
  it `IterationExists` and the lemmas that end in `Unfolds` show that a function
  defined by recursion, or a fold, exists and satisfies its equation.  That is how
  operators that are computed by recursion are reasoned about here.

* `TrailProofs`, the operators of `Trail` and `Analyze`, for any trail and database.
  `Shape` is what every trail of the search has: no variable twice, levels that
  start in order, decisions at their start, nothing below the start of its level.
  `Founded` adds that reasons imply their literals from earlier positions and are
  protected.  Assigning, deciding, pseudo levels and backtracking keep both
  (`ImpliedShape`, `DecisionShape`, `BacktrackShape`, `FoundedBacktrack`);
  `BacktrackMoves` says that backtracking moves the literals it keeps down in
  their order, also those that chronological backtracking left out of order.
  The analysis is a walk down the trail: `AnalysisInv` at position k says that the
  literals seen, less those of the conflict level above k, follow from the clauses and
  are false, that one of the conflict level is left, and that the database is a
  strengthening of the old one in which lower reasons are untouched; `AnalysisStep`
  takes it from k to k - 1, through resolution, strengthening of a reason and
  subsumption of the conflict by it.  `RemovableFacts`, `MinimizeFacts`,
  `BlockUipFacts` and `ShrinkFacts` are the same for minimization and shrinking: what
  is dropped follows from what is kept.  `AnalyzeConflictFacts` puts them together
  with the level to go back to and the literal that is driven.
* `SearchProofs`.  None of the invariants of the run is inductive.  `SearchInv` has
  types; `GraphInv` (`Founded`); `QuietInv`, when there may be clauses left to visit
  or a conflict not yet handled; `VisitInv`, that these watch the literal being
  propagated; `ConflictInv`, that a conflict is falsified, without chronological
  backtracking with a literal of the current level; `WatchInv`; and `FormulaInv`.
  `WatchInv` is the heart.  With chronological backtracking a watch may be false
  although the clause has no true literal that was there before it, and literals of
  lower levels stay where others go.  What survives is (`WatchOK`): if both watches are
  false and propagated (up to `Bound`), or one is false at the root level, the clause
  has a true literal that is not unassigned before such a watch, or whose level starts
  below it, so that the watch is propagated again when that level goes.  It is kept by
  backtracking, by assigning, by a visit and by strengthening a clause in place
  (`WatchBacktrack`, `WatchExtends`, `WatchVisited`, `StrengthensRefined`).
  `SearchInvStep` has one step per action.  From it come `TrailIsGraph`,
  `FormulaIsKept` and `PropagationHolds`.  Of `PropagationComplete` this proves that
  no clause is falsified, which is all of it under `MayMissUnits`; that no unit is
  missed under the other settings needs more than `WatchInv` says and is only
  model-checked.
  `AnswerInv` adds what a solve knows of its assumptions: the first levels are
  theirs (`LevelsInv`), the constraint and what is left of it at the root
  (`ConstraintInv`), that between the calls no assumption is false whose level may
  be kept (`ReadyInv`), and why a solve returned (`ResultInv`).  `ReadyInv` is what
  fails in `mixed_calls`; so `TrailInvariant`, `AnswersAreRight` and
  `SearchRefinesIpasir` have the hypothesis `AdditionsFirst`: clauses are added
  before assumptions, or no option setting has both `ilb` and `ilbassumptions`, both
  of which are off by default.  `FullInv` adds what `failed` holds (`FailedInv`), which
  uses that the support of the failed assumption resolves to assumptions only.  In the
  refinement the steps inside a solve stutter; `Return` steps are the verdicts.
  `FlipsAnswerExactly` is about `Flip`: if long clauses without a true watch are still
  to be visited (`BlockedAreVisited`) then after `propergate` every clause has a true
  watch, and a flip falsifies a clause only if it watches the literal beside a false
  one.  Its hypothesis is the part of `FlipInv` that TLC checks; it is not derived from
  `WatchInv`.

* `DecideProofs`.  From `DecideAssumption`: bounds are natural numbers, options are in
  their ranges, a score limit leaves room for a score of 1.0 per variable, and
  `One > 3`, as 1.0 is 2^1074 times the smallest double.  The inductive invariant
  `DecideIInv` has two parts, neither of which the run's `DecideInv` implies.
  `Decides` says with sets and orders what `DecideInv` says by walking: there is a set
  of queued variables (`Found`), everything else is assigned at the root, and each
  variable of the set has as `prev` and `next` its neighbours in the order of the
  stamps (`Linked`); nothing unassigned comes after `queue.unassigned`; the heap is
  a tree ordered by score that holds every unassigned variable (`HeapTree`); the
  trail is a stack of levels without repetition (`Stack`), its literals above the
  root are the saved phases (`Agrees`), and external variables that are not fixed
  have internal variables of their own (`Named`).  A lemma per operation says what it
  does to the set or the order: sifting keeps the heap a tree with one fault that
  moves along a path, dequeueing and enqueueing move one variable to the end,
  shuffling and compaction relink a whole order (`OrderLinks`).  Backwards walks and
  heap pops are iterations whose stages are described one by one (`StagesExist`,
  `StagesStay`).
  `Grows` says that no score of a variable that may still be bumped is far ahead of
  the increment.  Rescaling divides the increment by the highest score, and only
  because the increment keeps up with the scores is it not rounded to 0
  (`RescaleGrows`), after which bumping would have no effect.
  `DecidesStep` and `GrowsStep` have one step per action; the three action
  properties follow from the invariant before the step (`DecisionBest`,
  `TargetTaken`, `CompactionNames`).

* `ProofProofs`, proof tracing.  `DerivedClausesFollow`: the solver learns any clause
  with any chain, or none, and shrinks, weakens, restores and deletes in any order;
  still every clause it has, or has put on the extension stack, is true in every
  model of what the user added.  In each mode `Checker`, `LratChecker` or both are on,
  and an event that one of them refuses ends the proof.  `ProofInv` says that what the
  checkers have stored, the solver's clauses and the weakened ones are true in those
  models; `Fine` says that an event keeps the tables so.
  For `Checker` this is a statement about watches (`Shaped`, `ListOK`): a list holds
  clauses of the table under literals of theirs, so that a visit only moves a watch,
  forces a literal that the clause and the trail imply, or finds a falsified clause
  (`VisitLongStep`, `VisitFold`, `PropagateLiteralFacts`).  What is propagated is
  thereby true in each model in which the assumed literals are, also from a
  trail that is cut and resumed, and an empty result refutes the negated clause
  (`PropagateFacts`, `CheckFacts`).  That watches are complete is not needed.
  For `LratChecker` it is the walk along a chain (`ChainSound`): while the marks are
  negated literals of the clause or units of it and of the clauses passed, a model
  that falsifies the clause would satisfy all the marks.  The builder needs no lemma:
  its chains are checked like any others.
  A new query only takes models away (`FewerModels`), and the closure of a failed core
  adds clauses that the checker has seen (`FinishFailedFacts`).
  Operators are not parameters of lemmas here, so that every `FoldLeft` is
  unfolded where it is used, with the body in the statement.

Only model-checked:

* liveness (`Terminates`, `SolveReturns`, `PropagatorReturns`), which is out of the
  reach of the installed provers;
* that no unit is missed under the settings without `MayMissUnits`;
* `JustifiedAccepted`, `CheckersInv` and `FilesInv`: that a checker accepts what
  is justified needs that its propagation finds every unit and that ids fit in the
  words of the extension stack, and the files are read back step by step;
* `FlipInv`, on whose first two parts `FlipsAnswerExactly` rests;
* the invariants of the propagator (`ViewInv`, `ReasonsInOrder`,
  `AnswersRespectTheory`);
* the invariants of `Simplify`, `Vivify` and `LocalSearch`, whose unit propagation and
  depth-first searches are `RECURSIVE` operators (in `Inprocess`), which the prover
  does not take.

## Abstractions

* SymPy's `parse_expr` and `to_cnf` are modelled on disjunctions of conjunctions;
  parentheses inside one formula are not.  The DIMACS text is kept as sets of integer literals.
* `OtherProcess` empties and rewrites the assumption file in one step each; a
  number cut in two by a partial write is left out, the list is written at once.
* In `SolverApi` a clause under construction is not seen by a solve.  In the code
  the buffer is shared with clauses restored from the extension stack.  Of
  `flip ()` only success is an action there, given what it is to achieve; how it is
  achieved is in `Flip`.
* In `Reconstruction` internal and external literals are one; clauses are sets;
  the flag `unsat` is the formula `{{}}`.  Redundant clauses are not kept: what
  they allow the solver to derive is any clause implied by formula and stack
  (`Implied`).  A gate there is any set of clauses that defines the pivot;
  occurrence lists may be in any order; schedules and limits are left open;
  `decompose` replaces one variable per step.
* `Flip` leaves out eliminated and unused variables, on which `External::flip ()`
  answers without looking, and the blocking literals and positions that `flippable ()`
  updates.
* `Analyze` replaces a removed watch by one fixed choice, and shrinks as with
  `shrink = 3` without remembering what failed.  `Propagator` analyses a conflict that a
  forced backtrack leaves, where the code asserts that there is none.
* `Eliminate` requires the whole gate, also where satisfied or strengthened clauses of it
  are gone by the time it is used.
* `Condition` tries candidates in a fixed order and also the clauses that are
  reasons, which the code skips.
* In `Search` a user adds clauses, then assumes, then constrains; with `MixedCalls`
  clauses and assumptions come in any order.  It decides any unassigned literal and visits watches in any order; a
  reduction may remove any redundant clause that is no reason.  Clauses are sets
  with two watches; the position saved in a clause is not kept.
* `Decide` leaves out the clauses: any literal of `Implied` may be propagated and
  any propagation may end in a conflict.  When to restart, rephase or switch
  modes is left open; `reluctant.hpp` and the averages only choose the moment.
* `Simplify` and `Vivify` take long clauses as propagated to completion, without
  saying by which watches.  Effort limits may be hit at any moment; a round of
  subsumption without limit is not interrupted.
* `LocalSearch` flips any literal of a broken clause; scores are positive.
* `Proof` takes hash tables as functions from ids and clauses as sets, so a chain's
  resolvent is compared without regard to repeated literals; a line of a file is a record,
  except for the numbers of the binary format, which are taken apart and read.

## Not modelled

* The FLUSH rule of `restore.cpp` (`restoreflush` is 0 by default), the literals of
  constraints and phases in `Reconstruction`, and the buffer that a restored and
  an unfinished clause share.
* `lookahead.cpp` except for what `lookahead ()` does to the API's state, and
  `generate_cubes`; `instantiate.cpp` (off by default); `ternary.cpp` (never runs,
  see below); backward subsumption other than by its effect.
* Options, freezing, copying a solver, terminators and learners; observing
  variables inside a callback, disconnecting a propagator and the literals it
  taints.
* Averages, limits, reports, profiling, parsing and writing of files, the arena,
  sorting: they choose moments, print, or move data without changing it.
* The stand-alone solver, the fuzzer and the two demos.
* That `caller.py` prints no assignment because `numvars` is shadowed (line 88):
  only the wording of the output depends on it; `values` in `Caller` shows it.

## Met while modelling

Disagreements that have no run of their own.  In the Python program: an integer
atom may have two values at once, since one variable per value is created and
nothing relates them (`model_to_cnf.py:682`); the negations of several properties
are conjoined, so only a state that violates all of them counts (`:565`); the
positive literal TV makes every rule clause vacuous (`:553`); formulas joined as
text change a rule with a top level disjunction (`:549`;
`ConjunctiveRuleIsImplication` is the part that holds); the non-incremental
encoding always raises (`:692`); names with a digit after a letter are refused and
the step of an atom whose symbol ends in a number is misread (`:45`); a process
that reads the assumption file of a longer run prints verdicts for steps it has
no clauses for, one that finds the file emptied ends with an exception.

In the API: `assume ()`, `constrain (0)` and `reserve ()` in the middle of a clause
make the API ready although `contract.hpp:82` forbids a solve with an unfinished
clause; `lookahead ()` stays in SATISFIED without an assignment (`solver.cpp:651`)
and keeps the assumptions that `cadical.hpp:265` says it resets; `phase ()` of a new
variable after `val ()` reaches `assert (!extended)`; `generate_cubes` resets `unsat`
although probing at the root level refuted the formula (`lookahead.cpp:471`).

In the solver, none of which makes an answer wrong:

* Hyper ternary resolution never runs.  The flag `ternary` of a variable is set when
  it is created, only newly set flags are counted, and the count it is compared
  with starts at 0 as well (`flags.hpp:56`, `internal.hpp:881`, `ternary.cpp:359`).
* With hyper binary resolution a probe that is skipped because no unit was found
  may fail by a clause derived meanwhile (`probe.cpp:752`).  After a round of
  subsumption that hit its limit the next one tries only what was left, but resets
  all marks, so a subsumed clause may be missed (`subsume.cpp:549`).  Flushing in
  `vivify.cpp` finds only identical clauses, since longer ones are sorted first.
* Deduplication may use a garbage binary clause; its deletion is traced later.
* `walk_break_value` (`walk.cpp:138`) counts too much if the second true literal is
  the last one.  The global minimum of the walks is never reset, so in a later
  query a better assignment of that query is not saved (`walk.cpp:394`).
* An asymmetric tautology is counted as covered but kept (`cover.cpp:369`); the
  missing false literals of the last entry are only added when there is a proof.
* Under lazy backtracking a new clause may watch a true literal that is unassigned
  before the false one.  In `remove_garbage_binaries` the test `c->reason &&
  c->collect ()` is never true.
* On-the-fly strengthening removes literals that are false at the root level, also
  one that is watched because its unit was found out of order, above other literals
  of the clause.  Whatever literal moves to its place is watched (`analyze.cpp:735`),
  also one that is false, propagated and of a low level: no backtracking that keeps
  this level visits the clause again, and a unit is missed, which `watch.hpp:18` says
  it tries to rule out.  It takes `chrono` and `otfs`, both on by default: with the
  clauses `-6 -2`, `-6 -3`, `4 5 2 3 1`, `-4 5 2`, `-5 4` and `-5 -4` TLC finds it after 29
  steps.  The proof of `PropagationComplete` led here; `MayMissUnits` states the
  settings.
* Compaction keeps `queue.bumped` of a variable that is gone; it is only compared.
  Score ties after underflow would fail the disabled test in `heap.hpp`.
* The builder forgets inconsistency if a reason is deleted while the empty clause
  exists; IDRUP and LIDRUP swallow the restoring of a clause whose deletion is
  still to come; closing a LIDRUP file does not flush its batches; the constraint
  of `LratChecker` is not reset between queries; ids from 2^31 on come back changed
  from the extension stack (`extend.cpp:11`).

## Plan

Done: the Python program, the API, search, propagator, decisions, reconstruction,
simplifiers, local search, proofs, and the theorems above.

1. Proofs: `ViewInv` on top of `SearchInv`; a watch invariant for `PropagationComplete` without `MayMissUnits`;
   completeness of the checkers' propagation for `JustifiedAccepted`; unit propagation
   in `Inprocess` as functions, as in `Rup`, so that the simplifiers come within reach
   of the prover.
2. `lookahead.cpp` with `generate_cubes`, and instantiation, next to `Simplify`.
3. Constraints, phases and the FLUSH rule in `Reconstruction`; observing variables
   inside callbacks in `Propagator`.
