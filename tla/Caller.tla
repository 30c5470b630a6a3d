------------------------------- MODULE Caller -------------------------------
(***************************************************************************)
(* caller.py: reads the DIMACS file and the assumption file, gives the     *)
(* clauses to the solver once and then solves incrementally: iteration i   *)
(* assumes the first i + 1 activation literals and prints the verdict, and *)
(* the loop ends at the first verdict that is not UNSATISFIABLE.           *)
(***************************************************************************)
EXTENDS Ipasir, Sequences

VARIABLES
  cnf_file,           \* [nvars, clauses]: the content of the DIMACS file
  assumptions_file,   \* the sequence of activation literals in the other file
  cpc,                \* the next statement of solve ()
  numvars,            \* the module's global numvars
  nv,                 \* the local the header's count is stored in
  current_assumtions, \* the assumption list that grows by one an iteration
  result,             \* the last value of ipasir_solve
  printed,            \* the results print_result has reported, in order
  values              \* the variables whose value print_result has asked for

callerVars == <<cnf_file, assumptions_file, cpc, numvars, nv,
                current_assumtions, result, printed, values>>

\* Nothing the loop has not reached yet has a value.
CallerStart ==
  /\ cpc = "get_formula"
  /\ numvars = 0 /\ nv = 0
  /\ current_assumtions = <<>>
  /\ result = 0
  /\ printed = <<>> /\ values = {}

\* The module's global is shadowed by the local of solve (): it stays 0.
GetFormula ==
  /\ cpc = "get_formula"
  /\ nv' = cnf_file.nvars
  /\ cpc' = "get_assumptions"
  /\ UNCHANGED <<cnf_file, assumptions_file, numvars, current_assumtions,
                 result, printed, values, ipasirVars>>

\* The one line of the file is split at its commas: the line of an empty file
\* is not a number and ends the program.
GetAssumptions ==
  /\ cpc = "get_assumptions"
  /\ cpc' = IF assumptions_file = <<>> THEN "raised" ELSE "add_clauses"
  /\ UNCHANGED <<cnf_file, assumptions_file, numvars, nv, current_assumtions,
                 result, printed, values, ipasirVars>>

AddAllClauses ==
  /\ cpc = "add_clauses"
  /\ AddClauses(cnf_file.clauses)
  /\ cpc' = "loop"
  /\ UNCHANGED <<cnf_file, assumptions_file, numvars, nv,
                 current_assumtions, result, printed, values>>

\* Mutation of ToAssume: only the newest literal is assumed.
ToAssumeNewestOnly(list) == {list[Len(list)]}

\* add_assmuptions passes every literal of the list to ipasir_assume.
ToAssume(list) == Rng(list)

\* An iteration appends the next activation literal and assumes the whole
\* list again.
AddAssumptions ==
  /\ cpc = "loop"
  /\ Len(printed) < Len(assumptions_file)
  /\ current_assumtions' =
       Append(current_assumtions, assumptions_file[Len(printed) + 1])
  /\ AssumeLits(ToAssume(current_assumtions'))
  /\ cpc' = "solve"
  /\ UNCHANGED <<cnf_file, assumptions_file, numvars, nv, result, printed,
                 values>>

IpasirSolve ==
  /\ cpc = "solve"
  /\ \E r \in {0, 10, 20} : Solve(r) /\ result' = r
  /\ cpc' = "print"
  /\ UNCHANGED <<cnf_file, assumptions_file, numvars, nv,
                 current_assumtions, printed, values>>

\* The test after print_result that ends the loop.
AfterVerdict(r) == IF r = 20 THEN "loop" ELSE "done"

\* print_result, and the test that ends the loop.
PrintResult ==
  /\ cpc = "print"
  /\ printed' = Append(printed, result)
  /\ values' = IF result = 10 THEN 1..numvars ELSE values
  /\ cpc' = AfterVerdict(result)
  /\ UNCHANGED <<cnf_file, assumptions_file, numvars, nv,
                 current_assumtions, result, ipasirVars>>

\* Mutation of Exhausted: one iteration too many is waited for.
ExhaustedOffByOne == Len(printed) > Len(assumptions_file)

\* The loop over the assumptions has no further element.
Exhausted == Len(printed) = Len(assumptions_file)

\* The assumptions are exhausted: solve () returns.
LoopEnds ==
  /\ cpc = "loop"
  /\ Exhausted
  /\ cpc' = "done"
  /\ UNCHANGED <<cnf_file, assumptions_file, numvars, nv,
                 current_assumtions, result, printed, values, ipasirVars>>

CallerNext ==
  \/ GetFormula \/ GetAssumptions \/ AddAllClauses \/ AddAssumptions \/ IpasirSolve
  \/ PrintResult \/ LoopEnds

\* caller.py on its own: the files may hold any clauses and any literals.
CallerInit ==
  /\ CallerStart /\ IpasirInit
  /\ cnf_file \in [nvars : Nat, clauses : SUBSET SUBSET Lits]
  /\ assumptions_file \in Seq(Lits)

\* One thread runs solve () to its end.
CallerSpec ==
  /\ CallerInit /\ [][CallerNext]_<<callerVars, ipasirVars>>
  /\ WF_<<callerVars, ipasirVars>>(CallerNext)

-----------------------------------------------------------------------------
(* Properties. *)

\* Types: the locals of solve () and the state of the solver it drives.
CallerTypeOK ==
  /\ IpasirTypeOK
  /\ cnf_file \in [nvars : Nat, clauses : SUBSET SUBSET Lits]
  /\ assumptions_file \in Seq(Lits)
  /\ cpc \in {"get_formula", "get_assumptions", "add_clauses", "loop", "solve",
              "print", "done", "raised"}
  /\ numvars \in Nat /\ nv \in Nat
  /\ current_assumtions \in Seq(Lits)
  /\ result \in {0, 10, 20}
  /\ printed \in Seq({0, 10, 20})
  /\ values \subseteq Nat

\* The activation literals of the first j bounds.
ActivatedBy(j) == {assumptions_file[k] : k \in 1..j}

\* The clauses of the file, with the first j bounds switched on, have a model.
SatUpTo(j) == Satisfiable(MaxVar, cnf_file.clauses, ActivatedBy(j))

\* The verdict printed for bound j is the truth about the file's clauses with
\* exactly the first j activation literals assumed, although the solver
\* forgets its assumptions at every verdict and the clauses are given once.
VerdictIsForBound ==
  \A j \in DOMAIN printed :
    /\ printed[j] = 10 => SatUpTo(j)
    /\ printed[j] = 20 => ~SatUpTo(j)

\* Bounds are switched on and never off, so the problem only gets harder:
\* once a bound is UNSATISFIABLE every later one is.  "SATISFIABLE. The
\* property does not hold at step i" can be printed for the first bound only.
OnlyFirstBoundCanFail ==
  \A j \in DOMAIN printed : printed[j] = 10 => j = 1

\* solve () returns after the first verdict that is not UNSATISFIABLE, and
\* reports at most one verdict per activation literal.
StopsAtFirstNonUnsat ==
  [][printed' # printed =>
       /\ Len(printed) < Len(assumptions_file)
       /\ \A j \in DOMAIN printed : printed[j] = 20]_<<callerVars, ipasirVars>>

=============================================================================
