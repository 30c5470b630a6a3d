------------------------- MODULE ModelCheckerProofs -------------------------
(***************************************************************************)
(* Proofs about caller.py for every number of variables and every pair of  *)
(* input files: the types, the meaning of each printed verdict, and that   *)
(* only the first bound can be reported as failing.                        *)
(*                                                                         *)
(* Proofs about model_checker.py for every set of inputs, every number of  *)
(* steps and either encoding: which variables and clauses the encoder      *)
(* makes, that a plain model is never refused, and what the verdicts of    *)
(* the driver mean.                                                        *)
(***************************************************************************)
EXTENDS ModelChecker, Caller, SequenceLemmas, FiniteSetTheorems, TLAPS

-----------------------------------------------------------------------------
(* The driver on its own. *)

\* Everything the loop keeps in order between its statements.
LoopInv ==
  /\ constraint = {}
  /\ cpc \in {"get_formula", "get_assumptions", "add_clauses", "raised"} =>
       printed = <<>> /\ clauses = {} /\ assumed = {} /\ verdict = "INPUT"
  /\ cpc \in {"loop", "solve", "print", "done"} => clauses = cnf_file.clauses
  /\ Len(printed) <= Len(assumptions_file)
  /\ cpc \in {"solve", "print"} => Len(printed) < Len(assumptions_file)
  /\ cpc \in {"get_formula", "get_assumptions", "add_clauses", "loop"} =>
       Len(current_assumtions) = Len(printed) /\ FreshAssumed = {}
  /\ cpc \in {"solve", "print"} =>
       Len(current_assumtions) = Len(printed) + 1
  /\ cpc # "done" =>
       /\ Len(current_assumtions) <= Len(assumptions_file)
       /\ \A k \in 1..Len(current_assumtions) :
            current_assumtions[k] = assumptions_file[k]
  /\ cpc = "solve" => verdict = "INPUT" /\ assumed = ActivatedBy(Len(printed) + 1)
  /\ cpc = "print" =>
       /\ result = 10 => SatUpTo(Len(printed) + 1)
       /\ result = 20 => ~SatUpTo(Len(printed) + 1) /\ verdict = "UNSAT"
  /\ cpc # "done" => \A j \in DOMAIN printed : printed[j] = 20
  /\ \A j \in DOMAIN printed : j > 1 => printed[j - 1] = 20

CallerInv == CallerTypeOK /\ LoopInv /\ VerdictIsForBound

allVars == <<callerVars, ipasirVars>>

-----------------------------------------------------------------------------
\* Fewer assumptions are easier to satisfy: a model of a formula under the
\* assumptions B is a model of it under every subset A of them.
LEMMA SatisfiableMonotone ==
  ASSUME NEW n, NEW F, NEW A, NEW B, A \subseteq B, Satisfiable(n, F, B)
  PROVE  Satisfiable(n, F, A)
BY DEF Satisfiable, SatAll

-----------------------------------------------------------------------------
\* The files hold what the type invariant asks for and no verdict has been
\* printed when solve () is entered.
LEMMA InitEstablishes == CallerInit => CallerInv
BY IpasirAssumption
   DEF CallerInit, CallerStart, IpasirInit, CallerInv, CallerTypeOK, LoopInv,
       IpasirTypeOK, VerdictIsForBound, FreshAssumed

\* Every statement of solve () preserves the types.
LEMMA TypePreserved ==
  CallerTypeOK /\ LoopInv /\ [CallerNext]_allVars => CallerTypeOK'
<1> SUFFICES ASSUME CallerTypeOK, LoopInv, [CallerNext]_allVars
             PROVE  CallerTypeOK'
  OBVIOUS
<1> USE DEF CallerTypeOK, IpasirTypeOK
<1>1. CASE GetFormula
  BY <1>1 DEF GetFormula, ipasirVars
<1>2. CASE AddAllClauses
  BY <1>2 DEF AddAllClauses, AddClauses, FreshAssumed, FreshConstraint
<1>9. CASE GetAssumptions
  BY <1>9 DEF GetAssumptions, ipasirVars
<1>3. CASE AddAssumptions
  <2>1. current_assumtions' \in Seq(Lits)
    BY <1>3 DEF AddAssumptions
  <2>2. ToAssume(current_assumtions') \subseteq Lits
    BY <2>1 DEF ToAssume, Rng
  <2>3. QED
    BY <1>3, <2>1, <2>2
       DEF AddAssumptions, AssumeLits, FreshAssumed, FreshConstraint
<1>4. CASE IpasirSolve
  BY <1>4 DEF IpasirSolve, Solve, FreshAssumed, FreshConstraint
<1>5. CASE PrintResult
  BY <1>5 DEF PrintResult, AfterVerdict, ipasirVars
<1>6. CASE LoopEnds
  BY <1>6 DEF LoopEnds, ipasirVars
<1>7. CASE UNCHANGED allVars
  BY <1>7 DEF allVars, callerVars, ipasirVars
<1>8. QED
  BY <1>1, <1>2, <1>3, <1>4, <1>5, <1>6, <1>7, <1>9 DEF CallerNext

\* Every statement of solve () preserves the order the loop keeps and the
\* meaning of the verdicts printed so far.
LEMMA LoopPreserved ==
  CallerInv /\ [CallerNext]_allVars => LoopInv' /\ VerdictIsForBound'
<1> SUFFICES ASSUME CallerInv, [CallerNext]_allVars
             PROVE  LoopInv' /\ VerdictIsForBound'
  OBVIOUS
<1>0. CallerTypeOK /\ LoopInv /\ VerdictIsForBound /\ CallerTypeOK'
  BY TypePreserved DEF CallerInv
<1>1. CASE GetFormula
  BY <1>0, <1>1 DEF GetFormula, ipasirVars, LoopInv, VerdictIsForBound,
     CallerTypeOK, FreshAssumed, SatUpTo, ActivatedBy
<1>9. CASE GetAssumptions
  BY <1>0, <1>9 DEF GetAssumptions, ipasirVars, LoopInv, VerdictIsForBound,
     CallerTypeOK, FreshAssumed, SatUpTo, ActivatedBy
<1>2. CASE AddAllClauses
  BY <1>0, <1>2 DEF AddAllClauses, AddClauses, LoopInv, VerdictIsForBound,
     CallerTypeOK, FreshAssumed, FreshConstraint, SatUpTo, ActivatedBy
<1>3. CASE AddAssumptions
  <2> DEFINE n == Len(printed)
  <2>1. /\ Len(current_assumtions') = n + 1
        /\ \A k \in 1..(n + 1) : current_assumtions'[k] = assumptions_file[k]
        /\ n \in Nat /\ n < Len(assumptions_file)
    BY <1>0, <1>3 DEF AddAssumptions, LoopInv, CallerTypeOK
  <2>2. Rng(current_assumtions') = ActivatedBy(n + 1)
    <3>1. current_assumtions' \in Seq(Lits) /\ n + 1 \in Nat
      BY <1>0, <2>1 DEF CallerTypeOK
    <3>2. DOMAIN current_assumtions' = 1..(n + 1)
      BY <3>1, <2>1
    <3>3. QED
      BY <3>2, <2>1 DEF Rng, ActivatedBy
  <2>3. /\ assumed' = ActivatedBy(n + 1) /\ verdict' = "INPUT"
        /\ constraint' = {} /\ clauses' = clauses
    BY <1>0, <1>3, <2>2
       DEF AddAssumptions, AssumeLits, ToAssume, LoopInv, FreshAssumed,
           FreshConstraint
  <2>4. /\ UNCHANGED <<cnf_file, assumptions_file, printed, result>>
        /\ cpc' = "solve" /\ cpc = "loop"
    BY <1>3 DEF AddAssumptions
  <2>5. \A j : ActivatedBy(j)' = ActivatedBy(j) /\ SatUpTo(j)' = SatUpTo(j)
    BY <2>4 DEF ActivatedBy, SatUpTo
  <2>6. VerdictIsForBound'
    BY <1>0, <2>4, <2>5 DEF VerdictIsForBound
  <2>7. LoopInv'
    BY <1>0, <2>1, <2>3, <2>4, <2>5 DEF LoopInv, CallerTypeOK
  <2>8. QED
    BY <2>6, <2>7
<1>4. CASE IpasirSolve
  <2> DEFINE n == Len(printed)
  <2>1. /\ UNCHANGED <<cnf_file, assumptions_file, printed,
                       current_assumtions, clauses>>
        /\ cpc' = "print" /\ cpc = "solve"
    BY <1>4 DEF IpasirSolve, Solve
  <2>2. \A j : ActivatedBy(j)' = ActivatedBy(j) /\ SatUpTo(j)' = SatUpTo(j)
    BY <2>1 DEF ActivatedBy, SatUpTo
  <2>3. Holds = SatUpTo(n + 1)
    BY <1>0, <2>1 DEF LoopInv, Holds, SatUpTo, FreshAssumed, FreshConstraint
  <2>4. /\ result' = 10 => SatUpTo(n + 1)
        /\ result' = 20 => ~SatUpTo(n + 1) /\ verdict' = "UNSAT"
        /\ constraint' = {}
    BY <1>0, <1>4, <2>1, <2>3
       DEF IpasirSolve, Solve, LoopInv, FreshConstraint
  <2>5. VerdictIsForBound'
    BY <1>0, <2>1, <2>2 DEF VerdictIsForBound
  <2>6. LoopInv'
    BY <1>0, <2>1, <2>2, <2>4 DEF LoopInv, CallerTypeOK
  <2>7. QED
    BY <2>5, <2>6
<1>5. CASE PrintResult
  <2> DEFINE n == Len(printed)
  <2>1. /\ UNCHANGED <<cnf_file, assumptions_file, current_assumtions, result,
                       clauses, assumed, verdict, constraint>>
        /\ printed' = Append(printed, result)
        /\ cpc' = IF result = 20 THEN "loop" ELSE "done"
        /\ cpc = "print"
    BY <1>5 DEF PrintResult, AfterVerdict, ipasirVars
  <2>2. \A j : ActivatedBy(j)' = ActivatedBy(j) /\ SatUpTo(j)' = SatUpTo(j)
    BY <2>1 DEF ActivatedBy, SatUpTo
  <2>3. /\ Len(printed') = n + 1 /\ n \in Nat
        /\ DOMAIN printed' = 1..(n + 1) /\ DOMAIN printed = 1..n
        /\ \A j \in 1..n : printed'[j] = printed[j]
        /\ printed'[n + 1] = result
    BY <1>0, <2>1 DEF CallerTypeOK
  <2>4. /\ \A j \in 1..n : printed[j] = 20
        /\ result = 10 => SatUpTo(n + 1)
        /\ result = 20 => ~SatUpTo(n + 1) /\ verdict = "UNSAT"
    BY <1>0, <2>1, <2>3 DEF LoopInv
  <2>5. VerdictIsForBound'
    BY <1>0, <2>2, <2>3, <2>4 DEF VerdictIsForBound
  <2>6. \A j \in DOMAIN printed' : j > 1 => printed'[j - 1] = 20
    BY <2>3, <2>4
  <2>7. cpc' # "done" => \A j \in DOMAIN printed' : printed'[j] = 20
    BY <2>1, <2>3, <2>4
  <2>8. cpc' = "loop" => FreshAssumed' = {}
    BY <2>1, <2>4 DEF FreshAssumed
  <2>9. cpc' \in {"loop", "done"}
    BY <2>1
  <2>10. LoopInv'
    BY <1>0, <2>1, <2>3, <2>6, <2>7, <2>8, <2>9 DEF LoopInv, CallerTypeOK
  <2>11. QED
    BY <2>5, <2>10
<1>6. CASE LoopEnds
  BY SMTT(30), <1>0, <1>6 DEF LoopEnds, ipasirVars, LoopInv, VerdictIsForBound,
     CallerTypeOK, FreshAssumed, SatUpTo, ActivatedBy
<1>7. CASE UNCHANGED allVars
  BY <1>0, <1>7 DEF allVars, callerVars, ipasirVars, LoopInv,
     VerdictIsForBound, CallerTypeOK, FreshAssumed, SatUpTo, ActivatedBy
<1>8. QED
  BY <1>1, <1>2, <1>3, <1>4, <1>5, <1>6, <1>7, <1>9 DEF CallerNext

\* The invariant of solve () holds in every state of every run.
THEOREM CallerInvariant == CallerSpec => []CallerInv
<1>1. CallerInit => CallerInv
  BY InitEstablishes
<1>2. CallerInv /\ [CallerNext]_allVars => CallerInv'
  BY TypePreserved, LoopPreserved DEF CallerInv
<1>3. QED
  BY <1>1, <1>2, PTL DEF CallerSpec, allVars

\* Type correctness of caller.py and of the solver interface it drives.
THEOREM CallerTypeCorrect == CallerSpec => []CallerTypeOK
BY CallerInvariant, PTL DEF CallerInv

\* Every printed verdict is the truth about the file's clauses under exactly
\* the activation literals of the bounds up to it.
THEOREM VerdictCorrect == CallerSpec => []VerdictIsForBound
BY CallerInvariant, PTL DEF CallerInv

\* "The property does not hold at step i" is printed for no bound but the
\* first, for every formula: a later bound assumes a superset of the literals
\* of the bound before it, which was already unsatisfiable.
THEOREM OnlyFirstBound == CallerSpec => []OnlyFirstBoundCanFail
<1>1. CallerInv => OnlyFirstBoundCanFail
  <2> SUFFICES ASSUME CallerInv, NEW j \in DOMAIN printed,
                      printed[j] = 10, j # 1
               PROVE  FALSE
    BY DEF OnlyFirstBoundCanFail
  <2>1. j \in Nat /\ j > 1 /\ j - 1 \in DOMAIN printed /\ j - 1 \in Nat
    BY DEF CallerInv, CallerTypeOK
  <2>2. printed[j - 1] = 20
    BY <2>1 DEF CallerInv, LoopInv
  <2>3. SatUpTo(j) /\ ~SatUpTo(j - 1)
    BY <2>1, <2>2 DEF CallerInv, VerdictIsForBound
  <2>4. ActivatedBy(j - 1) \subseteq ActivatedBy(j)
    BY <2>1 DEF ActivatedBy
  <2>5. QED
    BY <2>3, <2>4, SatisfiableMonotone DEF SatUpTo
<1>2. QED
  BY <1>1, CallerInvariant, PTL

\* solve () prints nothing after a verdict that is not UNSATISFIABLE, and at
\* most one verdict per activation literal.
THEOREM StopsEarly == CallerSpec => StopsAtFirstNonUnsat
<1>1. CallerInv /\ [CallerNext]_allVars =>
        [printed' # printed =>
           /\ Len(printed) < Len(assumptions_file)
           /\ \A j \in DOMAIN printed : printed[j] = 20]_allVars
  BY DEF CallerInv, LoopInv, CallerNext, GetFormula, GetAssumptions, AddAllClauses,
     AddAssumptions, IpasirSolve, PrintResult, LoopEnds
<1>2. QED
  BY <1>1, CallerInvariant, PTL DEF CallerSpec, StopsAtFirstNonUnsat, allVars

-----------------------------------------------------------------------------
(* The slots of a step. *)

\* A sequence is a sequence over its own elements.
LEMMA SeqOfItsRange ==
  ASSUME NEW U, NEW s \in Seq(U)
  PROVE  /\ s \in Seq(Rng(s)) /\ Len(s) \in Nat /\ DOMAIN s = 1..Len(s)
         /\ Rng(s) \subseteq U
<1>1. Len(s) \in Nat /\ s \in [1..Len(s) -> U] /\ DOMAIN s = 1..Len(s)
  OBVIOUS
<1>2. \A k \in 1..Len(s) : s[k] \in Rng(s)
  BY <1>1 DEF Rng
<1>3. s \in [1..Len(s) -> Rng(s)]
  BY <1>1, <1>2
<1>4. Rng(s) \subseteq U
  BY <1>1 DEF Rng
<1> QED
  BY <1>1, <1>3, <1>4

\* The slots of one atom: its symbol with None, or with each value.
LEMMA AtomSlotsFacts ==
  ASSUME NEW a, IsSequence(a.domain)
  PROVE  /\ AtomSlots(a) \in Seq(Rng(AtomSlots(a)))
         /\ \A x : In(x, AtomSlots(a)) <=>
              IF a.type = "boolean" THEN x = <<a.symbol, None>>
              ELSE \E k \in DOMAIN a.domain : x = <<a.symbol, a.domain[k]>>
         /\ IsInjective(a.domain) => Once(AtomSlots(a))
<1>1. CASE a.type = "boolean"
  <2>1. AtomSlots(a) = << <<a.symbol, None>> >>
    BY <1>1 DEF AtomSlots
  <2> DEFINE p == <<a.symbol, None>>
  <2>2. AtomSlots(a) = <<p>>
    BY <2>1
  <2> HIDE DEF p
  <2>3. <<p>> \in Seq(Rng(<<p>>)) /\ Once(<<p>>) /\ \A x : In(x, <<p>>) <=> x = p
    BY DEF Rng, Once, In
  <2> QED
    BY <1>1, <2>2, <2>3 DEF p
<1>2. CASE a.type # "boolean"
  <2> DEFINE d == a.domain
  <2>1. AtomSlots(a) = [k \in DOMAIN d |-> <<a.symbol, d[k]>>]
    BY <1>2 DEF AtomSlots
  <2>2. d \in Seq(Rng(d))
    BY DEF IsSequence
  <2> HIDE DEF d
  <2>3. DOMAIN d = 1..Len(d) /\ Len(d) \in Nat
    BY <2>2
  <2> DEFINE s == AtomSlots(a)
  <2>4. /\ DOMAIN s = 1..Len(d)
        /\ \A k \in 1..Len(d) : s[k] = <<a.symbol, d[k]>>
    BY <2>1, <2>3
  <2>5. s = [k \in 1..Len(d) |-> s[k]]
    BY <2>1, <2>3
  <2> HIDE DEF s
  <2>6. s \in Seq(Rng(s))
    BY <2>3, <2>4, <2>5 DEF Rng
  <2>7. \A x : In(x, s) <=> \E k \in DOMAIN d : x = <<a.symbol, d[k]>>
    BY <2>3, <2>4 DEF In
  <2>8. ASSUME IsInjective(d) PROVE Once(s)
    <3>1. ASSUME NEW j \in 1..Len(d), NEW k \in 1..Len(d), s[j] = s[k]
          PROVE  j = k
      <4>1. d[j] = d[k]
        BY <2>4, <3>1
      <4> QED
        BY <2>3, <2>8, <4>1 DEF IsInjective
    <3> QED
      BY <2>4, <3>1 DEF Once
  <2> QED
    BY <1>2, <2>6, <2>7, <2>8 DEF s, d
<1> QED
  BY <1>1, <1>2

\* A slot of an atom is a pair that starts with the atom's symbol.
LEMMA SlotPair ==
  ASSUME NEW a, IsSequence(a.domain), NEW x, In(x, AtomSlots(a))
  PROVE  /\ \E v : x = <<a.symbol, v>>
         /\ x[1] = a.symbol /\ x # <<>>
<1>1. \E v : x = <<a.symbol, v>>
  BY AtomSlotsFacts
<1> QED
  BY <1>1

\* The atoms of the encoder: those of the input, and the temporal atom.
LEMMA AtomsFacts ==
  ASSUME NEW m \in Inputs, NEW inc \in BOOLEAN
  PROVE  /\ AtomsOf(m, inc) \in Seq(Rng(AtomsOf(m, inc)))
         /\ DOMAIN m.states \subseteq DOMAIN AtomsOf(m, inc)
         /\ \A k \in DOMAIN m.states : AtomsOf(m, inc)[k] = m.states[k]
         /\ \A k \in DOMAIN AtomsOf(m, inc) :
              k \notin DOMAIN m.states =>
                /\ inc /\ k = Len(m.states) + 1
                /\ AtomsOf(m, inc)[k] = TemporalAtom
         /\ inc => /\ Len(m.states) + 1 \in DOMAIN AtomsOf(m, inc)
                   /\ AtomsOf(m, inc)[Len(m.states) + 1] = TemporalAtom
         /\ Len(m.states) \in Nat /\ DOMAIN m.states = 1..Len(m.states)
         /\ \A k \in DOMAIN AtomsOf(m, inc) : IsSequence(AtomsOf(m, inc)[k].domain)
<1> DEFINE as == AtomsOf(m, inc)
<1> DEFINE st == m.states
<1>1. st \in Seq(Rng(st)) /\ \A k \in DOMAIN st : IsSequence(st[k].domain)
  BY InputsAssumption DEF IsSequence
<1>2. as = st \o (IF inc THEN <<TemporalAtom>> ELSE <<>>)
  BY DEF AtomsOf
<1>3. IsSequence(TemporalAtom.domain)
  BY DEF TemporalAtom, IsSequence
<1> HIDE DEF as, st
<1> DEFINE U == Rng(st) \cup {TemporalAtom}
<1>4. st \in Seq(U) /\ <<TemporalAtom>> \in Seq(U)
  <2>1. Rng(st) \subseteq U
    OBVIOUS
  <2>2. TemporalAtom \in U
    OBVIOUS
  <2> HIDE DEF U
  <2> QED
    BY <1>1, <2>1, <2>2
<1> HIDE DEF U
<1>5. CASE inc
  <2>1. as = st \o <<TemporalAtom>>
    BY <1>2, <1>5
  <2>2. /\ as \in Seq(U) /\ DOMAIN as = 1..(Len(st) + 1)
        /\ DOMAIN st = 1..Len(st) /\ Len(st) \in Nat
        /\ \A k \in 1..Len(st) : as[k] = st[k]
        /\ as[Len(st) + 1] = TemporalAtom
    BY <1>4, <2>1
  <2>3. as \in Seq(Rng(as))
    BY <2>2, SeqOfItsRange
  <2>4. \A k \in DOMAIN as : k \notin DOMAIN st => k = Len(st) + 1
    BY <2>2
  <2>5. \A k \in DOMAIN as : IsSequence(as[k].domain)
    BY <1>1, <1>3, <2>2, <2>4
  <2>6. DOMAIN st \subseteq DOMAIN as /\ Len(st) + 1 \in DOMAIN as
    BY <2>2
  <2> QED
    BY <1>5, <2>2, <2>3, <2>4, <2>5, <2>6 DEF as, st
<1>6. CASE ~inc
  <2>1. as = st
    BY <1>2, <1>4, <1>6
  <2> QED
    BY <1>1, <1>6, <2>1 DEF as, st
<1> QED
  BY <1>5, <1>6

\* The slots of a step: the activation variable's is the first, and the
\* others are the slots of the atoms, no two the same if the declarations are
\* distinct.
LEMMA SlotsFacts ==
  ASSUME NEW m \in Inputs, NEW inc \in BOOLEAN
  PROVE  LET as == AtomsOf(m, inc)
             sl == SlotsOf(as, inc)
         IN  /\ sl \in Seq(Rng(sl))
             /\ inc => 1 \in DOMAIN sl
             /\ \A s \in DOMAIN sl : sl[s] = <<>> <=> inc /\ s = 1
             /\ \A s \in DOMAIN sl : sl[s] # <<>> =>
                  \E k \in DOMAIN as : In(sl[s], AtomSlots(as[k]))
             /\ \A k \in DOMAIN as : \A x :
                  In(x, AtomSlots(as[k])) => In(x, sl)
             /\ Distinct(m) => Once(sl)
<1> DEFINE as == AtomsOf(m, inc)
<1> DEFINE sl == SlotsOf(as, inc)
<1> DEFINE ss == [k \in DOMAIN as |-> AtomSlots(as[k])]
<1> DEFINE fl == FlattenSeq(ss)
<1> DEFINE U == UNION {Rng(AtomSlots(as[k])) : k \in DOMAIN as}
<1>1. sl = (IF inc THEN << <<>> >> ELSE <<>>) \o fl
  BY DEF SlotsOf
<1>2. /\ as \in Seq(Rng(as)) /\ DOMAIN as = 1..Len(as) /\ Len(as) \in Nat
      /\ \A k \in DOMAIN as : IsSequence(as[k].domain)
  BY AtomsFacts
<1>3. \A k \in DOMAIN as : AtomSlots(as[k]) \in Seq(U)
  <2> SUFFICES ASSUME NEW k \in DOMAIN as PROVE AtomSlots(as[k]) \in Seq(U)
    OBVIOUS
  <2>1. AtomSlots(as[k]) \in Seq(Rng(AtomSlots(as[k])))
    BY <1>2, AtomSlotsFacts
  <2>2. Rng(AtomSlots(as[k])) \subseteq U
    OBVIOUS
  <2> HIDE DEF U
  <2> QED
    BY <2>1, <2>2
<1>4. Distinct(m) => Apart(ss)
  <2> SUFFICES ASSUME Distinct(m) PROVE Apart(ss)
    OBVIOUS
  <2>1. \A j, k \in DOMAIN as : as[j].symbol = as[k].symbol => j = k
    <3>1. \A j \in DOMAIN m.states : m.states[j].symbol # TVname
      BY DEF Distinct, Symbols
    <3>2. TemporalAtom.symbol = TVname
      BY DEF TemporalAtom
    <3> QED
      BY <3>1, <3>2, AtomsFacts DEF Distinct
  <2>2. \A k \in DOMAIN as : Once(AtomSlots(as[k]))
    <3> SUFFICES ASSUME NEW k \in DOMAIN as PROVE Once(AtomSlots(as[k]))
      OBVIOUS
    <3>1. IsInjective(as[k].domain)
      <4>1. IsInjective(TemporalAtom.domain)
        BY DEF TemporalAtom, IsInjective
      <4> QED
        BY <4>1, AtomsFacts DEF Distinct
    <3> QED
      BY <1>2, <3>1, AtomSlotsFacts
  <2>3. ASSUME NEW j \in DOMAIN as, NEW k \in DOMAIN as, NEW x,
               In(x, AtomSlots(as[j])), In(x, AtomSlots(as[k]))
        PROVE  j = k
    <3>1. x[1] = as[j].symbol /\ x[1] = as[k].symbol
      BY <1>2, <2>3, SlotPair
    <3> QED
      BY <2>1, <3>1
  <2> HIDE DEF as
  <2> QED
    BY <2>2, <2>3 DEF Apart
<1> HIDE DEF as, U
<1>5. ss \in Seq(Seq(U)) /\ DOMAIN ss = DOMAIN as
      /\ \A k \in DOMAIN as : ss[k] = AtomSlots(as[k])
  <2>1. ss \in [1..Len(as) -> Seq(U)]
    BY <1>2, <1>3
  <2>2. ss \in Seq(Seq(U))
    <3> HIDE DEF ss
    <3> QED
      BY <1>2, <2>1, FunctionIsSeq
  <2> QED
    BY <2>2
<1> HIDE DEF ss
<1>6. /\ fl \in Seq(U)
      /\ \A x : In(x, fl) <=> \E k \in DOMAIN as : In(x, AtomSlots(as[k]))
      /\ Apart(ss) => Once(fl)
  BY <1>5, FlattenFacts
<1>7. \A x : In(x, fl) => x # <<>>
  BY <1>2, <1>6, SlotPair
<1> HIDE DEF fl, sl
<1>8. CASE inc
  <2> DEFINE e == <<>>
  <2> DEFINE V == U \cup {e}
  <2>1. fl \in Seq(V) /\ <<e>> \in Seq(V)
    <3>1. U \subseteq V /\ e \in V
      OBVIOUS
    <3> HIDE DEF V, e
    <3> QED
      BY <1>6, <3>1
  <2>2. sl = <<e>> \o fl
    BY <1>1, <1>8
  <2> HIDE DEF V
  <2>3. /\ sl \in Seq(V)
        /\ \A x : In(x, sl) <=> In(x, <<e>>) \/ In(x, fl)
        /\ Once(<<e>>) /\ Once(fl) /\ (\A x : ~(In(x, <<e>>) /\ In(x, fl)))
             => Once(sl)
    <3> HIDE DEF e
    <3> QED
      BY <2>1, <2>2, ConcatFacts
  <2>4. \A x : In(x, <<e>>) <=> x = e
    <3> HIDE DEF e
    <3> QED
      BY DEF In
  <2>5. Once(<<e>>)
    <3> HIDE DEF e
    <3> QED
      BY DEF Once
  <2>6. Distinct(m) => Once(sl)
    BY <1>4, <1>6, <1>7, <2>3, <2>4, <2>5
  <2>7. /\ DOMAIN sl = 1..(1 + Len(fl)) /\ Len(fl) \in Nat /\ sl[1] = e
        /\ \A s \in 2..(1 + Len(fl)) : sl[s] = fl[s - 1] /\ s - 1 \in DOMAIN fl
    <3> HIDE DEF e
    <3> QED
      BY <2>1, <2>2
  <2>8. \A s \in DOMAIN sl : s # 1 => In(sl[s], fl)
    BY <2>7 DEF In
  <2>9. sl \in Seq(Rng(sl))
    BY <2>3, SeqOfItsRange
  <2>10. \A s \in DOMAIN sl : sl[s] = <<>> <=> s = 1
    BY <1>7, <2>7, <2>8
  <2>11. \A s \in DOMAIN sl : sl[s] # <<>> =>
           \E k \in DOMAIN as : In(sl[s], AtomSlots(as[k]))
    BY <1>6, <2>8, <2>10
  <2>12. \A k \in DOMAIN as : \A x : In(x, AtomSlots(as[k])) => In(x, sl)
    BY <1>6, <2>3
  <2>13. 1 \in DOMAIN sl
    BY <2>7
  <2> QED
    BY <1>8, <2>6, <2>9, <2>10, <2>11, <2>12, <2>13 DEF as, sl
<1>9. CASE ~inc
  <2>1. sl = fl
    BY <1>1, <1>6, <1>9
  <2>2. \A s \in DOMAIN sl : In(sl[s], fl)
    BY <2>1 DEF In
  <2>3. sl \in Seq(Rng(sl))
    BY <1>6, <2>1, SeqOfItsRange
  <2> QED
    BY <1>4, <1>6, <1>7, <1>9, <2>1, <2>2, <2>3 DEF as, sl
<1> QED
  BY <1>8, <1>9

-----------------------------------------------------------------------------
(* The numbering loop. *)

\* Before the loop.
Preparing == pc \in {"create_state_atoms", "build_constraints"}

\* What the earlier methods leave for the later ones.
AtomsInv ==
  /\ input \in Inputs /\ steps \in StepChoices /\ incremental \in Incremental
  /\ pc # "create_state_atoms" =>
       /\ state_atoms = AtomsOf(input, incremental)
       /\ symbol_atom_map = TypesOf(state_atoms)

\* Slot s of step t has its variable.
Allocated(t, s) == t < frame \/ (t = frame /\ s < slot)

\* Where the loop is: the index counts the slots it has passed.
PositionInv ==
  /\ idx \in Nat /\ frame \in Nat /\ slot \in Nat /\ slot >= 1
  /\ Preparing => /\ idx = 0 /\ frame = 0 /\ slot = 1
                  /\ temporal_bool_vars = <<>> /\ state_to_cnf_vars = <<>>
  /\ ~Preparing => idx = frame * Len(FrameSlots) + (slot - 1)
  /\ slot > 1 => slot <= Len(FrameSlots) /\ frame <= steps
  /\ frame > 0 => frame <= steps + 1
  /\ NumberingDone => frame > steps \/ FrameSlots = <<>>

\* The entries are those of the slots passed, no more and no fewer.
EntriesInv ==
  /\ \A t \in DOMAIN temporal_bool_vars :
       /\ incremental /\ t \in 0..steps /\ Allocated(t, 1)
       /\ temporal_bool_vars[t] = ActivationOf(t)
  /\ incremental =>
       \A t \in 0..frame : Allocated(t, 1) => t \in DOMAIN temporal_bool_vars
  /\ \A k \in DOMAIN state_to_cnf_vars :
       \E t \in 0..steps, s \in DOMAIN FrameSlots :
         /\ Allocated(t, s) /\ FrameSlots[s] # <<>>
         /\ k = <<t>> \o FrameSlots[s]
  /\ \A t \in 0..frame, s \in DOMAIN FrameSlots :
       Allocated(t, s) /\ FrameSlots[s] # <<>> =>
         <<t>> \o FrameSlots[s] \in DOMAIN state_to_cnf_vars

\* With distinct declarations every index is in use and none is lost.
ExactInv ==
  Distinct(input) =>
    /\ \A v \in 1..idx :
         \/ \E t \in DOMAIN temporal_bool_vars : temporal_bool_vars[t] = v
         \/ \E k \in DOMAIN state_to_cnf_vars : state_to_cnf_vars[k] = v
    /\ IsFiniteSet(DOMAIN temporal_bool_vars)
    /\ IsFiniteSet(DOMAIN state_to_cnf_vars)
    /\ idx = Cardinality(DOMAIN temporal_bool_vars)
               + Cardinality(DOMAIN state_to_cnf_vars)

\* The numbering entries are fresh because the index only grows.
NumberingInv == idx \in Nat /\ NoVariableShared

\* The numbering is a function of these variables alone.
LEMMA NumberingUnchanged ==
  NumberingInv /\ UNCHANGED <<idx, temporal_bool_vars, state_to_cnf_vars>>
    => NumberingInv'
BY DEF NumberingInv, NoVariableShared

\* One iteration of the numbering loop gives an unused index to one entry.
LEMMA AllocationFresh == NumberingInv /\ AllocateVariable => NumberingInv'
<1> SUFFICES ASSUME NumberingInv, AllocateVariable PROVE NumberingInv'
  OBVIOUS
<1>1. idx \in Nat /\ idx' = idx + 1 /\ idx' \in Nat
  BY DEF NumberingInv, AllocateVariable, NextIndex
<1>2. CASE /\ temporal_bool_vars' = Put(temporal_bool_vars, frame, idx')
           /\ UNCHANGED state_to_cnf_vars
  <2>1. /\ DOMAIN temporal_bool_vars' = DOMAIN temporal_bool_vars \cup {frame}
        /\ \A t \in DOMAIN temporal_bool_vars' :
             temporal_bool_vars'[t] =
               IF t = frame THEN idx' ELSE temporal_bool_vars[t]
    BY <1>2 DEF Put
  <2>2. \A t \in DOMAIN temporal_bool_vars :
          temporal_bool_vars[t] \in 1..idx /\ temporal_bool_vars[t] # idx'
    BY <1>1 DEF NumberingInv, NoVariableShared
  <2>3. \A k \in DOMAIN state_to_cnf_vars :
          state_to_cnf_vars[k] \in 1..idx /\ state_to_cnf_vars[k] # idx'
    BY <1>1 DEF NumberingInv, NoVariableShared
  <2>4. \A t, u \in DOMAIN temporal_bool_vars' :
          temporal_bool_vars'[t] = temporal_bool_vars'[u] => t = u
    BY <2>1, <2>2 DEF NumberingInv, NoVariableShared
  <2>5. \A t \in DOMAIN temporal_bool_vars', k \in DOMAIN state_to_cnf_vars :
          temporal_bool_vars'[t] # state_to_cnf_vars[k]
    BY <2>1, <2>3 DEF NumberingInv, NoVariableShared
  <2>6. \A t \in DOMAIN temporal_bool_vars' :
          temporal_bool_vars'[t] \in 1..idx'
    BY <1>1, <2>1, <2>2
  <2>7. QED
    BY <1>1, <1>2, <2>3, <2>4, <2>5, <2>6 DEF NumberingInv, NoVariableShared
<1>3. CASE /\ state_to_cnf_vars' =
                Put(state_to_cnf_vars, <<frame>> \o FrameSlots[slot], idx')
           /\ UNCHANGED temporal_bool_vars
  <2> DEFINE key == <<frame>> \o FrameSlots[slot]
  <2>1. /\ DOMAIN state_to_cnf_vars' = DOMAIN state_to_cnf_vars \cup {key}
        /\ \A k \in DOMAIN state_to_cnf_vars' :
             state_to_cnf_vars'[k] =
               IF k = key THEN idx' ELSE state_to_cnf_vars[k]
    BY <1>3 DEF Put
  <2> HIDE DEF key
  <2>2. \A k \in DOMAIN state_to_cnf_vars :
          state_to_cnf_vars[k] \in 1..idx /\ state_to_cnf_vars[k] # idx'
    BY <1>1 DEF NumberingInv, NoVariableShared
  <2>3. \A t \in DOMAIN temporal_bool_vars :
          temporal_bool_vars[t] \in 1..idx /\ temporal_bool_vars[t] # idx'
    BY <1>1 DEF NumberingInv, NoVariableShared
  <2>4. \A k, j \in DOMAIN state_to_cnf_vars' :
          state_to_cnf_vars'[k] = state_to_cnf_vars'[j] => k = j
    BY <2>1, <2>2 DEF NumberingInv, NoVariableShared
  <2>5. \A t \in DOMAIN temporal_bool_vars, k \in DOMAIN state_to_cnf_vars' :
          temporal_bool_vars[t] # state_to_cnf_vars'[k]
    BY <2>1, <2>3 DEF NumberingInv, NoVariableShared
  <2>6. \A k \in DOMAIN state_to_cnf_vars' : state_to_cnf_vars'[k] \in 1..idx'
    BY <1>1, <2>1, <2>2
  <2>7. QED
    BY <1>1, <1>3, <2>3, <2>4, <2>5, <2>6 DEF NumberingInv, NoVariableShared
<1>4. QED
  BY <1>2, <1>3 DEF AllocateVariable

\* The slots of a step in a state of the encoder.
LEMMA StateSlots ==
  ASSUME AtomsInv, pc # "create_state_atoms"
  PROVE  /\ incremental \in BOOLEAN /\ steps \in Int
         /\ Len(FrameSlots) \in Nat /\ DOMAIN FrameSlots = 1..Len(FrameSlots)
         /\ FrameSlots # <<>> <=> Len(FrameSlots) >= 1
         /\ incremental => 1 \in DOMAIN FrameSlots
         /\ \A s \in DOMAIN FrameSlots : FrameSlots[s] = <<>> <=> incremental /\ s = 1
         /\ \A s \in DOMAIN FrameSlots : FrameSlots[s] # <<>> =>
              \E k \in DOMAIN state_atoms : In(FrameSlots[s], AtomSlots(state_atoms[k]))
         /\ \A s \in DOMAIN FrameSlots : FrameSlots[s] # <<>> =>
              FrameSlots[s] = <<FrameSlots[s][1], FrameSlots[s][2]>>
         /\ \A k \in DOMAIN state_atoms : \A x :
              In(x, AtomSlots(state_atoms[k])) => In(x, FrameSlots)
         /\ Distinct(input) => Once(FrameSlots)
<1>1. input \in Inputs /\ incremental \in BOOLEAN /\ steps \in Int
  BY InputsAssumption DEF AtomsInv
<1>2. state_atoms = AtomsOf(input, incremental)
  BY DEF AtomsInv
<1> DEFINE sl == FrameSlots
<1>3. sl = SlotsOf(AtomsOf(input, incremental), incremental)
  BY <1>2 DEF FrameSlots
<1>4. /\ sl \in Seq(Rng(sl))
      /\ incremental => 1 \in DOMAIN sl
      /\ \A s \in DOMAIN sl : sl[s] = <<>> <=> incremental /\ s = 1
      /\ \A s \in DOMAIN sl : sl[s] # <<>> =>
           \E k \in DOMAIN state_atoms : In(sl[s], AtomSlots(state_atoms[k]))
      /\ \A k \in DOMAIN state_atoms : \A x :
           In(x, AtomSlots(state_atoms[k])) => In(x, sl)
      /\ Distinct(input) => Once(sl)
  BY <1>1, <1>2, <1>3, SlotsFacts
<1> HIDE DEF sl
<1>5. /\ Len(sl) \in Nat /\ DOMAIN sl = 1..Len(sl)
      /\ sl # <<>> <=> Len(sl) >= 1
  BY <1>4
<1>6. ASSUME NEW s \in DOMAIN sl, sl[s] # <<>>
      PROVE  sl[s] = <<sl[s][1], sl[s][2]>>
  <2>1. PICK k \in DOMAIN state_atoms : In(sl[s], AtomSlots(state_atoms[k]))
    BY <1>4, <1>6
  <2>2. IsSequence(state_atoms[k].domain)
    BY <1>1, <1>2, <2>1, AtomsFacts
  <2>3. \E v : sl[s] = <<state_atoms[k].symbol, v>>
    BY <2>1, <2>2, SlotPair
  <2> QED
    BY <2>3
<1> QED
  BY <1>1, <1>4, <1>5, <1>6 DEF sl

\* The key of a slot names its step and its slot.
LEMMA KeyFacts ==
  ASSUME NEW t, NEW x, x = <<x[1], x[2]>>
  PROVE  <<t>> \o x = <<t, x[1], x[2]>> /\ (<<t>> \o x)[1] = t
<1>1. \A u, a, b : <<u>> \o <<a, b>> = <<u, a, b>>
  BY PrependToPair
<1>2. <<t>> \o x = <<t, x[1], x[2]>>
  BY <1>1
<1> QED
  BY <1>2

\* Two slots of two steps with the same key are the same.
LEMMA KeyInjective ==
  ASSUME NEW t, NEW x, x = <<x[1], x[2]>>, NEW u, NEW y, y = <<y[1], y[2]>>,
         <<t>> \o x = <<u>> \o y
  PROVE  t = u /\ x = y
<1>1. <<t, x[1], x[2]>> = <<u, y[1], y[2]>>
  BY KeyFacts
<1>2. t = u /\ x[1] = y[1] /\ x[2] = y[2]
  BY <1>1
<1> QED
  BY <1>2

\* One iteration passes exactly one slot.
LEMMA AllocationPasses ==
  ASSUME AtomsInv, PositionInv, AllocateVariable
  PROVE  /\ slot \in DOMAIN FrameSlots /\ frame \in 0..steps
         /\ FrameSlots' = FrameSlots
         /\ pc = "build_state_to_cnf_vars" /\ UNCHANGED <<pc, args, atoms>>
         /\ \A t \in Nat, s \in DOMAIN FrameSlots :
              Allocated(t, s)' <=> Allocated(t, s) \/ (t = frame /\ s = slot)
         /\ frame' \in Nat /\ frame <= frame'
         /\ PositionInv'
<1> DEFINE L == Len(FrameSlots)
<1>1. /\ pc = "build_state_to_cnf_vars"
      /\ frame <= steps /\ FrameSlots # <<>> /\ idx' = idx + 1
      /\ UNCHANGED <<pc, args, atoms>>
      /\ IF slot < L THEN slot' = slot + 1 /\ frame' = frame
         ELSE slot' = 1 /\ frame' = frame + 1
  BY DEF AllocateVariable, NextIndex
<1>2. FrameSlots' = FrameSlots
  BY <1>1 DEF FrameSlots, args, atoms
<1>3. L \in Nat /\ DOMAIN FrameSlots = 1..L /\ L >= 1 /\ steps \in Int
  BY <1>1, StateSlots
<1>4. /\ idx \in Nat /\ frame \in Nat /\ slot \in Nat /\ slot >= 1 /\ slot <= L
      /\ idx = frame * L + (slot - 1)
  BY <1>1, <1>3 DEF PositionInv, Preparing
<1>5. Len(FrameSlots') = L
  BY <1>2
<1> HIDE DEF L
<1>6. \A t \in Nat, s \in 1..L :
        Allocated(t, s)' <=> Allocated(t, s) \/ (t = frame /\ s = slot)
  BY <1>1, <1>3, <1>4 DEF Allocated
<1>7. idx' = frame' * L + (slot' - 1)
  <2>1. CASE slot < L
    <3>1. frame * L \in Nat /\ slot' = slot + 1 /\ frame' * L = frame * L
      BY <1>1, <1>3, <1>4, <2>1
    <3> QED
      BY <1>1, <1>4, <3>1
  <2>2. CASE ~(slot < L)
    <3>1. slot = L /\ slot' = 1 /\ frame' = frame + 1
      BY <1>1, <1>3, <1>4, <2>2
    <3>2. (frame + 1) * L = frame * L + L
      BY <1>3, <1>4
    <3>3. frame * L \in Nat
      BY <1>3, <1>4
    <3> QED
      BY <1>1, <1>3, <1>4, <3>1, <3>2, <3>3
  <2> QED
    BY <2>1, <2>2
<1>8. /\ idx' \in Nat /\ frame' \in Nat /\ slot' \in Nat /\ slot' >= 1
      /\ slot' > 1 => slot' <= L /\ frame' <= steps
      /\ frame' > 0 => frame' <= steps + 1
      /\ frame <= frame'
  BY <1>1, <1>3, <1>4 DEF PositionInv
<1>9. ~Preparing' /\ ~NumberingDone'
  BY <1>1 DEF Preparing, NumberingDone
<1>10. steps' = steps
  BY <1>1 DEF args
<1>11. PositionInv'
  BY <1>5, <1>7, <1>8, <1>9, <1>10 DEF PositionInv
<1> QED
  BY <1>1, <1>2, <1>3, <1>4, <1>6, <1>8, <1>11

\* The new entry is the one of the slot passed.
LEMMA AllocationEntries ==
  ASSUME AtomsInv, PositionInv, EntriesInv, AllocateVariable
  PROVE  EntriesInv'
<1>1. /\ slot \in DOMAIN FrameSlots /\ frame \in 0..steps
      /\ FrameSlots' = FrameSlots
      /\ UNCHANGED <<input, steps, incremental>>
      /\ \A t \in Nat, s \in DOMAIN FrameSlots :
           Allocated(t, s)' <=> Allocated(t, s) \/ (t = frame /\ s = slot)
      /\ frame' \in Nat /\ frame <= frame'
  BY AllocationPasses DEF args
<1>2. pc # "create_state_atoms"
  BY DEF AllocateVariable
<1>3. /\ incremental \in BOOLEAN /\ steps \in Int
      /\ incremental => 1 \in DOMAIN FrameSlots
      /\ \A s \in DOMAIN FrameSlots : FrameSlots[s] = <<>> <=> incremental /\ s = 1
      /\ DOMAIN FrameSlots = 1..Len(FrameSlots) /\ Len(FrameSlots) \in Nat
  BY <1>2, StateSlots
<1>4. frame \in Nat /\ slot \in Nat /\ slot >= 1 /\ idx \in Nat
      /\ idx' = frame * Len(FrameSlots) + (slot - 1) + 1
  BY DEF PositionInv, AllocateVariable, NextIndex, Preparing
<1>5. \A t : ActivationOf(t)' = ActivationOf(t)
  BY <1>1 DEF ActivationOf
<1>6. \A t \in 0..frame', s \in DOMAIN FrameSlots :
        Allocated(t, s) => t \in 0..frame
  BY <1>1, <1>3, <1>4 DEF Allocated
<1>7. CASE FrameSlots[slot] = <<>>
  <2>1. incremental /\ slot = 1
    BY <1>1, <1>3, <1>7
  <2>2. /\ temporal_bool_vars' = Put(temporal_bool_vars, frame, idx')
        /\ state_to_cnf_vars' = state_to_cnf_vars
    BY <1>7 DEF AllocateVariable
  <2>3. idx' = ActivationOf(frame)
    BY <1>3, <1>4, <2>1 DEF ActivationOf
  <2>4. /\ DOMAIN temporal_bool_vars' = DOMAIN temporal_bool_vars \cup {frame}
        /\ temporal_bool_vars'[frame] = idx'
        /\ \A t \in DOMAIN temporal_bool_vars :
             t # frame => temporal_bool_vars'[t] = temporal_bool_vars[t]
    BY <2>2 DEF Put
  <2>5. \A t \in DOMAIN temporal_bool_vars' :
          /\ incremental' /\ t \in 0..steps' /\ Allocated(t, 1)'
          /\ temporal_bool_vars'[t] = ActivationOf(t)'
    <3> SUFFICES ASSUME NEW t \in DOMAIN temporal_bool_vars'
                 PROVE  /\ t \in 0..steps /\ Allocated(t, 1)'
                        /\ temporal_bool_vars'[t] = ActivationOf(t)
      BY <1>1, <1>5, <2>1
    <3>1. CASE t = frame
      BY <1>1, <1>4, <2>1, <2>3, <2>4, <3>1
    <3>2. CASE t # frame
      <4>1. t \in DOMAIN temporal_bool_vars
        BY <2>4, <3>2
      <4>2. t \in 0..steps /\ Allocated(t, 1) /\ temporal_bool_vars[t] = ActivationOf(t)
        BY <4>1 DEF EntriesInv
      <4> QED
        BY <1>1, <1>3, <2>1, <2>4, <3>2, <4>1, <4>2
    <3> QED
      BY <3>1, <3>2
  <2>6. \A t \in 0..frame' : Allocated(t, 1)' => t \in DOMAIN temporal_bool_vars'
    BY <1>1, <1>3, <1>4, <1>6, <2>1, <2>4 DEF EntriesInv
  <2>7. \A t \in Nat, s \in DOMAIN FrameSlots :
          FrameSlots[s] # <<>> => (Allocated(t, s)' <=> Allocated(t, s))
    BY <1>1, <1>7
  <2>8. \A k \in DOMAIN state_to_cnf_vars' :
          \E t \in 0..steps', s \in DOMAIN FrameSlots' :
            /\ Allocated(t, s)' /\ FrameSlots'[s] # <<>>
            /\ k = <<t>> \o FrameSlots'[s]
    <3> SUFFICES ASSUME NEW k \in DOMAIN state_to_cnf_vars
                 PROVE  \E t \in 0..steps, s \in DOMAIN FrameSlots :
                          /\ Allocated(t, s)' /\ FrameSlots[s] # <<>>
                          /\ k = <<t>> \o FrameSlots[s]
      BY <1>1, <2>2
    <3>1. PICK t \in 0..steps, s \in DOMAIN FrameSlots :
            Allocated(t, s) /\ FrameSlots[s] # <<>> /\ k = <<t>> \o FrameSlots[s]
      BY DEF EntriesInv
    <3>2. t \in Nat
      BY <1>3, <3>1
    <3> QED
      BY <2>7, <3>1, <3>2
  <2>9. \A t \in 0..frame', s \in DOMAIN FrameSlots' :
          Allocated(t, s)' /\ FrameSlots'[s] # <<>> =>
            <<t>> \o FrameSlots'[s] \in DOMAIN state_to_cnf_vars'
    <3> SUFFICES ASSUME NEW t \in 0..frame', NEW s \in DOMAIN FrameSlots,
                        Allocated(t, s)', FrameSlots[s] # <<>>
                 PROVE  <<t>> \o FrameSlots[s] \in DOMAIN state_to_cnf_vars
      BY <1>1, <2>2
    <3>1. t \in Nat /\ Allocated(t, s) /\ t \in 0..frame
      BY <1>1, <1>6, <2>7
    <3> QED
      BY <3>1 DEF EntriesInv
  <2> QED
    BY <2>5, <2>6, <2>8, <2>9 DEF EntriesInv
<1>8. CASE FrameSlots[slot] # <<>>
  <2> DEFINE key == <<frame>> \o FrameSlots[slot]
  <2>1. incremental => slot # 1
    BY <1>1, <1>3, <1>8
  <2>2. /\ state_to_cnf_vars' = Put(state_to_cnf_vars, key, idx')
        /\ temporal_bool_vars' = temporal_bool_vars
    BY <1>8 DEF AllocateVariable
  <2>3. DOMAIN state_to_cnf_vars' = DOMAIN state_to_cnf_vars \cup {key}
    BY <2>2 DEF Put
  <2>4. incremental => \A t \in Nat : Allocated(t, 1)' <=> Allocated(t, 1)
    BY <1>1, <1>3, <2>1
  <2>5. \A t \in DOMAIN temporal_bool_vars' :
          /\ incremental' /\ t \in 0..steps' /\ Allocated(t, 1)'
          /\ temporal_bool_vars'[t] = ActivationOf(t)'
    <3> SUFFICES ASSUME NEW t \in DOMAIN temporal_bool_vars
                 PROVE  /\ incremental /\ t \in 0..steps /\ Allocated(t, 1)'
                        /\ temporal_bool_vars[t] = ActivationOf(t)
      BY <1>1, <1>5, <2>2
    <3>1. /\ incremental /\ t \in 0..steps /\ Allocated(t, 1)
          /\ temporal_bool_vars[t] = ActivationOf(t)
      BY DEF EntriesInv
    <3>2. t \in Nat
      BY <1>3, <3>1
    <3> QED
      BY <2>4, <3>1, <3>2
  <2>6. ASSUME incremental
        PROVE  \A t \in 0..frame' : Allocated(t, 1)' => t \in DOMAIN temporal_bool_vars'
    <3> SUFFICES ASSUME NEW t \in 0..frame', Allocated(t, 1)'
                 PROVE  t \in DOMAIN temporal_bool_vars
      BY <2>2
    <3>1. t \in Nat /\ 1 \in DOMAIN FrameSlots
      BY <1>1, <1>3, <2>6
    <3>2. Allocated(t, 1) /\ t \in 0..frame
      BY <1>6, <2>4, <2>6, <3>1
    <3> QED
      BY <2>6, <3>2 DEF EntriesInv
  <2>7. \A k \in DOMAIN state_to_cnf_vars' :
          \E t \in 0..steps', s \in DOMAIN FrameSlots' :
            /\ Allocated(t, s)' /\ FrameSlots'[s] # <<>>
            /\ k = <<t>> \o FrameSlots'[s]
    <3> SUFFICES ASSUME NEW k \in DOMAIN state_to_cnf_vars \cup {key}
                 PROVE  \E t \in 0..steps, s \in DOMAIN FrameSlots :
                          /\ Allocated(t, s)' /\ FrameSlots[s] # <<>>
                          /\ k = <<t>> \o FrameSlots[s]
      BY SMTT(30), <1>1, <2>3
    <3>1. CASE k = key
      <4>1. PICK f \in 0..steps, z \in DOMAIN FrameSlots : f = frame /\ z = slot
        BY <1>1
      <4>2. f \in Nat /\ Allocated(f, z)'
        BY <1>1, <1>4, <4>1
      <4> QED
        BY <1>8, <3>1, <4>1, <4>2
    <3>2. CASE k \in DOMAIN state_to_cnf_vars
      <4>1. PICK t \in 0..steps, s \in DOMAIN FrameSlots :
              Allocated(t, s) /\ FrameSlots[s] # <<>> /\ k = <<t>> \o FrameSlots[s]
        BY <3>2 DEF EntriesInv
      <4>2. t \in Nat
        BY <1>3, <4>1
      <4>3. Allocated(t, s)'
        BY <1>1, <4>1, <4>2
      <4> QED
        BY <4>1, <4>3
    <3> QED
      BY <3>1, <3>2
  <2>8. \A t \in 0..frame', s \in DOMAIN FrameSlots' :
          Allocated(t, s)' /\ FrameSlots'[s] # <<>> =>
            <<t>> \o FrameSlots'[s] \in DOMAIN state_to_cnf_vars'
    <3> SUFFICES ASSUME NEW t \in 0..frame', NEW s \in DOMAIN FrameSlots,
                        Allocated(t, s)', FrameSlots[s] # <<>>
                 PROVE  <<t>> \o FrameSlots[s] \in DOMAIN state_to_cnf_vars \cup {key}
      BY <1>1, <2>3
    <3>1. t \in Nat
      BY <1>1
    <3>2. CASE t = frame /\ s = slot
      BY <3>2
    <3>3. CASE Allocated(t, s)
      <4>1. t \in 0..frame
        BY <1>6, <3>3
      <4> QED
        BY <3>3, <4>1 DEF EntriesInv
    <3> QED
      BY <1>1, <3>1, <3>2, <3>3
  <2> QED
    BY <1>1, <2>5, <2>6, <2>7, <2>8 DEF EntriesInv
<1> QED
  BY <1>7, <1>8

\* With distinct declarations the new entry is not one the loop has made
\* before, so the new index is the only one to account for.
LEMMA AllocationExact ==
  ASSUME AtomsInv, PositionInv, EntriesInv, NumberingInv, ExactInv,
         AllocateVariable
  PROVE  ExactInv'
<1> SUFFICES ASSUME Distinct(input) PROVE ExactInv'
  <2>1. input' = input
    BY DEF AllocateVariable, args
  <2> QED
    BY <2>1 DEF ExactInv, Distinct
<1>1. /\ slot \in DOMAIN FrameSlots /\ frame \in 0..steps /\ frame \in Nat
      /\ slot \in Nat /\ slot >= 1 /\ idx \in Nat /\ idx' = idx + 1
  BY AllocationPasses DEF PositionInv, AllocateVariable, NextIndex
<1>2. pc # "create_state_atoms"
  BY DEF AllocateVariable
<1>3. /\ incremental \in BOOLEAN /\ steps \in Int
      /\ \A s \in DOMAIN FrameSlots : FrameSlots[s] = <<>> <=> incremental /\ s = 1
      /\ \A s \in DOMAIN FrameSlots : FrameSlots[s] # <<>> =>
              FrameSlots[s] = <<FrameSlots[s][1], FrameSlots[s][2]>>
      /\ Once(FrameSlots)
  BY <1>2, StateSlots
<1> DEFINE T == DOMAIN temporal_bool_vars
<1> DEFINE K == DOMAIN state_to_cnf_vars
<1>4. /\ \A v \in 1..idx : \/ \E t \in T : temporal_bool_vars[t] = v
                           \/ \E k \in K : state_to_cnf_vars[k] = v
      /\ IsFiniteSet(T) /\ IsFiniteSet(K)
      /\ idx = Cardinality(T) + Cardinality(K)
  BY DEF ExactInv
<1>5. Cardinality(T) \in Nat /\ Cardinality(K) \in Nat
  BY <1>4, FS_CardinalityType
<1>6. \A v \in 1..idx' : v \in 1..idx \/ v = idx'
  BY <1>1
<1>7. CASE FrameSlots[slot] = <<>>
  <2>1. incremental /\ slot = 1
    BY <1>1, <1>3, <1>7
  <2>2. /\ temporal_bool_vars' = Put(temporal_bool_vars, frame, idx')
        /\ state_to_cnf_vars' = state_to_cnf_vars
    BY <1>7 DEF AllocateVariable
  <2>3. frame \notin T
    <3>1. ~Allocated(frame, 1)
      BY <1>1, <2>1 DEF Allocated
    <3> QED
      BY <3>1 DEF EntriesInv
  <2>4. /\ DOMAIN temporal_bool_vars' = T \cup {frame}
        /\ temporal_bool_vars'[frame] = idx'
        /\ \A t \in T : temporal_bool_vars'[t] = temporal_bool_vars[t]
    BY <2>2, <2>3 DEF Put
  <2>5. /\ IsFiniteSet(T \cup {frame})
        /\ Cardinality(T \cup {frame}) = Cardinality(T) + 1
    BY <1>4, <2>3, FS_AddElement
  <2>6. \A v \in 1..idx' :
          \/ \E t \in DOMAIN temporal_bool_vars' : temporal_bool_vars'[t] = v
          \/ \E k \in K : state_to_cnf_vars[k] = v
    BY <1>4, <1>6, <2>4
  <2> QED
    BY <1>1, <1>4, <1>5, <2>2, <2>4, <2>5, <2>6 DEF ExactInv
<1>8. CASE FrameSlots[slot] # <<>>
  <2> DEFINE key == <<frame>> \o FrameSlots[slot]
  <2>2. /\ state_to_cnf_vars' = Put(state_to_cnf_vars, key, idx')
        /\ temporal_bool_vars' = temporal_bool_vars
    BY <1>8 DEF AllocateVariable
  <2>3. key \notin K
    <3> SUFFICES ASSUME key \in K PROVE FALSE
      OBVIOUS
    <3>1. PICK t \in 0..steps, s \in DOMAIN FrameSlots :
            Allocated(t, s) /\ FrameSlots[s] # <<>> /\ key = <<t>> \o FrameSlots[s]
      BY DEF EntriesInv
    <3> DEFINE x == FrameSlots[slot]
    <3> DEFINE y == FrameSlots[s]
    <3>2. t = frame /\ y = x
      <4>1. x = <<x[1], x[2]>> /\ y = <<y[1], y[2]>> /\ <<frame>> \o x = <<t>> \o y
        BY <1>1, <1>3, <1>8, <3>1
      <4> HIDE DEF x, y
      <4> QED
        BY <4>1, KeyInjective
    <3>3. s = slot
      BY <1>1, <1>3, <3>2 DEF Once
    <3> QED
      BY <1>1, <3>1, <3>2, <3>3 DEF Allocated
  <2> HIDE DEF key
  <2>4. /\ DOMAIN state_to_cnf_vars' = K \cup {key}
        /\ state_to_cnf_vars'[key] = idx'
        /\ \A k \in K : state_to_cnf_vars'[k] = state_to_cnf_vars[k]
    BY <2>2, <2>3 DEF Put
  <2>5. /\ IsFiniteSet(K \cup {key})
        /\ Cardinality(K \cup {key}) = Cardinality(K) + 1
    BY <1>4, <2>3, FS_AddElement
  <2>6. \A v \in 1..idx' :
          \/ \E t \in T : temporal_bool_vars[t] = v
          \/ \E k \in DOMAIN state_to_cnf_vars' : state_to_cnf_vars'[k] = v
    BY <1>4, <1>6, <2>4
  <2> QED
    BY <1>1, <1>4, <1>5, <2>2, <2>4, <2>5, <2>6 DEF ExactInv
<1> QED
  BY <1>7, <1>8

-----------------------------------------------------------------------------
(* The numbering in every state. *)

\* The inductive invariant of the numbering.
NumberedInv ==
  AtomsInv /\ PositionInv /\ NumberingInv /\ EntriesInv /\ ExactInv

\* Every step of the program is a method of the encoder, the writing of the
\* files, or leaves the encoder alone.
LEMMA StepCases ==
  ASSUME [Next]_vars
  PROVE  \/ CreateStateAtoms \/ BuildConstraints \/ AllocateVariable
         \/ AllocationEnds \/ BuildInitialStateCnf \/ BuildTransitionCnf
         \/ BuildSafetyViolationCnf \/ SaveToFile \/ UNCHANGED converterVars
<1>1. CASE Main
  BY <1>1 DEF Main, Spec2Cnf, ConverterNext, CallSolve
<1>2. CASE OtherProcess
  BY <1>2 DEF OtherProcess
<1>3. CASE UNCHANGED vars
  BY <1>3 DEF vars
<1> QED
  BY <1>1, <1>2, <1>3 DEF Next

\* What the methods after create_state_atoms leave alone.
LEMMA LaterSteps ==
  ASSUME [Next]_vars, ~CreateStateAtoms
  PROVE  /\ UNCHANGED <<input, steps, incremental, state_atoms, symbol_atom_map>>
         /\ pc' = "create_state_atoms" => pc = "create_state_atoms"
         /\ pc = "create_state_atoms" => UNCHANGED converterVars
         /\ FrameSlots' = FrameSlots
<1>1. UNCHANGED <<input, steps, incremental, state_atoms, symbol_atom_map>>
  <2>1. CASE BuildConstraints
    BY <2>1 DEF BuildConstraints, args, atoms
  <2>2. CASE AllocateVariable
    BY <2>2 DEF AllocateVariable, args, atoms
  <2>3. CASE AllocationEnds
    BY <2>3 DEF AllocationEnds, args, atoms
  <2>4. CASE BuildInitialStateCnf
    BY <2>4 DEF BuildInitialStateCnf, args, atoms
  <2>5. CASE BuildTransitionCnf
    BY <2>5 DEF BuildTransitionCnf, args, atoms
  <2>6. CASE BuildSafetyViolationCnf
    BY <2>6 DEF BuildSafetyViolationCnf, args, atoms
  <2>7. CASE SaveToFile
    BY <2>7 DEF SaveToFile
  <2>8. CASE UNCHANGED converterVars
    BY <2>8 DEF converterVars
  <2> QED
    BY <2>1, <2>2, <2>3, <2>4, <2>5, <2>6, <2>7, <2>8, StepCases
<1>2. /\ pc' = "create_state_atoms" => pc = "create_state_atoms"
      /\ pc = "create_state_atoms" => UNCHANGED converterVars
  BY StepCases DEF BuildConstraints, AllocateVariable, AllocationEnds,
     BuildInitialStateCnf, BuildTransitionCnf, BuildSafetyViolationCnf,
     SaveToFile, Raise, converterVars
<1>3. FrameSlots' = FrameSlots
  BY <1>1 DEF FrameSlots
<1> QED
  BY <1>1, <1>2, <1>3

\* The numbering changes in its loop only.
LEMMA NumberingSteps ==
  ASSUME [Next]_vars, ~AllocateVariable
  PROVE  UNCHANGED numbering
<1>1. CASE SaveToFile
  BY <1>1 DEF SaveToFile
<1>2. CASE UNCHANGED converterVars
  BY <1>2 DEF converterVars, numbering
<1> QED
  BY <1>1, <1>2, StepCases DEF CreateStateAtoms, BuildConstraints,
     AllocationEnds, BuildInitialStateCnf, BuildTransitionCnf,
     BuildSafetyViolationCnf

\* A method other than the loop ends where the loop's position allows it.
LEMMA ControlSteps ==
  ASSUME [Next]_vars, ~AllocateVariable, ~CreateStateAtoms
  PROVE  /\ Preparing' => Preparing
         /\ NumberingDone' =>
              NumberingDone \/ frame > steps \/ FrameSlots = <<>>
<1> USE DEF Preparing, NumberingDone
<1>1. CASE BuildConstraints
  BY <1>1 DEF BuildConstraints, Raise
<1>2. CASE AllocationEnds
  BY <1>2 DEF AllocationEnds
<1>3. CASE BuildInitialStateCnf
  BY <1>3 DEF BuildInitialStateCnf, Raise
<1>4. CASE BuildTransitionCnf
  BY <1>4 DEF BuildTransitionCnf, Raise
<1>5. CASE BuildSafetyViolationCnf
  BY <1>5 DEF BuildSafetyViolationCnf, Raise
<1>6. CASE SaveToFile
  BY <1>6 DEF SaveToFile
<1>7. CASE UNCHANGED converterVars
  BY <1>7 DEF converterVars
<1> QED
  BY <1>1, <1>2, <1>3, <1>4, <1>5, <1>6, <1>7, StepCases

\* The atoms are made once and never changed.
LEMMA AtomsKept ==
  ASSUME AtomsInv, [Next]_vars
  PROVE  AtomsInv'
<1>1. CASE CreateStateAtoms
  BY <1>1 DEF CreateStateAtoms, AtomsInv, args
<1>2. CASE ~CreateStateAtoms
  <2>1. CASE pc = "create_state_atoms"
    BY <1>2, <2>1, LaterSteps DEF AtomsInv, converterVars
  <2>2. CASE pc # "create_state_atoms"
    <3>1. UNCHANGED <<input, steps, incremental, state_atoms, symbol_atom_map>>
      BY <1>2, LaterSteps
    <3> QED
      BY <2>2, <3>1 DEF AtomsInv
  <2> QED
    BY <2>1, <2>2
<1> QED
  BY <1>1, <1>2

\* Every step of the program preserves the numbering's invariant.
LEMMA NumberedKept ==
  ASSUME NumberedInv, [Next]_vars
  PROVE  NumberedInv'
<1>0. AtomsInv'
  BY AtomsKept DEF NumberedInv
<1>1. CASE AllocateVariable
  BY <1>0, <1>1, AllocationFresh, AllocationPasses, AllocationEntries,
     AllocationExact DEF NumberedInv
<1>2. CASE CreateStateAtoms
  <2>1. /\ pc = "create_state_atoms" /\ pc' = "build_constraints"
        /\ UNCHANGED <<args, numbering>>
    BY <1>2 DEF CreateStateAtoms
  <2>2. Preparing /\ Preparing' /\ ~NumberingDone'
    BY <2>1 DEF Preparing, NumberingDone
  <2>3. /\ idx = 0 /\ frame = 0 /\ slot = 1
        /\ temporal_bool_vars = <<>> /\ state_to_cnf_vars = <<>>
    BY <2>2 DEF NumberedInv, PositionInv
  <2>4. /\ idx' = 0 /\ frame' = 0 /\ slot' = 1
        /\ temporal_bool_vars' = <<>> /\ state_to_cnf_vars' = <<>>
        /\ input' = input
    BY <2>1, <2>3 DEF numbering, args
  <2>5. PositionInv'
    BY <2>2, <2>4 DEF PositionInv
  <2>6. NumberingInv'
    BY <2>4 DEF NumberingInv, NoVariableShared
  <2>7. EntriesInv'
    BY <2>4 DEF EntriesInv, Allocated
  <2>8. ExactInv'
    BY <2>3, <2>4 DEF NumberedInv, ExactInv
  <2> QED
    BY <1>0, <2>5, <2>6, <2>7, <2>8 DEF NumberedInv
<1>3. CASE ~AllocateVariable /\ ~CreateStateAtoms
  <2>1. /\ idx' = idx /\ frame' = frame /\ slot' = slot
        /\ temporal_bool_vars' = temporal_bool_vars
        /\ state_to_cnf_vars' = state_to_cnf_vars
    BY <1>3, NumberingSteps DEF numbering
  <2>2. /\ input' = input /\ steps' = steps /\ incremental' = incremental
        /\ FrameSlots' = FrameSlots
    BY <1>3, LaterSteps
  <2>3. /\ Preparing' => Preparing
        /\ NumberingDone' =>
             NumberingDone \/ frame > steps \/ FrameSlots = <<>>
    BY <1>3, ControlSteps
  <2>4. PositionInv'
    <3>1. ~Preparing /\ ~Preparing' => idx = frame * Len(FrameSlots) + (slot - 1)
      BY DEF NumberedInv, PositionInv
    <3>2. Preparing => idx = frame * Len(FrameSlots) + (slot - 1) \/ Preparing'
      <4> SUFFICES ASSUME Preparing, ~Preparing' 
                   PROVE  idx = frame * Len(FrameSlots) + (slot - 1)
        OBVIOUS
      <4>1. idx = 0 /\ frame = 0 /\ slot = 1
        BY DEF NumberedInv, PositionInv
      <4>2. pc # "create_state_atoms"
        <5> SUFFICES ASSUME pc = "create_state_atoms" PROVE FALSE
          OBVIOUS
        <5>1. pc' = pc
          BY <1>3, LaterSteps DEF converterVars
        <5> QED
          BY <5>1 DEF Preparing
      <4>3. Len(FrameSlots) \in Nat
        BY <4>2, StateSlots DEF NumberedInv
      <4> QED
        BY <4>1, <4>3
    <3> QED
      BY <2>1, <2>2, <2>3, <3>1, <3>2 DEF NumberedInv, PositionInv
  <2>5. NumberingInv'
    BY <2>1, NumberingUnchanged DEF NumberedInv
  <2>6. EntriesInv'
    BY ZenonT(30), <2>1, <2>2 DEF NumberedInv, EntriesInv, Allocated, ActivationOf
  <2>7. ExactInv'
    BY <2>1, <2>2 DEF NumberedInv, ExactInv
  <2> QED
    BY <1>0, <2>4, <2>5, <2>6, <2>7 DEF NumberedInv
<1> QED
  BY <1>1, <1>2, <1>3

\* Nothing is numbered at the start.
LEMMA NumberedInit == MainInit => NumberedInv
<1> SUFFICES ASSUME MainInit PROVE NumberedInv
  OBVIOUS
<1>1. /\ pc = "create_state_atoms" /\ idx = 0 /\ frame = 0 /\ slot = 1
      /\ temporal_bool_vars = <<>> /\ state_to_cnf_vars = <<>>
      /\ input \in Inputs /\ steps \in StepChoices /\ incremental \in Incremental
  BY DEF MainInit, Init
<1>2. AtomsInv
  BY <1>1 DEF AtomsInv
<1>3. PositionInv
  BY <1>1 DEF PositionInv, Preparing, NumberingDone
<1>4. NumberingInv
  BY <1>1 DEF NumberingInv, NoVariableShared
<1>5. EntriesInv
  BY <1>1 DEF EntriesInv, Allocated
<1>6. ExactInv
  <2>1. IsFiniteSet({}) /\ Cardinality({}) = 0
    BY FS_EmptySet
  <2>2. DOMAIN temporal_bool_vars = {} /\ DOMAIN state_to_cnf_vars = {}
    BY <1>1
  <2> QED
    BY <1>1, <2>1, <2>2 DEF ExactInv
<1> QED
  BY <1>2, <1>3, <1>4, <1>5, <1>6 DEF NumberedInv

\* In every state the encoder is where its invariant says.
THEOREM NumberedInvariant == Spec => []NumberedInv
<1>1. MainInit => NumberedInv
  BY NumberedInit
<1>2. NumberedInv /\ [Next]_vars => NumberedInv'
  BY NumberedKept
<1> QED
  BY <1>1, <1>2, PTL DEF Spec

-----------------------------------------------------------------------------
(* What the numbering promises. *)

\* No two entries share a variable.
LEMMA FramesDisjoint ==
  ASSUME NumberedInv, NEW t, NEW u, t # u
  PROVE  FrameVars(t) \cap FrameVars(u) = {}
  BY DEF NumberedInv, NumberingInv, NoVariableShared, FrameVars

\* Every variable belongs to a step, and the index counts the entries.
LEMMA ExactNumbering == NumberedInv => NumberingExact
<1> SUFFICES ASSUME NumberedInv, NumberingDone, Distinct(input)
             PROVE  /\ UNION {FrameVars(t) : t \in 0..steps} = 1..idx
                    /\ \A t, u \in 0..steps : t # u => FrameVars(t) \cap FrameVars(u) = {}
                    /\ idx = Cardinality(DOMAIN temporal_bool_vars)
                               + Cardinality(DOMAIN state_to_cnf_vars)
  BY DEF NumberingExact
<1>0. pc # "create_state_atoms" /\ AtomsInv
  BY DEF NumberedInv, NumberingDone
<1>1. \A s \in DOMAIN FrameSlots : FrameSlots[s] # <<>> =>
              FrameSlots[s] = <<FrameSlots[s][1], FrameSlots[s][2]>>
  BY <1>0, StateSlots
<1>2. \A k \in DOMAIN state_to_cnf_vars : k[1] \in 0..steps
  <2> SUFFICES ASSUME NEW k \in DOMAIN state_to_cnf_vars PROVE k[1] \in 0..steps
    OBVIOUS
  <2>1. PICK t \in 0..steps, s \in DOMAIN FrameSlots :
          FrameSlots[s] # <<>> /\ k = <<t>> \o FrameSlots[s]
    BY DEF NumberedInv, EntriesInv
  <2> DEFINE x == FrameSlots[s]
  <2>2. x = <<x[1], x[2]>> /\ k = <<t>> \o x
    BY <1>1, <2>1
  <2> HIDE DEF x
  <2>3. k[1] = t
    BY <2>2, KeyFacts
  <2> QED
    BY <2>3
<1>3. \A t \in DOMAIN temporal_bool_vars :
        t \in 0..steps /\ temporal_bool_vars[t] \in 1..idx
  BY DEF NumberedInv, EntriesInv, NumberingInv, NoVariableShared
<1>4. \A k \in DOMAIN state_to_cnf_vars : state_to_cnf_vars[k] \in 1..idx
  BY DEF NumberedInv, NumberingInv, NoVariableShared
<1>5. \A v \in 1..idx :
         \/ \E t \in DOMAIN temporal_bool_vars : temporal_bool_vars[t] = v
         \/ \E k \in DOMAIN state_to_cnf_vars : state_to_cnf_vars[k] = v
  BY DEF NumberedInv, ExactInv
<1>6. ASSUME NEW v \in 1..idx PROVE \E t \in 0..steps : v \in FrameVars(t)
  <2>1. CASE \E t \in DOMAIN temporal_bool_vars : temporal_bool_vars[t] = v
    BY <1>3, <2>1 DEF FrameVars
  <2>2. CASE \E k \in DOMAIN state_to_cnf_vars : state_to_cnf_vars[k] = v
    BY <1>2, <2>2 DEF FrameVars
  <2> QED
    BY <1>5, <2>1, <2>2
<1>7. ASSUME NEW t \in 0..steps, NEW v \in FrameVars(t) PROVE v \in 1..idx
  BY <1>3, <1>4 DEF FrameVars
<1>8. UNION {FrameVars(t) : t \in 0..steps} = 1..idx
  BY <1>6, <1>7
<1> QED
  BY <1>8, FramesDisjoint DEF NumberedInv, ExactInv

\* A step has the activation variable every number of steps would give it.
LEMMA SameActivations == NumberedInv => ActivationsAgree
  BY DEF NumberedInv, EntriesInv, ActivationsAgree

\* There is room for every variable.
LEMMA IndexBound ==
  ASSUME NumberedInv
  PROVE  idx \in 0..MaxVar
<1>1. CASE Preparing
  BY <1>1, IpasirAssumption DEF NumberedInv, PositionInv
<1>2. CASE ~Preparing
  <2> DEFINE L == Len(FrameSlots)
  <2>1. pc # "create_state_atoms" /\ AtomsInv
    BY <1>2 DEF Preparing, NumberedInv
  <2>2. L \in Nat /\ steps \in Int
    BY <2>1, StateSlots
  <2>3. L = Len(SlotsOf(AtomsOf(input, incremental), incremental))
    BY <2>1 DEF AtomsInv, FrameSlots
  <2>4. (steps + 1) * L <= MaxVar
    BY <2>1, <2>3, RoomAssumption DEF AtomsInv
  <2>5. /\ idx \in Nat /\ frame \in Nat /\ slot \in Nat /\ slot >= 1
        /\ idx = frame * L + (slot - 1)
        /\ slot > 1 => slot <= L /\ frame <= steps
        /\ frame > 0 => frame <= steps + 1
    BY <1>2 DEF NumberedInv, PositionInv
  <2> HIDE DEF L
  <2>6. CASE slot > 1
    <3>1. idx <= frame * L + L /\ frame * L \in Nat
      BY <2>2, <2>5, <2>6
    <3>2. PICK d \in Nat : steps + 1 = (frame + 1) + d
      <4>1. steps - frame \in Nat /\ steps + 1 = (frame + 1) + (steps - frame)
        BY <2>2, <2>5, <2>6
      <4> QED
        BY <4>1
    <3>3. (steps + 1) * L = (frame * L + L) + d * L /\ d * L \in Nat
      BY <2>2, <2>5, <3>2
    <3>4. idx \in Nat /\ L \in Nat /\ MaxVar \in Nat
      BY <2>2, <2>5, IpasirAssumption
    <3>5. (frame * L + L) + d * L <= MaxVar
      BY <2>4, <3>3
    <3> QED
      BY <3>1, <3>3, <3>4, <3>5
  <2>7. CASE slot = 1 /\ frame > 0
    <3>1. idx = frame * L /\ frame * L \in Nat
      BY <2>2, <2>5, <2>7
    <3>2. PICK d \in Nat : steps + 1 = frame + d
      <4>1. steps + 1 - frame \in Nat /\ steps + 1 = frame + (steps + 1 - frame)
        BY <2>2, <2>5, <2>7
      <4> QED
        BY <4>1
    <3>3. (steps + 1) * L = frame * L + d * L /\ d * L \in Nat
      BY <2>2, <2>5, <3>2
    <3> QED
      BY <2>4, <2>5, <3>1, <3>3, IpasirAssumption
  <2>8. CASE slot = 1 /\ frame = 0
    BY <2>2, <2>5, <2>8, IpasirAssumption
  <2> QED
    BY <2>5, <2>6, <2>7, <2>8
<1> QED
  BY <1>1, <1>2

\* No two (step, atom, value) triples and no activation literal ever share a
\* DIMACS variable, for every input model, also one that declares a symbol
\* twice or uses the reserved name of the temporal atom.
THEOREM NumberingCorrect == Spec => []NoVariableShared
<1>1. NumberedInv => NoVariableShared
  BY DEF NumberedInv, NumberingInv
<1> QED
  BY <1>1, NumberedInvariant, PTL

-----------------------------------------------------------------------------
(* Joined formulas. *)

\* Being an element of a sequence, and being in its range.
LEMMA InRange ==
  ASSUME NEW s
  PROVE  \A x : In(x, s) <=> x \in Rng(s)
  BY DEF In, Rng

\* A formula over a set of literals.
LEMMA FormulaType ==
  ASSUME NEW f, IsFormula(f), NEW X, UNION Rng(f) \subseteq X
  PROVE  f \in Seq(SUBSET X) /\ f # <<>> /\ Len(f) \in Nat /\ Len(f) >= 1
<1>1. f \in Seq(Rng(f)) /\ f # <<>>
  BY DEF IsFormula, IsSequence
<1>2. Rng(f) \subseteq SUBSET X
  OBVIOUS
<1>3. f \in Seq(SUBSET X)
  BY <1>1, <1>2, SeqMonotonic
<1> QED
  BY <1>1, <1>3

\* Joining two texts keeps every literal, glues the conjunctions in the
\* middle together and keeps the others.
LEMMA JoinTwoFacts ==
  ASSUME NEW f, NEW g, IsFormula(f), IsFormula(g)
  PROVE  /\ IsFormula(JoinTwo(f, g))
         /\ UNION Rng(JoinTwo(f, g)) = (UNION Rng(f)) \cup (UNION Rng(g))
         /\ Len(f) = 1 /\ Len(g) = 1 => JoinTwo(f, g) = <<f[1] \cup g[1]>>
<1> DEFINE X == (UNION Rng(f)) \cup (UNION Rng(g))
<1>1. /\ f \in Seq(SUBSET X) /\ f # <<>> /\ Len(f) \in Nat /\ Len(f) >= 1
      /\ g \in Seq(SUBSET X) /\ g # <<>> /\ Len(g) \in Nat /\ Len(g) >= 1
  BY FormulaType
<1> DEFINE a == SubSeq(f, 1, Len(f) - 1)
<1> DEFINE u == f[Len(f)] \cup g[1]
<1> DEFINE b == <<u>>
<1> DEFINE c == Tail(g)
<1> DEFINE j == JoinTwo(f, g)
<1>2. j = (a \o b) \o c
  BY DEF JoinTwo
<1>3. u \in SUBSET X
  <2> HIDE DEF X
  <2> QED
    BY <1>1
<1> HIDE DEF X, u
<1>4. a \in Seq(SUBSET X) /\ Len(a) = Len(f) - 1 /\ DOMAIN a = 1..(Len(f) - 1)
      /\ \A k \in 1..(Len(f) - 1) : a[k] = f[k]
  <2>1. /\ a \in Seq(SUBSET X) /\ Len(a) = Len(f) - 1
        /\ \A k \in 1..(Len(f) - 1) : a[k] = f[k]
    BY <1>1, FrontFacts
  <2> HIDE DEF a
  <2> QED
    BY <2>1
<1>5. c \in Seq(SUBSET X) /\ Len(c) = Len(g) - 1 /\ DOMAIN c = 1..(Len(g) - 1)
      /\ \A k \in 1..(Len(g) - 1) : c[k] = g[k + 1]
  BY <1>1
<1>6. b \in Seq(SUBSET X) /\ \A x : In(x, b) <=> x = u
  BY <1>3 DEF In
<1> HIDE DEF a, b, c, j
<1>7. /\ a \o b \in Seq(SUBSET X)
      /\ \A x : In(x, a \o b) <=> In(x, a) \/ In(x, b)
  BY <1>4, <1>6, ConcatFacts
<1>8. /\ j \in Seq(SUBSET X)
      /\ \A x : In(x, j) <=> In(x, a \o b) \/ In(x, c)
  <2> DEFINE d == a \o b
  <2>1. d \in Seq(SUBSET X) /\ c \in Seq(SUBSET X) /\ j = d \o c
    BY <1>2, <1>5, <1>7
  <2> HIDE DEF d
  <2>2. /\ d \o c \in Seq(SUBSET X)
        /\ \A x : In(x, d \o c) <=> In(x, d) \/ In(x, c)
    BY <2>1, ConcatFacts
  <2> QED
    BY <2>1, <2>2 DEF d
<1>9. \A x : In(x, j) <=> \/ \E k \in 1..(Len(f) - 1) : x = f[k]
                          \/ x = u
                          \/ \E k \in 2..Len(g) : x = g[k]
  <2>1. \A x : In(x, a) <=> \E k \in 1..(Len(f) - 1) : x = f[k]
    BY <1>4 DEF In
  <2>2. \A x : In(x, c) <=> \E k \in 2..Len(g) : x = g[k]
    <3> SUFFICES ASSUME NEW x
                 PROVE  In(x, c) <=> \E k \in 2..Len(g) : x = g[k]
      OBVIOUS
    <3>1. ASSUME In(x, c) PROVE \E k \in 2..Len(g) : x = g[k]
      <4>1. PICK k \in 1..(Len(g) - 1) : c[k] = x
        BY <1>5, <3>1 DEF In
      <4>2. k + 1 \in 2..Len(g) /\ x = g[k + 1]
        BY <1>1, <1>5, <4>1
      <4> QED
        BY <4>2
    <3>2. ASSUME NEW k \in 2..Len(g), x = g[k] PROVE In(x, c)
      <4>1. k - 1 \in DOMAIN c /\ c[k - 1] = x
        BY <1>1, <1>5, <3>2
      <4> QED
        BY <4>1 DEF In
    <3> QED
      BY <3>1, <3>2
  <2> QED
    BY <1>6, <1>7, <1>8, <2>1, <2>2
<1>10. /\ DOMAIN f = 1..Len(f) /\ DOMAIN g = 1..Len(g)
       /\ Len(f) \in DOMAIN f /\ 1 \in DOMAIN g
       /\ \A k \in DOMAIN f : k = Len(f) \/ k \in 1..(Len(f) - 1)
       /\ \A k \in DOMAIN g : k = 1 \/ k \in 2..Len(g)
  BY <1>1
<1>11. \A x : In(x, j) => x = u \/ x \in Rng(f) \/ x \in Rng(g)
  BY <1>9, <1>10 DEF Rng
<1>12. UNION Rng(j) = (UNION Rng(f)) \cup (UNION Rng(g))
  <2>1. ASSUME NEW l, l \in UNION Rng(j)
        PROVE  l \in (UNION Rng(f)) \cup (UNION Rng(g))
    <3>1. PICK x : l \in x /\ In(x, j)
      BY <2>1, InRange
    <3>2. CASE x = u
      BY <1>10, <3>1, <3>2 DEF u, Rng
    <3> QED
      BY <1>11, <3>1, <3>2
  <2>2. ASSUME NEW l, NEW k \in DOMAIN f, l \in f[k] PROVE l \in UNION Rng(j)
    <3>1. \E x : l \in x /\ In(x, j)
      BY <1>9, <1>10, <2>2 DEF u
    <3> QED
      BY <3>1, InRange
  <2>3. ASSUME NEW l, NEW k \in DOMAIN g, l \in g[k] PROVE l \in UNION Rng(j)
    <3>1. \E x : l \in x /\ In(x, j)
      BY <1>9, <1>10, <2>3 DEF u
    <3> QED
      BY <3>1, InRange
  <2> QED
    BY <2>1, <2>2, <2>3 DEF Rng
<1>13. IsFormula(j)
  <2>1. IsSequence(j)
    BY <1>8, SeqOfItsRange DEF IsSequence
  <2>2. j # <<>>
    <3>1. In(u, j)
      BY <1>9
    <3> QED
      BY <3>1 DEF In
  <2>3. ASSUME NEW k \in DOMAIN j
        PROVE  /\ j[k] # {}
               /\ \A l \in j[k] : /\ l \in [neg : BOOLEAN, name : {l.name}]
                                  /\ l.name \notin {TrueName, FalseName}
    <3>1. In(j[k], j)
      BY DEF In
    <3>2. CASE j[k] = u
      BY <1>10, <3>2 DEF u, IsFormula
    <3>3. CASE j[k] \in Rng(f) \/ j[k] \in Rng(g)
      BY <3>3 DEF IsFormula, Rng
    <3> QED
      BY <1>11, <3>1, <3>2, <3>3
  <2> QED
    BY <2>1, <2>2, <2>3 DEF IsFormula
<1>14. ASSUME Len(f) = 1, Len(g) = 1 PROVE j = <<f[1] \cup g[1]>>
  <2>1. a = <<>> /\ c = <<>>
    BY <1>4, <1>5, <1>14
  <2> QED
    BY <1>2, <1>6, <1>14, <2>1 DEF b, u
<1> QED
  BY <1>12, <1>13, <1>14 DEF j

\* The recursive function behind Joined exists, so it obeys its equation.
LEMMA JoinedUnfolds ==
  ASSUME NEW fs, Len(fs) \in Nat, Len(fs) # 0
  PROVE  \E F : /\ F = [k \in 1..Len(fs) |->
                          IF k = 1 THEN fs[1] ELSE JoinTwo(F[k - 1], fs[k])]
                /\ Joined(fs) = F[Len(fs)]
<1> DEFINE Def(f, n) ==
      f = [k \in 1..n |-> IF k = 1 THEN fs[1] ELSE JoinTwo(f[k - 1], fs[k])]
<1> DEFINE S == {n \in Nat : \E f : Def(f, n)}
<1>1. 0 \in S
  <2>1. Def([k \in 1..0 |-> 0], 0)
    OBVIOUS
  <2> QED
    BY <2>1
<1>2. ASSUME NEW n \in Nat, n \in S PROVE n + 1 \in S
  <2>1. PICK f : Def(f, n)
    BY <1>2
  <2> DEFINE new == IF n + 1 = 1 THEN fs[1] ELSE JoinTwo(f[n], fs[n + 1])
  <2> DEFINE g == [k \in 1..(n + 1) |-> IF k = n + 1 THEN new ELSE f[k]]
  <2>2. \A k \in 1..(n + 1) :
          g[k] = IF k = 1 THEN fs[1] ELSE JoinTwo(g[k - 1], fs[k])
    <3> SUFFICES ASSUME NEW k \in 1..(n + 1)
                 PROVE  g[k] = IF k = 1 THEN fs[1] ELSE JoinTwo(g[k - 1], fs[k])
      OBVIOUS
    <3> HIDE DEF new
    <3>1. CASE k = n + 1
      <4>1. g[k] = new
        BY <3>1
      <4>2. k # 1 => k - 1 \in 1..(n + 1) /\ k - 1 # n + 1 /\ g[k - 1] = f[n]
        BY <3>1
      <4> QED
        BY <3>1, <4>1, <4>2 DEF new
    <3>2. CASE k # n + 1
      <4>1. k \in 1..n /\ g[k] = f[k]
        BY <3>2
      <4>2. k # 1 => k - 1 \in 1..(n + 1) /\ k - 1 # n + 1
                     /\ g[k - 1] = f[k - 1]
        BY <3>2
      <4>3. f[k] = IF k = 1 THEN fs[1] ELSE JoinTwo(f[k - 1], fs[k])
        BY <2>1, <4>1
      <4> QED
        BY <4>1, <4>2, <4>3
    <3> QED
      BY <3>1, <3>2
  <2>3. Def(g, n + 1)
    <3>1. g = [k \in 1..(n + 1) |-> g[k]]
      OBVIOUS
    <3> HIDE DEF g
    <3> QED
      BY <2>2, <3>1
  <2> HIDE DEF g, Def
  <2> QED
    BY <2>3
<1>3. Len(fs) \in S
  <2> HIDE DEF S
  <2> QED
    BY <1>1, <1>2, NatSetInduction
<1> DEFINE join[k \in 1..Len(fs)] ==
      IF k = 1 THEN fs[1] ELSE JoinTwo(join[k - 1], fs[k])
<1>4. Def(join, Len(fs))
  <2>1. join = CHOOSE f : Def(f, Len(fs))
    OBVIOUS
  <2>2. \E f : Def(f, Len(fs))
    BY <1>3
  <2> HIDE DEF join, Def
  <2> QED
    BY <2>1, <2>2
<1>5. Joined(fs) = join[Len(fs)]
  BY DEF Joined
<1> HIDE DEF join
<1> QED
  BY <1>4, <1>5

\* Joining the texts of a part of a rule keeps every literal; the join of
\* texts that are single conjunctions is their conjunction.
LEMMA JoinedFacts ==
  ASSUME NEW fs, AreFormulas(fs), fs # <<>>
  PROVE  /\ IsFormula(Joined(fs))
         /\ \A l : l \in UNION Rng(Joined(fs)) <=>
              \E k \in DOMAIN fs : l \in UNION Rng(fs[k])
         /\ (\A k \in DOMAIN fs : Len(fs[k]) = 1) =>
              \E d : /\ Joined(fs) = <<d>>
                     /\ \A l : l \in d <=> \E k \in DOMAIN fs : l \in fs[k][1]
<1> DEFINE n == Len(fs)
<1>1. n \in Nat /\ n >= 1 /\ DOMAIN fs = 1..n
  <2>1. fs \in Seq(Rng(fs)) /\ fs # <<>>
    BY DEF AreFormulas, IsSequence
  <2> QED
    BY <2>1
<1>2. \A k \in 1..n : IsFormula(fs[k])
  BY <1>1 DEF AreFormulas
<1>3. PICK F : /\ F = [k \in 1..n |->
                         IF k = 1 THEN fs[1] ELSE JoinTwo(F[k - 1], fs[k])]
               /\ Joined(fs) = F[n]
  BY <1>1, JoinedUnfolds, SMTT(40)
<1> HIDE DEF n
<1>4. F[1] = fs[1] /\ \A k \in 1..n : k # 1 => F[k] = JoinTwo(F[k - 1], fs[k])
  BY <1>1, <1>3
<1> DEFINE Single(k) == \A j \in 1..k : Len(fs[j]) = 1
<1> DEFINE Good(k) ==
      /\ IsFormula(F[k])
      /\ \A l : l \in UNION Rng(F[k]) <=> \E j \in 1..k : l \in UNION Rng(fs[j])
      /\ Single(k) =>
           \E d : /\ F[k] = <<d>>
                  /\ \A l : l \in d <=> \E j \in 1..k : l \in fs[j][1]
<1> DEFINE S == {i \in Nat : i + 1 <= n => Good(i + 1)}
<1>5. 0 \in S
  <2>1. IsFormula(F[1])
    BY <1>1, <1>2, <1>4
  <2>2. \A l : l \in UNION Rng(F[1]) <=> \E j \in 1..1 : l \in UNION Rng(fs[j])
    BY <1>4
  <2>3. ASSUME Single(1)
        PROVE  \E d : /\ F[1] = <<d>>
                      /\ \A l : l \in d <=> \E j \in 1..1 : l \in fs[j][1]
    <3>1. fs[1] \in Seq(Rng(fs[1])) /\ Len(fs[1]) = 1
      BY <1>1, <1>2, <2>3 DEF IsFormula, IsSequence
    <3>2. fs[1] = <<fs[1][1]>>
      BY <3>1
    <3> QED
      BY <1>4, <3>2
  <2> HIDE DEF Single
  <2> QED
    BY <2>1, <2>2, <2>3
<1>6. ASSUME NEW i \in Nat, i \in S PROVE i + 1 \in S
  <2> SUFFICES ASSUME i + 2 <= n PROVE Good(i + 2)
    <3>1. (i + 1) + 1 = i + 2 /\ i + 1 \in Nat
      OBVIOUS
    <3> HIDE DEF Good
    <3> QED
      BY <3>1
  <2> DEFINE f == F[i + 1]
  <2> DEFINE g == fs[i + 2]
  <2>1. Good(i + 1)
    BY <1>1, <1>6
  <2>2. F[i + 2] = JoinTwo(f, g) /\ IsFormula(g) /\ IsFormula(f)
    <3>1. i + 2 \in 1..n /\ i + 2 # 1 /\ (i + 2) - 1 = i + 1
      BY <1>1
    <3> QED
      BY <1>2, <1>4, <2>1, <3>1
  <2>3. \A j : j \in 1..(i + 2) <=> j \in 1..(i + 1) \/ j = i + 2
    OBVIOUS
  <2>4. \A l : l \in UNION Rng(f) <=> \E j \in 1..(i + 1) : l \in UNION Rng(fs[j])
    BY <2>1
  <2>5. Single(i + 1) =>
           \E d : /\ f = <<d>>
                  /\ \A l : l \in d <=> \E j \in 1..(i + 1) : l \in fs[j][1]
    BY <2>1
  <2> HIDE DEF f
  <2>6. /\ IsFormula(JoinTwo(f, g))
        /\ UNION Rng(JoinTwo(f, g)) = (UNION Rng(f)) \cup (UNION Rng(g))
        /\ Len(f) = 1 /\ Len(g) = 1 => JoinTwo(f, g) = <<f[1] \cup g[1]>>
    BY <2>2, JoinTwoFacts
  <2>7. \A l : l \in UNION Rng(F[i + 2]) <=>
               \E j \in 1..(i + 2) : l \in UNION Rng(fs[j])
    BY <2>2, <2>3, <2>4, <2>6
  <2>8. ASSUME Single(i + 2)
        PROVE  \E d : /\ F[i + 2] = <<d>>
                      /\ \A l : l \in d <=> \E j \in 1..(i + 2) : l \in fs[j][1]
    <3>1. Single(i + 1) /\ Len(g) = 1
      BY <2>3, <2>8
    <3>2. PICK d : /\ f = <<d>>
                   /\ \A l : l \in d <=> \E j \in 1..(i + 1) : l \in fs[j][1]
      BY <2>5, <3>1
    <3>3. F[i + 2] = <<d \cup g[1]>>
      BY <2>2, <2>6, <3>1, <3>2
    <3>4. \A l : l \in d \cup g[1] <=> \E j \in 1..(i + 2) : l \in fs[j][1]
      BY <2>3, <3>2
    <3> QED
      BY <3>3, <3>4
  <2> HIDE DEF Single
  <2> QED
    BY <2>2, <2>6, <2>7, <2>8
<1>7. Good(n)
  <2>1. n - 1 \in Nat /\ (n - 1) + 1 = n
    BY <1>1
  <2>2. n - 1 \in S
    <3> HIDE DEF S
    <3> QED
      BY <1>5, <1>6, <2>1, NatSetInduction
  <2> HIDE DEF Good
  <2> QED
    BY <2>1, <2>2
<1> QED
  BY <1>1, <1>3, <1>7

-----------------------------------------------------------------------------
(* Normal forms. *)

\* A literal of a formula and its negation.
LEMMA NegFacts ==
  ASSUME NEW f, IsFormula(f), NEW l \in UNION Rng(f)
  PROVE  /\ l \in [neg : BOOLEAN, name : {l.name}] /\ l.neg \in BOOLEAN
         /\ Neg(l).name = l.name /\ Neg(l).neg = ~l.neg
<1>1. PICK k \in DOMAIN f : l \in f[k]
  BY DEF Rng
<1>2. l \in [neg : BOOLEAN, name : {l.name}]
  BY <1>1 DEF IsFormula
<1> QED
  BY <1>2 DEF Neg

\* A text holds literals of its own only.
LEMMA ParsedLiterals ==
  ASSUME NEW f
  PROVE  UNION Parsed(f) \subseteq UNION Rng(f)
BY DEF Parsed, Kept

\* Whatever is folded, the conjunctions kept mean what the text means, when
\* of two complementary literals exactly one is true.
LEMMA ParsedMeaning ==
  ASSUME NEW f, NEW H, \A l \in UNION Rng(f) : l \in H <=> Neg(l) \notin H
  PROVE  (\E d \in Parsed(f) : \A l \in d : l \in H)
           <=> (\E d \in Rng(f) : \A l \in d : l \in H)
<1> DEFINE P == Kept(Rng(f))
<1>1. P \subseteq Rng(f)
  BY DEF Kept
<1>2. ASSUME NEW d \in Rng(f), \A l \in d : l \in H PROVE d \in P
  <2>1. ~\E l \in d : Neg(l) \in d
    BY <1>2
  <2> QED
    BY <2>1 DEF Kept
<1>3. Parsed(f) =
        IF Folding /\ \E l \in UNION P : {{l}, {Neg(l)}} \subseteq P THEN {{}}
        ELSE P
  BY DEF Parsed
<1> HIDE DEF P
<1>4. CASE Folding /\ \E l \in UNION P : {{l}, {Neg(l)}} \subseteq P
  <2>1. PICK l \in UNION P : {{l}, {Neg(l)}} \subseteq P
    BY <1>4
  <2>2. /\ l \in UNION Rng(f) /\ {l} \in Rng(f) /\ {Neg(l)} \in Rng(f)
        /\ Parsed(f) = {{}}
    BY <1>1, <1>3, <1>4, <2>1
  <2>3. l \in H \/ Neg(l) \in H
    BY <2>2
  <2> QED
    BY <2>2, <2>3
<1>5. CASE ~(Folding /\ \E l \in UNION P : {{l}, {Neg(l)}} \subseteq P)
  <2>1. Parsed(f) = P
    BY <1>3, <1>5
  <2> QED
    BY <1>1, <1>2, <2>1
<1> QED
  BY <1>4, <1>5

\* A distributed clause has literals of the conjunctions only.
LEMMA DistributedLiterals ==
  ASSUME NEW P, NEW c \in Distributed(P)
  PROVE  c \subseteq UNION P
BY DEF Distributed

\* Distributing keeps the meaning: whatever literals are true, all the clauses
\* are true exactly if some conjunction is.
LEMMA DistributedMeaning ==
  ASSUME NEW P, NEW H
  PROVE  (\A c \in Distributed(P) : \E l \in c : l \in H)
           <=> (\E d \in P : \A l \in d : l \in H)
<1>1. ASSUME NEW e \in P, \A l \in e : l \in H, NEW c \in Distributed(P)
      PROVE  \E l \in c : l \in H
  <2>1. PICK h \in [P -> UNION P] :
          c = {h[d] : d \in P} /\ \A d \in P : h[d] \in d
    BY DEF Distributed
  <2>2. h[e] \in c /\ h[e] \in e
    BY <2>1
  <2> QED
    BY <1>1, <2>2
<1>2. ASSUME \A d \in P : \E l \in d : l \notin H
      PROVE  \E c \in Distributed(P) : \A l \in c : l \notin H
  <2> DEFINE h == [d \in P |-> CHOOSE l \in d : l \notin H]
  <2>1. \A d \in P : h[d] \in d /\ h[d] \notin H
    BY <1>2
  <2>2. h \in [P -> UNION P]
    <3>1. \A d \in P : h[d] \in UNION P
      BY <2>1
    <3>2. h = [d \in P |-> h[d]]
      OBVIOUS
    <3> HIDE DEF h
    <3> QED
      BY <3>1, <3>2
  <2> HIDE DEF h
  <2>3. {h[d] : d \in P} \in Distributed(P)
    BY <2>1, <2>2 DEF Distributed
  <2>4. \A l \in {h[d] : d \in P} : l \notin H
    BY <2>1
  <2> QED
    BY <2>3, <2>4
<1> QED
  BY <1>1, <1>2

\* The clauses of a negation are true exactly if every conjunction has a
\* literal whose negation is true.
LEMMA NegatedMeaning ==
  ASSUME NEW P, NEW H
  PROVE  (\A c \in Negated(P) : \E l \in c : l \in H)
           <=> (\A d \in P : \E l \in d : Neg(l) \in H)
<1> DEFINE C(d) == {Neg(l) : l \in d}
<1>1. Negated(P) = {C(d) : d \in P}
  BY DEF Negated
<1>2. \A d : (\E x \in C(d) : x \in H) <=> (\E l \in d : Neg(l) \in H)
  OBVIOUS
<1> HIDE DEF C
<1>3. (\A c \in Negated(P) : \E l \in c : l \in H)
        <=> (\A d \in P : \E x \in C(d) : x \in H)
  BY <1>1
<1> QED
  BY <1>2, <1>3

\* A clause that drops out is true when of two complementary literals one is.
LEMMA KeptMeaning ==
  ASSUME NEW G, NEW H, \A l \in UNION G : l \in H \/ Neg(l) \in H
  PROVE  (\A c \in Kept(G) : \E l \in c : l \in H)
           <=> (\A c \in G : \E l \in c : l \in H)
<1>1. Kept(G) \subseteq G
  BY DEF Kept
<1>2. ASSUME NEW c \in G, c \notin Kept(G) PROVE \E l \in c : l \in H
  <2>1. PICK l \in c : Neg(l) \in c
    BY <1>2 DEF Kept
  <2>2. l \in H \/ Neg(l) \in H
    OBVIOUS
  <2> QED
    BY <2>1, <2>2
<1> QED
  BY <1>1, <1>2

\* to_cnf keeps the meaning of a text.
LEMMA CnfMeaning ==
  ASSUME NEW f, NEW H, \A l \in UNION Rng(f) : l \in H <=> Neg(l) \notin H
  PROVE  (\A c \in Kept(Distributed(Parsed(f))) : \E l \in c : l \in H)
           <=> (\E d \in Rng(f) : \A l \in d : l \in H)
<1> DEFINE G == Distributed(Parsed(f))
<1>1. \A l \in UNION G : l \in H \/ Neg(l) \in H
  BY ParsedLiterals, DistributedLiterals
<1>2. (\A c \in G : \E l \in c : l \in H)
        <=> (\E d \in Parsed(f) : \A l \in d : l \in H)
  BY DistributedMeaning
<1> HIDE DEF G
<1>3. (\A c \in Kept(G) : \E l \in c : l \in H)
        <=> (\A c \in G : \E l \in c : l \in H)
  BY <1>1, KeptMeaning
<1> QED
  BY <1>2, <1>3, ParsedMeaning DEF G

\* The clauses of a negated text are true exactly if the text is not.
LEMMA CnfOfNotMeaning ==
  ASSUME NEW f, NEW H, \A l \in UNION Rng(f) : l \in H <=> Neg(l) \notin H
  PROVE  (\A c \in Negated(Parsed(f)) : \E l \in c : l \in H)
           <=> ~(\E d \in Rng(f) : \A l \in d : l \in H)
<1>1. (\A c \in Negated(Parsed(f)) : \E l \in c : l \in H)
        <=> (\A d \in Parsed(f) : \E l \in d : Neg(l) \in H)
  BY NegatedMeaning
<1>2. \A d \in Parsed(f) : \A l \in d : l \in H <=> Neg(l) \notin H
  BY ParsedLiterals
<1>3. (\E d \in Parsed(f) : \A l \in d : l \in H)
        <=> (\E d \in Rng(f) : \A l \in d : l \in H)
  BY ParsedMeaning
<1> QED
  BY <1>1, <1>2, <1>3

\* Of a literal in X and its negation exactly one is in H; H makes some
\* conjunction in P true; H makes every clause in F true.
Coherent(X, H) == \A l \in X : l \in H <=> Neg(l) \notin H

SomeTrue(P, H) == \E d \in P : \A l \in d : l \in H

AllTrue(F, H) == \A c \in F : \E l \in c : l \in H

\* The clauses of an implication are true exactly if it is.
LEMMA ImpliesMeaning ==
  ASSUME NEW f, NEW g, NEW H,
         Coherent(UNION Rng(f), H), Coherent(UNION Rng(g), H)
  PROVE  AllTrue(ImpliesClauses(f, g), H)
           <=> (SomeTrue(Rng(f), H) => SomeTrue(Rng(g), H))
<1> USE DEF Coherent, SomeTrue, AllTrue
<1> DEFINE P == Parsed(f)
<1> DEFINE Q == Parsed(g)
<1>1. /\ (\E d \in P : \A l \in d : l \in H)
           <=> (\E d \in Rng(f) : \A l \in d : l \in H)
      /\ (\E d \in Q : \A l \in d : l \in H)
           <=> (\E d \in Rng(g) : \A l \in d : l \in H)
      /\ (\A c \in Negated(P) : \E l \in c : l \in H)
           <=> ~(\E d \in Rng(f) : \A l \in d : l \in H)
      /\ (\A c \in Distributed(Q) : \E l \in c : l \in H)
           <=> (\E d \in Q : \A l \in d : l \in H)
  <2>1. (\E d \in Parsed(f) : \A l \in d : l \in H)
          <=> (\E d \in Rng(f) : \A l \in d : l \in H)
    BY ParsedMeaning
  <2>2. (\E d \in Parsed(g) : \A l \in d : l \in H)
          <=> (\E d \in Rng(g) : \A l \in d : l \in H)
    BY ParsedMeaning
  <2>3. (\A c \in Negated(Parsed(f)) : \E l \in c : l \in H)
          <=> ~(\E d \in Rng(f) : \A l \in d : l \in H)
    BY CnfOfNotMeaning
  <2>4. (\A c \in Distributed(Parsed(g)) : \E l \in c : l \in H)
          <=> (\E d \in Parsed(g) : \A l \in d : l \in H)
    BY DistributedMeaning
  <2> QED
    BY <2>1, <2>2, <2>3, <2>4
<1>2. ImpliesClauses(f, g) =
        IF P = Q THEN {}
        ELSE {n \cup c : n \in Negated(P), c \in Distributed(Q)}
  BY DEF ImpliesClauses
<1> HIDE DEF P, Q
<1>3. CASE P = Q
  BY <1>1, <1>2, <1>3
<1>4. CASE P # Q
  <2> DEFINE N == Negated(P)
  <2> DEFINE D == Distributed(Q)
  <2>1. ImpliesClauses(f, g) = {n \cup c : n \in N, c \in D}
    BY <1>2, <1>4
  <2> HIDE DEF N, D
  <2>2. (\A c \in ImpliesClauses(f, g) : \E l \in c : l \in H)
          <=> \A n \in N, c \in D : \E l \in n \cup c : l \in H
    <3>1. \A n \in N, c \in D : n \cup c \in ImpliesClauses(f, g)
      BY <2>1
    <3>2. \A x \in ImpliesClauses(f, g) : \E n \in N, c \in D : x = n \cup c
      BY <2>1
    <3>3. ASSUME \A x \in ImpliesClauses(f, g) : \E l \in x : l \in H,
                 NEW n \in N, NEW c \in D
          PROVE  \E l \in n \cup c : l \in H
      BY <3>1, <3>3
    <3>4. ASSUME \A n \in N, c \in D : \E l \in n \cup c : l \in H,
                 NEW x \in ImpliesClauses(f, g)
          PROVE  \E l \in x : l \in H
      <4>1. PICK n \in N, c \in D : x = n \cup c
        BY <3>2
      <4>2. \E l \in n \cup c : l \in H
        BY <3>4
      <4> QED
        BY <4>1, <4>2
    <3> QED
      BY <3>3, <3>4
  <2>3. (\A n \in N, c \in D : \E l \in n \cup c : l \in H)
          <=> \/ \A n \in N : \E l \in n : l \in H
              \/ \A c \in D : \E l \in c : l \in H
    OBVIOUS
  <2> QED
    BY <1>1, <2>2, <2>3 DEF N, D
<1> QED
  BY <1>3, <1>4

\* The constants, read as literals.
Constants ==
  {[neg |-> FALSE, name |-> TrueName], [neg |-> FALSE, name |-> FalseName]}

\* What is written is not empty: a clause of the formula, or a constant.
LEMMA WrittenClauses ==
  ASSUME NEW F, NEW c \in Written(F)
  PROVE  c # {} /\ (c \in F \/ \E x \in Constants : c = {x})
BY DEF Written, Constants

\* Nothing is folded when no constant is written.
LEMMA WrittenPlain ==
  ASSUME NEW F, \A c \in Written(F) : \A x \in Constants : c # {x}
  PROVE  Written(F) = F
BY DEF Written, Constants

\* Nothing is written as a constant that can be both true and false.
LEMMA NotWritten ==
  ASSUME NEW F, NEW H, NEW K, \A c \in F : \E l \in c : l \in H,
         NEW d \in F, \A l \in d : l \notin K
  PROVE  Written(F) = F
<1>1. {} \notin F /\ F # {}
  OBVIOUS
<1> QED
  BY <1>1 DEF Written

-----------------------------------------------------------------------------
(* Names and variables. *)

\* Sequences of one, two and three elements taken apart.
LEMMA ShortSequences ==
  ASSUME NEW a, NEW b, NEW t
  PROVE  /\ Len(<<a>>) = 1 /\ Len(<<a, b>>) = 2 /\ Len(<<a, b, t>>) = 3
         /\ Append(<<a>>, t) = <<a, t>> /\ Append(<<a, b>>, t) = <<a, b, t>>
         /\ Front(<<a, b>>) = <<a>> /\ Last(<<a, b>>) = b
<1>1. /\ Len(<<a>>) = 1 /\ Len(<<a, b>>) = 2 /\ Len(<<a, b, t>>) = 3
  OBVIOUS
<1>4. Append(<<a>>, t) = <<a, t>>
  <2> DEFINE U == {a, t}
  <2> DEFINE s == <<a>>
  <2> DEFINE r == <<a, t>>
  <2>1. /\ s \in Seq(U) /\ r \in Seq(U) /\ t \in U
        /\ Len(s) = 1 /\ s[1] = a /\ Len(r) = 2 /\ r[1] = a /\ r[2] = t
    OBVIOUS
  <2> HIDE DEF s, r, U
  <2>2. /\ Append(s, t) \in Seq(U) /\ Len(Append(s, t)) = 2
        /\ Append(s, t)[1] = a /\ Append(s, t)[2] = t
    <3>1. 1 \in 1..Len(s) /\ Len(s) + 1 = 2
      BY <2>1
    <3>2. /\ Append(s, t) \in Seq(U)
          /\ Len(Append(s, t)) = Len(s) + 1
          /\ \A i \in 1..Len(s) : Append(s, t)[i] = s[i]
          /\ Append(s, t)[Len(s) + 1] = t
      <4>1. s \in Seq(U) /\ t \in U
        BY <2>1
      <4> QED
        BY <4>1, AppendProperties
    <3> DEFINE q == Append(s, t)
    <3>3. /\ q \in Seq(U) /\ Len(q) = Len(s) + 1
          /\ \A i \in 1..Len(s) : q[i] = s[i]
          /\ q[Len(s) + 1] = t
      BY <3>2
    <3> HIDE DEF q
    <3>4. q[1] = a
      BY <2>1, <3>1, <3>3
    <3>5. Len(q) = 2 /\ q[2] = t
      BY <3>1, <3>3
    <3> QED
      BY <3>3, <3>4, <3>5 DEF q
  <2>3. \A i \in 1..2 : i = 1 \/ i = 2
    OBVIOUS
  <2>4. \A i \in 1..Len(Append(s, t)) : Append(s, t)[i] = r[i]
    BY <2>1, <2>2, <2>3
  <2>5. Append(s, t) = r
    BY <2>1, <2>2, <2>4, SeqEqual
  <2> QED
    BY <2>5 DEF s, r
<1>5. Append(<<a, b>>, t) = <<a, b, t>>
  <2> DEFINE U == {a, b, t}
  <2> DEFINE s == <<a, b>>
  <2> DEFINE r == <<a, b, t>>
  <2>1. /\ s \in Seq(U) /\ r \in Seq(U) /\ t \in U
        /\ Len(s) = 2 /\ s[1] = a /\ s[2] = b
        /\ Len(r) = 3 /\ r[1] = a /\ r[2] = b /\ r[3] = t
    OBVIOUS
  <2> HIDE DEF s, r, U
  <2>2. /\ Append(s, t) \in Seq(U) /\ Len(Append(s, t)) = 3
        /\ Append(s, t)[1] = a /\ Append(s, t)[2] = b /\ Append(s, t)[3] = t
    <3>1. 1 \in 1..Len(s) /\ 2 \in 1..Len(s) /\ Len(s) + 1 = 3
      BY <2>1
    <3>2. /\ Append(s, t) \in Seq(U)
          /\ Len(Append(s, t)) = Len(s) + 1
          /\ \A i \in 1..Len(s) : Append(s, t)[i] = s[i]
          /\ Append(s, t)[Len(s) + 1] = t
      <4>1. s \in Seq(U) /\ t \in U
        BY <2>1
      <4> QED
        BY <4>1, AppendProperties
    <3> DEFINE q == Append(s, t)
    <3>3. /\ q \in Seq(U) /\ Len(q) = Len(s) + 1
          /\ \A i \in 1..Len(s) : q[i] = s[i]
          /\ q[Len(s) + 1] = t
      BY <3>2
    <3> HIDE DEF q
    <3>4. q[1] = a /\ q[2] = b
      BY <2>1, <3>1, <3>3
    <3>5. Len(q) = 3 /\ q[3] = t
      BY <3>1, <3>3
    <3> QED
      BY <3>3, <3>4, <3>5 DEF q
  <2>3. \A i \in 1..3 : i = 1 \/ i = 2 \/ i = 3
    OBVIOUS
  <2>4. \A i \in 1..Len(Append(s, t)) : Append(s, t)[i] = r[i]
    BY <2>1, <2>2, <2>3
  <2>5. Append(s, t) = r
    BY <2>1, <2>2, <2>4, SeqEqual
  <2> QED
    BY <2>5 DEF s, r
<1>2. Last(<<a, b>>) = b
  BY DEF Last
<1>3. Front(<<a, b>>) = <<a>>
  <2> DEFINE U == {a, b}
  <2> DEFINE s == <<a, b>>
  <2>1. s \in Seq(U) /\ s # <<>> /\ Len(s) = 2 /\ s[1] = a
    OBVIOUS
  <2>2. Front(s) = SubSeq(s, 1, Len(s) - 1)
    BY DEF Front
  <2> HIDE DEF s, U
  <2>3. /\ SubSeq(s, 1, Len(s) - 1) \in Seq(U)
        /\ Len(SubSeq(s, 1, Len(s) - 1)) = 1
        /\ SubSeq(s, 1, Len(s) - 1)[1] = a
    <3>1. 1 \in 1..(Len(s) - 1) /\ Len(s) - 1 = 1
      BY <2>1
    <3> QED
      BY <2>1, <3>1, FrontFacts
  <2> DEFINE q == SubSeq(s, 1, Len(s) - 1)
  <2>4. q \in Seq(U) /\ Len(q) = 1 /\ q[1] = a
    BY <2>3
  <2> HIDE DEF q
  <2>5. q = <<a>>
    BY <2>4
  <2>6. Front(s) = <<a>>
    BY <2>2, <2>5 DEF q
  <2> QED
    BY <2>6 DEF s
<1> QED
  BY <1>1, <1>2, <1>3, <1>4, <1>5

\* A range of positive numbers.
LEMMA DotsAreNat ==
  ASSUME NEW n \in Nat
  PROVE  1..n \subseteq Nat
OBVIOUS

\* The type of a symbol declared once is the declared one.
LEMMA TypeOfSymbol ==
  ASSUME NEW as, NEW k \in DOMAIN as,
         \A j \in DOMAIN as : as[j].symbol = as[k].symbol => j = k,
         DOMAIN as \subseteq Nat
  PROVE  /\ as[k].symbol \in DOMAIN TypesOf(as)
         /\ TypesOf(as)[as[k].symbol] = as[k].type
<1> DEFINE sym == as[k].symbol
<1> DEFINE P(i) == /\ as[i].symbol = sym
                   /\ \A j \in DOMAIN as : as[j].symbol = sym => j <= i
<1>1. P(k) /\ \A i \in DOMAIN as : P(i) => i = k
  <2>1. k \in Nat
    OBVIOUS
  <2>2. k <= k
    BY <2>1
  <2> QED
    BY <2>2
<1>2. (CHOOSE i \in DOMAIN as : P(i)) = k
  <2> HIDE DEF P
  <2> QED
    BY <1>1
<1>3. sym \in DOMAIN TypesOf(as)
  BY DEF TypesOf
<1>4. TypesOf(as)[sym] = as[CHOOSE i \in DOMAIN as : P(i)].type
  BY DEF TypesOf
<1> HIDE DEF P
<1> QED
  BY <1>2, <1>3, <1>4

\* In a plain model a symbol has the type of its declaration, and the
\* temporal atom is boolean.
LEMMA PlainTypes ==
  ASSUME AtomsInv, pc # "create_state_atoms", Distinct(input)
  PROVE  /\ \A k \in DOMAIN input.states :
              LET a == input.states[k]
              IN  /\ a.symbol \in DOMAIN symbol_atom_map
                  /\ symbol_atom_map[a.symbol] = a.type
         /\ incremental => /\ TVname \in DOMAIN symbol_atom_map
                           /\ symbol_atom_map[TVname] = "boolean"
<1> DEFINE as == AtomsOf(input, incremental)
<1> DEFINE st == input.states
<1>1. input \in Inputs /\ incremental \in BOOLEAN /\ symbol_atom_map = TypesOf(as)
  BY InputsAssumption DEF AtomsInv
<1>2. /\ as \in Seq(Rng(as))
      /\ DOMAIN st \subseteq DOMAIN as
      /\ \A k \in DOMAIN st : as[k] = st[k]
      /\ \A k \in DOMAIN as :
           k \notin DOMAIN st =>
             incremental /\ k = Len(st) + 1 /\ as[k] = TemporalAtom
      /\ incremental => /\ Len(st) + 1 \in DOMAIN as
                        /\ as[Len(st) + 1] = TemporalAtom
      /\ Len(st) \in Nat /\ DOMAIN st = 1..Len(st)
  BY <1>1, AtomsFacts
<1>3. /\ \A j, k \in DOMAIN st : st[j].symbol = st[k].symbol => j = k
      /\ \A k \in DOMAIN st : st[k].symbol # TVname
  BY DEF Distinct, Symbols
<1>4. TemporalAtom.symbol = TVname /\ TemporalAtom.type = "boolean"
  BY DEF TemporalAtom
<1> HIDE DEF as, st
<1>5. DOMAIN as \subseteq Nat
  <2>1. as \in Seq(Rng(as))
    BY <1>2
  <2>2. DOMAIN as = 1..Len(as) /\ Len(as) \in Nat
    BY <2>1, LenProperties
  <2> QED
    BY <2>2, Zenon, DotsAreNat
<1>6. ASSUME NEW k \in DOMAIN as, NEW j \in DOMAIN as,
             as[j].symbol = as[k].symbol
      PROVE  j = k
  <2>1. CASE j \in DOMAIN st /\ k \in DOMAIN st
    BY <1>2, <1>3, <1>6, <2>1
  <2>2. CASE j \notin DOMAIN st \/ k \notin DOMAIN st
    BY <1>2, <1>3, <1>4, <1>6, <2>2
  <2> QED
    BY <2>1, <2>2
<1>7. \A k \in DOMAIN as : /\ as[k].symbol \in DOMAIN symbol_atom_map
                           /\ symbol_atom_map[as[k].symbol] = as[k].type
  <2> SUFFICES ASSUME NEW k \in DOMAIN as
               PROVE  /\ as[k].symbol \in DOMAIN symbol_atom_map
                      /\ symbol_atom_map[as[k].symbol] = as[k].type
    OBVIOUS
  <2>1. \A j \in DOMAIN as : as[j].symbol = as[k].symbol => j = k
    BY <1>6
  <2> QED
    BY <1>1, <1>5, <2>1, TypeOfSymbol
<1>8. \A k \in DOMAIN st : /\ st[k].symbol \in DOMAIN symbol_atom_map
                           /\ symbol_atom_map[st[k].symbol] = st[k].type
  BY <1>2, <1>7
<1>9. incremental => /\ TVname \in DOMAIN symbol_atom_map
                     /\ symbol_atom_map[TVname] = "boolean"
  BY <1>2, <1>4, <1>7
<1> QED
  BY <1>8, <1>9 DEF st

\* Every slot of every step has its variable when the loop is over.
LEMMA SlotNumbered ==
  ASSUME NumberedInv, NumberingDone, NEW t \in 0..steps,
         NEW x, In(x, FrameSlots), x # <<>>
  PROVE  <<t>> \o x \in DOMAIN state_to_cnf_vars
<1>0. AtomsInv /\ PositionInv /\ EntriesInv /\ pc # "create_state_atoms"
  BY DEF NumberedInv, NumberingDone
<1>1. PICK s \in DOMAIN FrameSlots : FrameSlots[s] = x
  BY DEF In
<1>2. steps \in Int /\ frame \in Nat
  BY <1>0, StateSlots DEF PositionInv
<1>3. frame > steps
  <2>1. FrameSlots # <<>>
    BY <1>1
  <2> QED
    BY <1>0, <2>1 DEF PositionInv
<1>4. Allocated(t, s) /\ t \in 0..frame
  BY <1>2, <1>3 DEF Allocated
<1> QED
  BY <1>0, <1>1, <1>4 DEF EntriesInv

\* The slots of the declared atoms, and the one of the temporal atom.
LEMMA DeclaredSlots ==
  ASSUME AtomsInv, pc # "create_state_atoms"
  PROVE  /\ \A k \in DOMAIN input.states : \A x :
              In(x, AtomSlots(input.states[k])) => In(x, FrameSlots)
         /\ incremental => In(<<TVname, None>>, FrameSlots)
<1> DEFINE as == AtomsOf(input, incremental)
<1>1. /\ input \in Inputs /\ incremental \in BOOLEAN
      /\ FrameSlots = SlotsOf(as, incremental)
  BY InputsAssumption DEF AtomsInv, FrameSlots
<1>2. \A k \in DOMAIN as : \A x : In(x, AtomSlots(as[k])) => In(x, FrameSlots)
  BY <1>1, SlotsFacts
<1>3. /\ DOMAIN input.states \subseteq DOMAIN as
      /\ \A k \in DOMAIN input.states : as[k] = input.states[k]
      /\ incremental => /\ Len(input.states) + 1 \in DOMAIN as
                        /\ as[Len(input.states) + 1] = TemporalAtom
  BY <1>1, AtomsFacts
<1>4. In(<<TVname, None>>, AtomSlots(TemporalAtom))
  <2>1. IsSequence(TemporalAtom.domain)
    BY DEF TemporalAtom, IsSequence
  <2>2. TemporalAtom.type = "boolean" /\ TemporalAtom.symbol = TVname
    BY DEF TemporalAtom
  <2> QED
    BY <2>1, <2>2, AtomSlotsFacts
<1> HIDE DEF as
<1>5. \A k \in DOMAIN input.states : \A x :
        In(x, AtomSlots(input.states[k])) => In(x, FrameSlots)
  BY <1>2, <1>3
<1>6. incremental => In(<<TVname, None>>, FrameSlots)
  BY <1>2, <1>3, <1>4
<1> QED
  BY <1>5, <1>6

\* A name of a plain model is found in the numbering of every step, both by
\* get_cnf_clause and through the text of the safety constraints.
LEMMA NameResolves ==
  ASSUME NumberedInv, NumberingDone, Plain(input), NEW t \in 0..steps,
         NEW name \in NamesUsed(input)
  PROVE  /\ Resolves(name, t) /\ Matches(name)
         /\ extract_atom_info(Append(name, t)).t = t
         /\ extract_atom_info(Append(name, t)).key = MapKey(name)
<1>0. AtomsInv /\ pc # "create_state_atoms" /\ Distinct(input)
  BY DEF NumberedInv, NumberingDone, Plain
<1> DEFINE st == input.states
<1>1. PICK k \in DOMAIN st :
        name \in IF st[k].type = "boolean" THEN {st[k].symbol}
                 ELSE {Append(st[k].symbol, st[k].domain[i]) :
                         i \in DOMAIN st[k].domain}
  BY DEF Plain, Rng
<1> DEFINE a == st[k]
<1>2. PICK s : a.symbol = <<s>> /\ s \in LetterStems
  <2>1. a.symbol \in Symbols(input)
    BY DEF Symbols
  <2> QED
    BY <2>1 DEF Plain
<1>3. a.symbol \in DOMAIN symbol_atom_map /\ symbol_atom_map[a.symbol] = a.type
  BY <1>0, PlainTypes
<1>4. /\ \A x : In(x, AtomSlots(a)) => In(x, FrameSlots)
      /\ IsSequence(a.domain)
  BY <1>0, DeclaredSlots, InputsAssumption DEF AtomsInv
<1>5. CASE a.type = "boolean"
  <2>1. name = <<s>>
    BY <1>1, <1>2, <1>5
  <2>2. remove_domain_val(name) = <<s>> /\ MapKey(name) = <<<<s>>, None>>
    <3>1. remove_domain_val(name) = <<s>>
      BY <2>1, ShortSequences DEF remove_domain_val
    <3> QED
      BY <1>2, <1>3, <1>5, <3>1 DEF MapKey
  <2> DEFINE x == <<<<s>>, None>>
  <2>3. In(x, FrameSlots) /\ x # <<>>
    BY <1>2, <1>4, <1>5, AtomSlotsFacts
  <2>4. <<t>> \o x \in DOMAIN state_to_cnf_vars
    <3> HIDE DEF x
    <3> QED
      BY <2>3, SlotNumbered
  <2>5. Resolves(name, t)
    BY <1>2, <1>3, <2>2, <2>4 DEF Resolves
  <2>6. Append(name, t) = <<s, t>>
    BY <2>1, ShortSequences
  <2>7. extract_atom_info(<<s, t>>) = [key |-> <<<<s>>, None>>, t |-> t]
    BY DEF extract_atom_info
  <2>8. Matches(name)
    BY <1>2, <2>1 DEF Matches
  <2> QED
    BY <2>2, <2>5, <2>6, <2>7, <2>8
<1>6. CASE a.type # "boolean"
  <2>1. PICK i \in DOMAIN a.domain : name = Append(a.symbol, a.domain[i])
    BY <1>1, <1>6
  <2> DEFINE v == a.domain[i]
  <2>2. name = <<s, v>>
    BY <1>2, <2>1, ShortSequences
  <2> DEFINE x == <<<<s>>, v>>
  <2>3. In(x, FrameSlots) /\ x # <<>>
    <3>1. \E j \in DOMAIN a.domain : x = <<a.symbol, a.domain[j]>>
      BY <1>2
    <3>2. In(x, AtomSlots(a))
      BY <1>4, <1>6, <3>1, AtomSlotsFacts
    <3> QED
      BY <1>4, <3>2
  <2> HIDE DEF v
  <2>4. remove_domain_val(name) = <<s>> /\ MapKey(name) = x
    <3>0. Len(name) = 2 /\ Front(name) = <<s>> /\ Last(name) = v
      BY <2>2, ShortSequences
    <3>1. remove_domain_val(name) = <<s>> /\ get_domain_val(name) = v
      BY <3>0 DEF remove_domain_val, get_domain_val
    <3>2. remove_domain_val(<<s>>) = <<s>>
      BY ShortSequences DEF remove_domain_val
    <3> QED
      BY <1>2, <1>3, <1>6, <3>1, <3>2 DEF MapKey
  <2>5. <<t>> \o x \in DOMAIN state_to_cnf_vars
    <3> HIDE DEF x
    <3> QED
      BY <2>3, SlotNumbered
  <2>6. Resolves(name, t)
    BY <1>2, <1>3, <2>4, <2>5 DEF Resolves
  <2>7. Append(name, t) = <<s, v, t>>
    BY <2>2, ShortSequences
  <2>8. extract_atom_info(<<s, v, t>>) = [key |-> <<<<s>>, v>>, t |-> t]
    BY DEF extract_atom_info
  <2>9. Matches(name)
    BY <1>2, <2>2 DEF Matches
  <2> QED
    BY <2>4, <2>6, <2>7, <2>8, <2>9
<1> QED
  BY <1>5, <1>6

\* The temporal atom is found in the numbering of every step.
LEMMA TemporalAtomResolves ==
  ASSUME NumberedInv, NumberingDone, Distinct(input), incremental,
         NEW t \in 0..steps
  PROVE  Resolves(TVname, t) /\ MapKey(TVname) = <<TVname, None>>
<1>0. AtomsInv /\ pc # "create_state_atoms"
  BY DEF NumberedInv, NumberingDone
<1>1. /\ TVname \in DOMAIN symbol_atom_map
      /\ symbol_atom_map[TVname] = "boolean"
      /\ In(<<TVname, None>>, FrameSlots)
  BY <1>0, PlainTypes, DeclaredSlots
<1>2. remove_domain_val(TVname) = TVname
  BY DEF remove_domain_val, TVname
<1>3. MapKey(TVname) = <<TVname, None>>
  BY <1>1, <1>2 DEF MapKey
<1> DEFINE x == <<TVname, None>>
<1>4. In(x, FrameSlots) /\ x # <<>>
  BY <1>1
<1>5. <<t>> \o x \in DOMAIN state_to_cnf_vars
  <2> HIDE DEF x
  <2> QED
    BY <1>4, SlotNumbered
<1> QED
  BY <1>1, <1>2, <1>3, <1>5 DEF Resolves

-----------------------------------------------------------------------------
(* The constraints. *)

\* No constraint has been converted yet.
Unbuilt ==
  /\ initial_state_constraints = {} /\ transition_constraints = <<>>
  /\ safety_violation_constraints = {}

\* Every constraint has been converted.
Built ==
  /\ initial_state_constraints =
       {ToCnf(input.init[k]) : k \in DOMAIN input.init}
  /\ transition_constraints =
       [r \in DOMAIN input.transitions |->
          RuleFormula(input.transitions[r], incremental)]
  /\ safety_violation_constraints =
       UNION {ToCnfOfNot(input.safety[k]) : k \in DOMAIN input.safety}
  /\ \A r \in DOMAIN input.transitions : Parsable(input.transitions[r])

\* The constraints are built from the input, all of them or none.
ConstraintsInv ==
  /\ Unbuilt \/ Built
  /\ Preparing => Unbuilt
  /\ ~Preparing /\ pc # "raised" => Built

\* Every step of the program preserves it.
LEMMA ConstraintsKept ==
  ASSUME ConstraintsInv, [Next]_vars
  PROVE  ConstraintsInv'
<1>1. CASE CreateStateAtoms
  BY <1>1 DEF CreateStateAtoms, ConstraintsInv, Preparing, Unbuilt, constraints
<1>2. CASE BuildConstraints
  <2>1. pc = "build_constraints" /\ Unbuilt /\ UNCHANGED <<input, incremental>>
    BY <1>2 DEF BuildConstraints, ConstraintsInv, Preparing, args
  <2>2. CASE \A r \in DOMAIN input.transitions : Parsable(input.transitions[r])
    <3>1. Built' /\ pc' = "build_state_to_cnf_vars"
      BY <1>2, <2>1, <2>2 DEF BuildConstraints, Built
    <3> QED
      BY <3>1 DEF ConstraintsInv, Preparing
  <2>3. CASE ~\A r \in DOMAIN input.transitions : Parsable(input.transitions[r])
    BY <1>2, <2>1, <2>3
       DEF BuildConstraints, Raise, constraints, ConstraintsInv, Unbuilt, Preparing
  <2> QED
    BY <2>2, <2>3
<1>3. ASSUME UNCHANGED <<constraints, input, incremental>>,
             Preparing' <=> Preparing,
             ~Preparing => pc # "raised" \/ pc' = pc
      PROVE  ConstraintsInv'
  <2>1. Unbuilt' <=> Unbuilt
    BY <1>3 DEF Unbuilt, constraints
  <2>2. Built' <=> Built
    BY <1>3 DEF Built, constraints
  <2> QED
    BY <1>3, <2>1, <2>2 DEF ConstraintsInv
<1>4. CASE AllocateVariable
  <2>1. /\ UNCHANGED <<constraints, input, incremental>>
        /\ pc = "build_state_to_cnf_vars" /\ pc' = pc
    BY <1>4 DEF AllocateVariable, args
  <2> QED
    BY <1>3, <2>1 DEF Preparing
<1>5. CASE AllocationEnds
  <2>1. /\ UNCHANGED <<constraints, input, incremental>>
        /\ pc = "build_state_to_cnf_vars" /\ pc' = "build_initial_state_cnf"
    BY <1>5 DEF AllocationEnds, args
  <2> QED
    BY <1>3, <2>1 DEF Preparing
<1>6. CASE BuildInitialStateCnf
  <2>1. /\ UNCHANGED <<constraints, input, incremental>>
        /\ pc = "build_initial_state_cnf"
        /\ pc' \in {"build_transition_cnf", "raised"}
    BY <1>6 DEF BuildInitialStateCnf, args, Raise
  <2> QED
    BY <1>3, <2>1 DEF Preparing
<1>7. CASE BuildTransitionCnf
  <2>1. /\ UNCHANGED <<constraints, input, incremental>>
        /\ pc = "build_transition_cnf"
        /\ pc' \in {"build_safety_violation_cnf", "raised"}
    BY <1>7 DEF BuildTransitionCnf, args, Raise
  <2> QED
    BY <1>3, <2>1 DEF Preparing
<1>8. CASE BuildSafetyViolationCnf
  <2>1. /\ UNCHANGED <<constraints, input, incremental>>
        /\ pc = "build_safety_violation_cnf"
        /\ pc' \in {"save_to_file", "raised"}
    BY <1>8 DEF BuildSafetyViolationCnf, args, Raise
  <2> QED
    BY <1>3, <2>1 DEF Preparing
<1>9. CASE SaveToFile
  <2>1. /\ UNCHANGED <<constraints, input, incremental>>
        /\ pc = "save_to_file" /\ pc' = "returned"
    BY <1>9 DEF SaveToFile
  <2> QED
    BY <1>3, <2>1 DEF Preparing
<1>10. CASE UNCHANGED converterVars
  <2>1. UNCHANGED <<constraints, input, incremental>> /\ pc' = pc
    BY <1>10 DEF converterVars, constraints
  <2> QED
    BY <1>3, <2>1 DEF Preparing
<1> QED
  BY <1>1, <1>2, <1>4, <1>5, <1>6, <1>7, <1>8, <1>9, <1>10, StepCases

\* Of a literal and its negation exactly one is true.
LEMMA NegHolds ==
  ASSUME NEW l, l \in [neg : BOOLEAN, name : {l.name}]
  PROVE  /\ Neg(l) \in [neg : BOOLEAN, name : {Neg(l).name}]
         /\ Neg(l).name = l.name
         /\ \A S : NameHolds(S, Neg(l)) <=> ~NameHolds(S, l)
<1>1. /\ Neg(l) \in [neg : BOOLEAN, name : {l.name}]
      /\ l.neg \in BOOLEAN /\ Neg(l).name = l.name /\ Neg(l).neg = ~l.neg
  BY DEF Neg
<1>2. ASSUME NEW S PROVE NameHolds(S, Neg(l)) <=> ~NameHolds(S, l)
  <2> DEFINE b == l.name \in S
  <2>1. NameHolds(S, l) <=> (b = ~l.neg)
    BY DEF NameHolds
  <2>2. NameHolds(S, Neg(l)) <=> (b = ~Neg(l).neg)
    BY <1>1 DEF NameHolds
  <2>3. CASE l.neg = TRUE
    <3>1. Neg(l).neg = FALSE
      BY <1>1, <2>3
    <3>2. NameHolds(S, l) <=> ~b
      BY <2>1, <2>3
    <3>3. NameHolds(S, Neg(l)) <=> b
      BY <2>2, <3>1
    <3> QED
      BY <3>2, <3>3
  <2>4. CASE l.neg = FALSE
    <3>1. Neg(l).neg = TRUE
      BY <1>1, <2>4
    <3>2. NameHolds(S, l) <=> b
      BY <2>1, <2>4
    <3>3. NameHolds(S, Neg(l)) <=> ~b
      BY <2>2, <3>1
    <3> QED
      BY <3>2, <3>3
  <2> QED
    BY <1>1, <2>3, <2>4
<1> QED
  BY <1>1, <1>2

\* The literals of a text and their types.
LEMMA LiteralsOf ==
  ASSUME NEW f, IsFormula(f), NEW l \in UNION Rng(f)
  PROVE  l \in [neg : BOOLEAN, name : {l.name}] /\ l.name \notin {TrueName, FalseName}
<1>1. PICK k \in DOMAIN f : l \in f[k]
  BY DEF Rng
<1> QED
  BY <1>1 DEF IsFormula

\* The literals of the clauses of a text and of its negation.
LEMMA CnfLiterals ==
  ASSUME NEW f
  PROVE  /\ \A c \in Kept(Distributed(Parsed(f))) : c \subseteq UNION Rng(f)
         /\ \A c \in Negated(Parsed(f)) : \A l \in c :
              \E m \in UNION Rng(f) : l = Neg(m)
<1>1. ASSUME NEW c \in Kept(Distributed(Parsed(f))) PROVE c \subseteq UNION Rng(f)
  <2>1. c \in Distributed(Parsed(f))
    BY DEF Kept
  <2> QED
    BY <2>1, DistributedLiterals, ParsedLiterals
<1>2. ASSUME NEW c \in Negated(Parsed(f)), NEW l \in c
      PROVE  \E m \in UNION Rng(f) : l = Neg(m)
  <2>1. PICK d \in Parsed(f) : c = {Neg(m) : m \in d}
    BY DEF Negated
  <2>2. PICK m \in d : l = Neg(m)
    BY <2>1
  <2> QED
    BY <2>2, ParsedLiterals
<1> QED
  BY <1>1, <1>2

\* The clauses of a text, and of its negation, under a set of true names.
LEMMA CnfHolds ==
  ASSUME NEW f, IsFormula(f), NEW S
  PROVE  /\ (\A c \in Kept(Distributed(Parsed(f))) : \E l \in c : NameHolds(S, l))
              <=> TextHolds(S, f)
         /\ (\A c \in Negated(Parsed(f)) : \E l \in c : NameHolds(S, l))
              <=> ~TextHolds(S, f)
<1> DEFINE X == UNION Rng(f)
<1> DEFINE U == X \cup {Neg(l) : l \in X}
<1> DEFINE H == {l \in U : NameHolds(S, l)}
<1>1. \A l \in X : l \in H <=> Neg(l) \notin H
  <2> SUFFICES ASSUME NEW l \in X PROVE l \in H <=> Neg(l) \notin H
    OBVIOUS
  <2>1. l \in U /\ Neg(l) \in U
    OBVIOUS
  <2>2. NameHolds(S, Neg(l)) <=> ~NameHolds(S, l)
    BY LiteralsOf, NegHolds
  <2> HIDE DEF X, U
  <2> QED
    BY <2>1, <2>2
<1>2. \A l \in U : l \in H <=> NameHolds(S, l)
  OBVIOUS
<1>3. /\ \A d \in Rng(f) : d \subseteq U
      /\ \A c \in Kept(Distributed(Parsed(f))) : c \subseteq U
      /\ \A c \in Negated(Parsed(f)) : c \subseteq U
  BY CnfLiterals
<1> HIDE DEF H, U
<1>4. TextHolds(S, f) <=> \E d \in Rng(f) : \A l \in d : l \in H
  BY <1>2, <1>3 DEF TextHolds
<1>5. (\A c \in Kept(Distributed(Parsed(f))) : \E l \in c : l \in H)
        <=> TextHolds(S, f)
  BY <1>1, <1>4, CnfMeaning
<1>6. (\A c \in Negated(Parsed(f)) : \E l \in c : l \in H) <=> ~TextHolds(S, f)
  BY <1>1, <1>4, CnfOfNotMeaning
<1>7. (\A c \in Kept(Distributed(Parsed(f))) : \E l \in c : l \in H)
        <=> \A c \in Kept(Distributed(Parsed(f))) : \E l \in c : NameHolds(S, l)
  BY <1>2, <1>3
<1>8. (\A c \in Negated(Parsed(f)) : \E l \in c : l \in H)
        <=> \A c \in Negated(Parsed(f)) : \E l \in c : NameHolds(S, l)
  BY <1>2, <1>3
<1> QED
  BY <1>5, <1>6, <1>7, <1>8

\* The literal of the temporal atom, and what the encoding adds to a rule.
TVlit == [neg |-> FALSE, name |-> TVname]

Added(inc) == IF inc THEN {TVlit} ELSE {}

\* The clauses of a rule before they are written.
RuleClauses(p, q, inc) == Kept({c \cup Added(inc) : c \in ImpliesClauses(p, q)})

\* The literals of a rule's clauses.
LEMMA RuleLiterals ==
  ASSUME NEW p, NEW q, NEW inc, NEW c \in RuleClauses(p, q, inc)
  PROVE  /\ Added(inc) \subseteq c
         /\ \A l \in c : \/ l \in UNION Rng(q) \/ l \in Added(inc)
                         \/ \E m \in UNION Rng(p) : l = Neg(m)
<1>1. PICK d \in ImpliesClauses(p, q) : c = d \cup Added(inc)
  BY DEF RuleClauses, Kept
<1>2. PICK n \in Negated(Parsed(p)), b \in Distributed(Parsed(q)) : d = n \cup b
  BY DEF ImpliesClauses
<1>3. b \subseteq UNION Rng(q)
  BY DistributedLiterals, ParsedLiterals
<1> QED
  BY <1>1, <1>2, <1>3, CnfLiterals

\* A rule's clauses are true exactly if the temporal atom or the implication
\* between its texts is.
LEMMA RuleHolds ==
  ASSUME NEW p, NEW q, IsFormula(p), IsFormula(q), NEW S,
         NEW inc \in BOOLEAN
  PROVE  (\A c \in RuleClauses(p, q, inc) : \E l \in c : NameHolds(S, l))
           <=> \/ inc /\ TVname \in S
               \/ TextHolds(S, p) => TextHolds(S, q)
<1> DEFINE X == (UNION Rng(p)) \cup (UNION Rng(q))
<1> DEFINE I == ImpliesClauses(p, q)
<1> DEFINE G == {c \cup Added(inc) : c \in I}
<1> DEFINE V == (X \cup {Neg(l) : l \in X}) \cup {TVlit}
<1> DEFINE U == V \cup {Neg(l) : l \in V}
<1> DEFINE H == {l \in U : NameHolds(S, l)}
<1>1. \A l \in X : l \in [neg : BOOLEAN, name : {l.name}]
  BY LiteralsOf
<1>2. \A l \in V : l \in [neg : BOOLEAN, name : {l.name}]
  <2>1. TVlit \in [neg : BOOLEAN, name : {TVlit.name}]
    BY DEF TVlit
  <2>2. \A m \in X : Neg(m) \in [neg : BOOLEAN, name : {Neg(m).name}]
    BY <1>1, NegHolds
  <2> HIDE DEF X
  <2> QED
    BY <1>1, <2>1, <2>2
<1>3. \A l \in V : l \in H <=> Neg(l) \notin H
  <2> SUFFICES ASSUME NEW l \in V PROVE l \in H <=> Neg(l) \notin H
    OBVIOUS
  <2>1. l \in U /\ Neg(l) \in U
    OBVIOUS
  <2>2. NameHolds(S, Neg(l)) <=> ~NameHolds(S, l)
    BY <1>2, NegHolds
  <2> HIDE DEF V, U
  <2> QED
    BY <2>1, <2>2
<1>4. \A l \in V : l \in H <=> NameHolds(S, l)
  OBVIOUS
<1>5. /\ X \subseteq V /\ TVlit \in V
      /\ \A c \in I : c \subseteq V
  <2>1. ASSUME NEW c \in I PROVE c \subseteq V
    <3>1. PICK n \in Negated(Parsed(p)), b \in Distributed(Parsed(q)) : c = n \cup b
      BY DEF ImpliesClauses
    <3>2. b \subseteq V
      BY DistributedLiterals, ParsedLiterals
    <3>3. ASSUME NEW l \in n PROVE l \in V
      <4>1. PICK m \in UNION Rng(p) : l = Neg(m)
        BY CnfLiterals
      <4> QED
        BY <4>1
    <3> HIDE DEF V
    <3> QED
      BY <3>1, <3>2, <3>3
  <2> QED
    BY <2>1
<1> HIDE DEF H, U, V, I
<1>6. (\A c \in I : \E l \in c : l \in H)
        <=> \/ ~\E d \in Rng(p) : \A l \in d : l \in H
            \/ \E d \in Rng(q) : \A l \in d : l \in H
  <2>1. Coherent(UNION Rng(p), H)
    BY <1>3, <1>5 DEF Coherent
  <2>2. Coherent(UNION Rng(q), H)
    BY <1>3, <1>5 DEF Coherent
  <2> HIDE DEF X
  <2>3. AllTrue(ImpliesClauses(p, q), H)
          <=> (SomeTrue(Rng(p), H) => SomeTrue(Rng(q), H))
    BY <2>1, <2>2, ImpliesMeaning
  <2> QED
    BY <2>3 DEF I, AllTrue, SomeTrue
<1>7. /\ TextHolds(S, p) <=> \E d \in Rng(p) : \A l \in d : l \in H
      /\ TextHolds(S, q) <=> \E d \in Rng(q) : \A l \in d : l \in H
  BY <1>4, <1>5 DEF TextHolds
<1>8. TVlit \in H <=> TVname \in S
  <2>1. NameHolds(S, TVlit) <=> TVname \in S
    BY DEF NameHolds, TVlit
  <2> QED
    BY <1>4, <1>5, <2>1
<1>9. (\A c \in G : \E l \in c : l \in H)
        <=> \/ inc /\ TVlit \in H
            \/ \A c \in I : \E l \in c : l \in H
  <2>1. CASE inc
    <3>1. G = {c \cup {TVlit} : c \in I}
      BY <2>1 DEF Added
    <3> HIDE DEF G
    <3>2. \A c \in I : c \cup {TVlit} \in G
      BY <3>1
    <3>3. \A x \in G : \E c \in I : x = c \cup {TVlit}
      BY <3>1
    <3>4. ASSUME \A x \in G : \E l \in x : l \in H, TVlit \notin H, NEW c \in I
          PROVE  \E l \in c : l \in H
      BY <3>2, <3>4
    <3>5. ASSUME TVlit \in H \/ \A c \in I : \E l \in c : l \in H, NEW x \in G
          PROVE  \E l \in x : l \in H
      <4>1. PICK c \in I : x = c \cup {TVlit}
        BY <3>3
      <4> QED
        BY <3>5, <4>1
    <3> QED
      BY <2>1, <3>4, <3>5
  <2>2. CASE ~inc
    <3>1. G = {c \cup {} : c \in I}
      BY <2>2 DEF Added
    <3>2. G = I
      BY <3>1
    <3> QED
      BY <2>2, <3>2
  <2> QED
    BY <2>1, <2>2
<1>10. \A c \in G : c \subseteq V
  BY <1>5 DEF Added
<1> HIDE DEF G
<1>11. (\A c \in Kept(G) : \E l \in c : l \in H)
         <=> (\A c \in G : \E l \in c : l \in H)
  <2>1. \A l \in UNION G : l \in H \/ Neg(l) \in H
    BY <1>3, <1>10
  <2> QED
    BY <2>1, KeptMeaning
<1>12. (\A c \in RuleClauses(p, q, inc) : \E l \in c : NameHolds(S, l))
         <=> (\A c \in Kept(G) : \E l \in c : l \in H)
  <2>1. RuleClauses(p, q, inc) = Kept(G) /\ Kept(G) \subseteq G
    BY DEF RuleClauses, G, I, Kept
  <2> QED
    BY <1>4, <1>10, <2>1
<1> QED
  BY <1>6, <1>7, <1>8, <1>9, <1>11, <1>12

\* The texts of a rule and the clauses they become.
LEMMA RuleParts ==
  ASSUME AtomsInv, Built, NEW r \in DOMAIN transition_constraints
  PROVE  /\ r \in DOMAIN input.transitions /\ incremental \in BOOLEAN
         /\ LET rule == input.transitions[r]
                p == Joined(rule.preconditions)
                e == Joined(rule.effects)
            IN  /\ IsFormula(p) /\ IsFormula(e)
                /\ \A l \in UNION Rng(p) : l.name \in RuleNames(rule)
                /\ \A l \in UNION Rng(e) : l.name \in RuleNames(rule)
                /\ transition_constraints[r] =
                     Written(RuleClauses(p, e, incremental))
<1> DEFINE rule == input.transitions[r]
<1> DEFINE fs == rule.preconditions
<1> DEFINE gs == rule.effects
<1>1. /\ r \in DOMAIN input.transitions /\ incremental \in BOOLEAN
      /\ fs # <<>> /\ gs # <<>> /\ AreFormulas(fs) /\ AreFormulas(gs)
      /\ transition_constraints[r] = RuleFormula(rule, incremental)
  BY InputsAssumption DEF AtomsInv, Built, Parsable
<1>2. transition_constraints[r] =
        Written(RuleClauses(Joined(fs), Joined(gs), incremental))
  BY <1>1 DEF RuleFormula, RuleClauses, Added, TVlit
<1>3. RuleNames(rule) = NamesIn(fs) \cup NamesIn(gs)
  BY DEF RuleNames
<1> HIDE DEF rule, fs, gs
<1>4. /\ IsFormula(Joined(fs)) /\ IsFormula(Joined(gs))
      /\ \A l \in UNION Rng(Joined(fs)) : \E k \in DOMAIN fs : l \in UNION Rng(fs[k])
      /\ \A l \in UNION Rng(Joined(gs)) : \E k \in DOMAIN gs : l \in UNION Rng(gs[k])
  BY <1>1, JoinedFacts
<1>5. /\ \A l \in UNION Rng(Joined(fs)) : l.name \in NamesIn(fs)
      /\ \A l \in UNION Rng(Joined(gs)) : l.name \in NamesIn(gs)
  BY <1>4 DEF NamesIn
<1> QED
  BY <1>1, <1>2, <1>3, <1>4, <1>5 DEF rule, fs, gs

\* The names of a clause of a text, of its negation, or of a rule.
LEMMA ClauseNames ==
  ASSUME NEW f, IsFormula(f)
  PROVE  /\ \A c \in Kept(Distributed(Parsed(f))) : \A l \in c :
              l \in UNION Rng(f) /\ l.name \notin {TrueName, FalseName}
         /\ \A c \in Negated(Parsed(f)) : \A l \in c :
              \E m \in UNION Rng(f) :
                l.name = m.name /\ l.name \notin {TrueName, FalseName}
<1>1. ASSUME NEW c \in Kept(Distributed(Parsed(f))), NEW l \in c
      PROVE  l \in UNION Rng(f) /\ l.name \notin {TrueName, FalseName}
  BY CnfLiterals, LiteralsOf
<1>2. ASSUME NEW c \in Negated(Parsed(f)), NEW l \in c
      PROVE  \E m \in UNION Rng(f) :
               l.name = m.name /\ l.name \notin {TrueName, FalseName}
  <2>1. PICK m \in UNION Rng(f) : l = Neg(m)
    BY CnfLiterals
  <2>2. m \in [neg : BOOLEAN, name : {m.name}] /\ m.name \notin {TrueName, FalseName}
    BY LiteralsOf
  <2>3. l.name = m.name
    BY <2>1, <2>2, NegHolds
  <2> QED
    BY <2>2, <2>3
<1> QED
  BY <1>1, <1>2

\* The literals of the constraints: the model's names, never in an empty
\* clause, and the temporal atom in the rules, or one constant.
LEMMA ConstraintNames ==
  ASSUME AtomsInv, Built
  PROVE  /\ \A c \in UNION initial_state_constraints :
              \/ \E x \in Constants : c = {x}
              \/ \A l \in c : l.name \in NamesUsed(input)
         /\ \A r \in DOMAIN transition_constraints :
              \A c \in transition_constraints[r] :
                \/ \E x \in Constants : c = {x}
                \/ \A l \in c : l.name \in NamesUsed(input) \/ (incremental /\ l = TVlit)
         /\ \A c \in safety_violation_constraints :
              /\ c # {}
              /\ \/ \E x \in Constants : c = {x}
                 \/ \A l \in c : l.name \in NamesUsed(input)
<1>0. /\ input \in Inputs /\ AreFormulas(input.init) /\ AreFormulas(input.safety)
  BY InputsAssumption DEF AtomsInv
<1>1. ASSUME NEW fs, NEW k \in DOMAIN fs, NEW l \in UNION Rng(fs[k])
      PROVE  l.name \in NamesIn(fs)
  BY DEF NamesIn
<1>2. ASSUME NEW c \in UNION initial_state_constraints
      PROVE  \/ \E x \in Constants : c = {x}
             \/ \A l \in c : l.name \in NamesUsed(input)
  <2>1. PICK k \in DOMAIN input.init : c \in ToCnf(input.init[k])
    BY DEF Built
  <2>2. IsFormula(input.init[k])
    BY <1>0 DEF AreFormulas
  <2>3. \/ \E x \in Constants : c = {x}
        \/ c \in Kept(Distributed(Parsed(input.init[k])))
    BY <2>1, WrittenClauses DEF ToCnf
  <2>4. ASSUME c \in Kept(Distributed(Parsed(input.init[k]))), NEW l \in c
        PROVE  l.name \in NamesUsed(input)
    <3>1. l \in UNION Rng(input.init[k])
      BY <2>2, <2>4, ClauseNames
    <3>2. l.name \in NamesIn(input.init)
      BY <1>1, <3>1
    <3> QED
      BY <3>2 DEF NamesUsed
  <2> QED
    BY <2>3, <2>4
<1>3. ASSUME NEW c \in safety_violation_constraints
      PROVE  /\ c # {}
             /\ \/ \E x \in Constants : c = {x}
                \/ \A l \in c : l.name \in NamesUsed(input)
  <2>1. PICK k \in DOMAIN input.safety : c \in ToCnfOfNot(input.safety[k])
    BY DEF Built
  <2>2. IsFormula(input.safety[k])
    BY <1>0 DEF AreFormulas
  <2>3. /\ c # {}
        /\ \/ \E x \in Constants : c = {x}
           \/ c \in Negated(Parsed(input.safety[k]))
    BY <2>1, WrittenClauses DEF ToCnfOfNot
  <2>4. ASSUME c \in Negated(Parsed(input.safety[k])), NEW l \in c
        PROVE  l.name \in NamesUsed(input)
    <3>1. \E m \in UNION Rng(input.safety[k]) : l.name = m.name
      BY <2>2, <2>4, ClauseNames
    <3>2. l.name \in NamesIn(input.safety)
      BY <1>1, <3>1
    <3> QED
      BY <3>2 DEF NamesUsed
  <2> QED
    BY <2>3, <2>4
<1>4. ASSUME NEW r \in DOMAIN transition_constraints,
             NEW c \in transition_constraints[r]
      PROVE  \/ \E x \in Constants : c = {x}
             \/ \A l \in c : l.name \in NamesUsed(input) \/ (incremental /\ l = TVlit)
  <2> DEFINE p == Joined(input.transitions[r].preconditions)
  <2> DEFINE e == Joined(input.transitions[r].effects)
  <2>1. /\ r \in DOMAIN input.transitions
        /\ IsFormula(p) /\ IsFormula(e)
        /\ \A l \in UNION Rng(p) : l.name \in RuleNames(input.transitions[r])
        /\ \A l \in UNION Rng(e) : l.name \in RuleNames(input.transitions[r])
        /\ transition_constraints[r] = Written(RuleClauses(p, e, incremental))
    BY RuleParts
  <2>2. RuleNames(input.transitions[r]) \subseteq NamesUsed(input)
    BY <2>1 DEF NamesUsed, RuleNames
  <2> HIDE DEF p, e
  <2>3. (\E x \in Constants : c = {x}) \/ c \in RuleClauses(p, e, incremental)
    BY <2>1, WrittenClauses
  <2>4. ASSUME c \in RuleClauses(p, e, incremental), NEW l \in c
        PROVE  l.name \in NamesUsed(input) \/ (incremental /\ l = TVlit)
    <3>1. \/ l \in UNION Rng(e) \/ l \in Added(incremental)
          \/ \E m \in UNION Rng(p) : l = Neg(m)
      BY <2>4, RuleLiterals
    <3>2. ASSUME NEW m \in UNION Rng(p), l = Neg(m) PROVE l.name = m.name
      BY <2>1, <3>2, LiteralsOf, NegHolds
    <3>3. CASE l \in Added(incremental)
      BY <3>3 DEF Added
    <3> QED
      BY <2>1, <2>2, <3>1, <3>2, <3>3
  <2> QED
    BY <2>3, <2>4
<1> QED
  BY <1>2, <1>3, <1>4

\* The temporal atom is not named by a plain model.
LEMMA TVNotUsed ==
  ASSUME Plain(input)
  PROVE  TVname \notin NamesUsed(input)
<1> SUFFICES ASSUME TVname \in NamesUsed(input) PROVE FALSE
  OBVIOUS
<1>1. PICK k \in DOMAIN input.states :
        TVname \in IF input.states[k].type = "boolean" THEN {input.states[k].symbol}
                   ELSE {Append(input.states[k].symbol, input.states[k].domain[i]) :
                           i \in DOMAIN input.states[k].domain}
  BY DEF Plain, Rng
<1> DEFINE sym == input.states[k].symbol
<1>2. sym \in Symbols(input) /\ TVname \notin Symbols(input)
  BY DEF Symbols, Plain, Distinct
<1>3. PICK s : sym = <<s>>
  BY <1>2 DEF Plain
<1>4. PICK v : TVname = Append(<<s>>, v)
  BY <1>1, <1>2, <1>3
<1>5. TVname = <<s, v>>
  BY <1>4, ShortSequences
<1>6. Len(TVname) = 1 /\ Len(<<s, v>>) = 2
  BY DEF TVname
<1> QED
  BY <1>5, <1>6

\* In a plain model without constant formulas nothing is folded away.
LEMMA NoConstantClause ==
  ASSUME AtomsInv, Built, Plain(input), incremental, NothingConstant(input)
  PROVE  /\ \A c \in UNION initial_state_constraints :
              \A l \in c : l.name \in NamesUsed(input)
         /\ \A r \in DOMAIN transition_constraints :
              \A c \in transition_constraints[r] : \A l \in c :
                l.name \in NamesUsed(input) \/ l = TVlit
         /\ \A c \in safety_violation_constraints :
              \A l \in c : l.name \in NamesUsed(input)
<1>0. /\ input \in Inputs /\ AreFormulas(input.init) /\ AreFormulas(input.safety)
      /\ \A x \in Constants : x.name \in {TrueName, FalseName}
  BY InputsAssumption DEF AtomsInv, Constants
<1>1. ASSUME NEW f, IsFormula(f), Contingent(f)
      PROVE  /\ ToCnf(f) = Kept(Distributed(Parsed(f)))
             /\ ToCnfOfNot(f) = Negated(Parsed(f))
  <2>1. PICK S : TextHolds(S, f)
    BY <1>1 DEF Contingent
  <2>2. PICK T : ~TextHolds(T, f)
    BY <1>1 DEF Contingent
  <2>3. {} \notin Kept(Distributed(Parsed(f))) /\ Negated(Parsed(f)) # {}
    BY <1>1, <2>1, CnfHolds
  <2>4. {} \notin Negated(Parsed(f)) /\ Kept(Distributed(Parsed(f))) # {}
    BY <1>1, <2>2, CnfHolds
  <2> QED
    BY <2>3, <2>4 DEF ToCnf, ToCnfOfNot, Written
<1>2. ASSUME NEW c \in UNION initial_state_constraints, NEW x \in Constants
      PROVE  c # {x}
  <2>1. PICK k \in DOMAIN input.init : c \in ToCnf(input.init[k])
    BY DEF Built
  <2>2. IsFormula(input.init[k]) /\ Contingent(input.init[k])
    BY <1>0 DEF AreFormulas, NothingConstant
  <2>3. \A l \in c : l.name \notin {TrueName, FalseName}
    BY <1>1, <2>1, <2>2, ClauseNames
  <2> QED
    BY <1>0, <2>3
<1>3. ASSUME NEW c \in safety_violation_constraints, NEW x \in Constants
      PROVE  c # {x}
  <2>1. PICK k \in DOMAIN input.safety : c \in ToCnfOfNot(input.safety[k])
    BY DEF Built
  <2>2. IsFormula(input.safety[k]) /\ Contingent(input.safety[k])
    BY <1>0 DEF AreFormulas, NothingConstant
  <2>3. \A l \in c : l.name \notin {TrueName, FalseName}
    BY <1>1, <2>1, <2>2, ClauseNames
  <2> QED
    BY <1>0, <2>3
<1>4. ASSUME NEW r \in DOMAIN transition_constraints,
             NEW c \in transition_constraints[r], NEW x \in Constants
      PROVE  c # {x}
  <2> DEFINE rule == input.transitions[r]
  <2> DEFINE p == Joined(rule.preconditions)
  <2> DEFINE e == Joined(rule.effects)
  <2> DEFINE F == RuleClauses(p, e, incremental)
  <2>1. /\ r \in DOMAIN input.transitions /\ IsFormula(p) /\ IsFormula(e)
        /\ transition_constraints[r] = Written(F)
    BY RuleParts
  <2>2. PICK S \in SUBSET RuleNames(rule) : TextHolds(S, p) /\ ~TextHolds(S, e)
    BY <2>1 DEF NothingConstant, Breakable
  <2>3. RuleNames(rule) \subseteq NamesUsed(input)
    BY <2>1 DEF NamesUsed, RuleNames
  <2>4. TVname \notin S
    BY <2>2, <2>3, TVNotUsed
  <2> HIDE DEF rule, p, e
  <2>5. F # {}
    BY <2>1, <2>2, <2>4, RuleHolds
  <2>6. \A d \in F : TVlit \in d
    BY RuleLiterals DEF Added
  <2>7. Written(F) = F
    BY <2>5, <2>6 DEF Written
  <2>8. TVlit \in c
    BY <2>1, <2>6, <2>7
  <2>9. TVlit \notin Constants
    <3>1. TVlit.name = TVname /\ TVname # TrueName /\ TVname # FalseName
      BY DEF TVlit, TVname, TrueName, FalseName
    <3> QED
      BY <1>0, <3>1
  <2> QED
    BY <2>8, <2>9
<1> QED
  BY <1>2, <1>3, <1>4, ConstraintNames

\* A constant is not in the numbering of a model with distinct declarations,
\* and the text of the safety constraints has it in the step asked for.
LEMMA ConstantUnknown ==
  ASSUME NumberedInv, NumberingDone, NEW t, NEW x \in Constants
  PROVE  /\ TimedInfo(x, t).t = t
         /\ Distinct(input) => /\ ~Resolves(x.name, t)
                               /\ TimedKey(x, t) \notin DOMAIN state_to_cnf_vars
<1>0. AtomsInv /\ EntriesInv /\ pc # "create_state_atoms"
  BY DEF NumberedInv, NumberingDone
<1>1. PICK s : x.name = <<s>> /\ s \in {"True", "False"}
  BY DEF Constants, TrueName, FalseName
<1>2. /\ remove_domain_val(x.name) = x.name
      /\ TimedInfo(x, t) = [key |-> <<<<s>>, None>>, t |-> t]
  <2>1. Append(<<s>>, t) = <<s, t>>
    BY ShortSequences
  <2>2. TimedInfo(x, t) = extract_atom_info(<<s, t>>)
    BY <1>1, <2>1 DEF TimedInfo
  <2>3. extract_atom_info(<<s, t>>) = [key |-> <<<<s>>, None>>, t |-> t]
    BY DEF extract_atom_info
  <2>4. remove_domain_val(<<s>>) = <<s>>
    BY ShortSequences DEF remove_domain_val
  <2> QED
    BY <1>1, <2>2, <2>3, <2>4
<1>3. ASSUME Distinct(input)
      PROVE  \A k \in DOMAIN state_atoms :
               state_atoms[k].symbol # <<s>> /\ IsSequence(state_atoms[k].domain)
  <2>1. /\ input \in Inputs /\ incremental \in BOOLEAN
        /\ state_atoms = AtomsOf(input, incremental)
    BY <1>0, InputsAssumption DEF AtomsInv
  <2>2. /\ \A k \in DOMAIN input.states : state_atoms[k] = input.states[k]
        /\ \A k \in DOMAIN state_atoms :
             k \notin DOMAIN input.states => state_atoms[k] = TemporalAtom
        /\ \A k \in DOMAIN state_atoms : IsSequence(state_atoms[k].domain)
    BY <2>1, AtomsFacts
  <2>3. \A k \in DOMAIN input.states : input.states[k].symbol # <<s>>
    BY <1>1, <1>3 DEF Distinct, Symbols, TrueName, FalseName
  <2>4. TemporalAtom.symbol # <<s>>
    <3>1. TemporalAtom.symbol = <<"TV">>
      BY DEF TemporalAtom, TVname
    <3>2. "TV" # s
      BY <1>1
    <3> QED
      BY <3>1, <3>2
  <2> QED
    BY <2>2, <2>3, <2>4
<1>4. ASSUME Distinct(input) PROVE ~Resolves(x.name, t)
  <2>1. <<s>> \notin DOMAIN symbol_atom_map
    BY <1>0, <1>3, <1>4 DEF AtomsInv, TypesOf
  <2> QED
    BY <1>1, <1>2, <2>1 DEF Resolves
<1>5. ASSUME Distinct(input), TimedKey(x, t) \in DOMAIN state_to_cnf_vars
      PROVE  FALSE
  <2> DEFINE y == <<<<s>>, None>>
  <2>1. TimedKey(x, t) = <<t>> \o y
    BY <1>2 DEF TimedKey
  <2>2. PICK u \in 0..steps, n \in DOMAIN FrameSlots :
          FrameSlots[n] # <<>> /\ TimedKey(x, t) = <<u>> \o FrameSlots[n]
    BY <1>0, <1>5 DEF EntriesInv
  <2> DEFINE z == FrameSlots[n]
  <2>3. /\ z = <<z[1], z[2]>>
        /\ \E k \in DOMAIN state_atoms : In(z, AtomSlots(state_atoms[k]))
    BY <1>0, <2>2, StateSlots
  <2>4. z[1] # <<s>>
    <3>1. PICK k \in DOMAIN state_atoms : In(z, AtomSlots(state_atoms[k]))
      BY <2>3
    <3> HIDE DEF z
    <3>2. z[1] = state_atoms[k].symbol
      BY <1>3, <1>5, <3>1, SlotPair
    <3> QED
      BY <1>3, <1>5, <3>2
  <2>5. y = <<y[1], y[2]>> /\ y[1] = <<s>>
    OBVIOUS
  <2>6. <<t>> \o y = <<u>> \o z
    BY <2>1, <2>2
  <2>7. z = <<z[1], z[2]>>
    BY <2>3
  <2> HIDE DEF y, z
  <2>8. y = z
    BY <2>5, <2>6, <2>7, KeyInjective
  <2> QED
    BY <2>4, <2>5, <2>8
<1> QED
  BY <1>2, <1>4, <1>5

-----------------------------------------------------------------------------
(* The clauses. *)

\* The clause c is switched on by step t and speaks of step t only.
Local(c, t) ==
  /\ -temporal_bool_vars[t] \in c
  /\ \A l \in c : VarOf(l) \in FrameVars(t)

\* The sign does not change the variable.
LEMMA SignedVariable ==
  ASSUME NEW n \in Nat, NEW v \in 1..n, NEW l
  PROVE  VarOf(Signed(l, v)) = v /\ Signed(l, v) \in LitsOf(n)
<1>1. VarOf(v) = v /\ VarOf(-v) = v /\ v \in LitsOf(n) /\ -v \in LitsOf(n)
  BY DEF VarOf, LitsOf
<1> QED
  BY <1>1 DEF Signed

\* An entry found under a step's key belongs to that step.
LEMMA EntryOfStep ==
  ASSUME NumberedInv, NEW t, NEW x, x = <<x[1], x[2]>>,
         <<t>> \o x \in DOMAIN state_to_cnf_vars
  PROVE  /\ t \in 0..steps /\ idx \in Nat
         /\ state_to_cnf_vars[<<t>> \o x] \in 1..idx
         /\ state_to_cnf_vars[<<t>> \o x] \in FrameVars(t)
<1> DEFINE key == <<t>> \o x
<1>0. key[1] = t
  BY KeyFacts
<1>1. pc # "create_state_atoms"
  BY DEF NumberedInv, PositionInv, Preparing
<1>2. PICK u \in 0..steps, s \in DOMAIN FrameSlots :
        FrameSlots[s] # <<>> /\ key = <<u>> \o FrameSlots[s]
  BY DEF NumberedInv, EntriesInv
<1> DEFINE y == FrameSlots[s]
<1>3. y = <<y[1], y[2]>>
  BY <1>1, <1>2, StateSlots DEF NumberedInv
<1>4. t = u
  <2>1. <<t>> \o x = <<u>> \o y
    BY <1>2
  <2> HIDE DEF y
  <2> QED
    BY <1>3, <2>1, KeyInjective
<1>5. state_to_cnf_vars[key] \in 1..idx /\ idx \in Nat
  BY DEF NumberedInv, NumberingInv, NoVariableShared
<1>6. state_to_cnf_vars[key] \in FrameVars(t)
  <2>1. key \in {k \in DOMAIN state_to_cnf_vars : k[1] = t}
    BY <1>0
  <2> HIDE DEF key
  <2> QED
    BY <2>1 DEF FrameVars
<1> QED
  BY <1>2, <1>4, <1>5, <1>6

\* Every step has its activation variable.
LEMMA ActivationKnown ==
  ASSUME NumberedInv, NumberingDone, incremental, NEW t \in 0..steps
  PROVE  /\ t \in DOMAIN temporal_bool_vars /\ idx \in Nat
         /\ temporal_bool_vars[t] \in 1..idx
         /\ temporal_bool_vars[t] \in FrameVars(t)
         /\ -temporal_bool_vars[t] \in LitsOf(idx)
         /\ VarOf(-temporal_bool_vars[t]) = temporal_bool_vars[t]
<1>0. AtomsInv /\ PositionInv /\ EntriesInv /\ pc # "create_state_atoms"
  BY DEF NumberedInv, NumberingDone
<1>1. steps \in Int /\ frame \in Nat /\ FrameSlots # <<>>
  <2>1. 1 \in DOMAIN FrameSlots
    BY <1>0, StateSlots
  <2> QED
    BY <1>0, <2>1, StateSlots DEF PositionInv
<1>2. frame > steps
  BY <1>0, <1>1 DEF PositionInv
<1>3. t \in 0..frame /\ Allocated(t, 1)
  BY <1>1, <1>2 DEF Allocated
<1>4. t \in DOMAIN temporal_bool_vars
  BY <1>0, <1>3 DEF EntriesInv
<1>5. temporal_bool_vars[t] \in 1..idx /\ idx \in Nat
  BY <1>4 DEF NumberedInv, NumberingInv, NoVariableShared
<1>6. temporal_bool_vars[t] \in FrameVars(t)
  BY <1>4 DEF FrameVars
<1>7. /\ -temporal_bool_vars[t] \in LitsOf(idx)
      /\ VarOf(-temporal_bool_vars[t]) = temporal_bool_vars[t]
  BY <1>5 DEF LitsOf, VarOf
<1> QED
  BY <1>4, <1>5, <1>6, <1>7

\* A clause translated at step t is local to it.
LEMMA TranslatedLocal ==
  ASSUME NumberedInv, NumberingDone, incremental, NEW t \in 0..steps,
         NEW c, \A l \in c : Resolves(l.name, t)
  PROVE  /\ Local(Activated(t, get_cnf_clause(c, t)), t)
         /\ Activated(t, get_cnf_clause(c, t)) \subseteq LitsOf(idx)
<1> DEFINE d == Activated(t, get_cnf_clause(c, t))
<1>1. d = {-temporal_bool_vars[t]} \cup get_cnf_clause(c, t)
  BY DEF Activated
<1>2. ASSUME NEW k \in get_cnf_clause(c, t)
      PROVE  k \in LitsOf(idx) /\ VarOf(k) \in FrameVars(t)
  <2>1. PICK l \in c :
          k = Signed(l, state_to_cnf_vars[<<t>> \o MapKey(l.name)])
    BY DEF get_cnf_clause
  <2> DEFINE x == MapKey(l.name)
  <2>2. x = <<x[1], x[2]>>
    BY DEF MapKey
  <2>3. <<t>> \o x \in DOMAIN state_to_cnf_vars
    BY DEF Resolves
  <2> HIDE DEF x
  <2>4. /\ state_to_cnf_vars[<<t>> \o x] \in 1..idx /\ idx \in Nat
        /\ state_to_cnf_vars[<<t>> \o x] \in FrameVars(t)
    BY <2>2, <2>3, EntryOfStep
  <2> QED
    BY <2>1, <2>4, SignedVariable DEF x
<1> HIDE DEF d
<1>3. Local(d, t)
  BY <1>1, <1>2, ActivationKnown DEF Local
<1>4. d \subseteq LitsOf(idx)
  BY <1>1, <1>2, ActivationKnown
<1> QED
  BY <1>3, <1>4 DEF d

\* A safety violation clause has variables of the numbering, and in a plain
\* model those of its own step.
LEMMA SafetyLocal ==
  ASSUME NumberedInv, NumberingDone, incremental, NEW t \in 0..steps,
         NEW c, c # {}, \A l \in c : TimedKey(l, t) \in DOMAIN state_to_cnf_vars
  PROVE  /\ SafetyClause(c, t) \subseteq LitsOf(idx)
         /\ (\A l \in c : TimedInfo(l, t).t = t) => Local(SafetyClause(c, t), t)
<1> DEFINE first == CHOOSE l \in c : TRUE
<1> DEFINE d == SafetyClause(c, t)
<1> DEFINE u == TimedInfo(first, t).t
<1>1. first \in c
  OBVIOUS
<1>2. d = {-temporal_bool_vars[u]} \cup
            {Signed(l, state_to_cnf_vars[TimedKey(l, t)]) : l \in c}
  BY DEF SafetyClause, Activated
<1> HIDE DEF first
<1>3. ASSUME NEW l \in c
      PROVE  /\ TimedInfo(l, t).t \in 0..steps /\ idx \in Nat
             /\ state_to_cnf_vars[TimedKey(l, t)] \in 1..idx
             /\ state_to_cnf_vars[TimedKey(l, t)] \in FrameVars(TimedInfo(l, t).t)
  <2> DEFINE x == TimedInfo(l, t).key
  <2> DEFINE w == TimedInfo(l, t).t
  <2>1. x = <<x[1], x[2]>>
    BY DEF TimedInfo, extract_atom_info
  <2>2. TimedKey(l, t) = <<w>> \o x
    BY DEF TimedKey
  <2> HIDE DEF x, w
  <2>3. /\ w \in 0..steps /\ idx \in Nat
        /\ state_to_cnf_vars[<<w>> \o x] \in 1..idx
        /\ state_to_cnf_vars[<<w>> \o x] \in FrameVars(w)
    BY <2>1, <2>2, EntryOfStep
  <2> QED
    BY <2>2, <2>3 DEF w
<1>4. u \in 0..steps
  BY <1>1, <1>3
<1> HIDE DEF u, d
<1>5. -temporal_bool_vars[u] \in LitsOf(idx)
  BY <1>4, ActivationKnown
<1>6. d \subseteq LitsOf(idx)
  <2> SUFFICES ASSUME NEW k \in d PROVE k \in LitsOf(idx)
    OBVIOUS
  <2>1. ASSUME NEW l \in c, k = Signed(l, state_to_cnf_vars[TimedKey(l, t)])
        PROVE  k \in LitsOf(idx)
    BY <1>3, <2>1, SignedVariable
  <2> QED
    BY <1>2, <1>5, <2>1
<1>7. ASSUME \A l \in c : TimedInfo(l, t).t = t
      PROVE  Local(d, t)
  <2>1. u = t
    BY <1>1, <1>7 DEF u
  <2>2. ASSUME NEW k \in d PROVE VarOf(k) \in FrameVars(t)
    <3>1. ASSUME NEW l \in c, k = Signed(l, state_to_cnf_vars[TimedKey(l, t)])
          PROVE  VarOf(k) \in FrameVars(t)
      <4> DEFINE v == state_to_cnf_vars[TimedKey(l, t)]
      <4>1. v \in 1..idx /\ idx \in Nat /\ v \in FrameVars(t)
        BY <1>3, <1>7
      <4>2. VarOf(Signed(l, v)) = v
        <5> HIDE DEF v
        <5> QED
          BY <4>1, SignedVariable
      <4> QED
        BY <3>1, <4>1, <4>2
    <3>2. CASE k = -temporal_bool_vars[t]
      BY <3>2, ActivationKnown
    <3> QED
      BY <1>2, <2>1, <3>1, <3>2
  <2>3. -temporal_bool_vars[t] \in d
    BY <1>2, <2>1
  <2> QED
    BY <2>2, <2>3 DEF Local
<1> QED
  BY <1>6, <1>7 DEF d

\* The clauses of each part of the formula.
InitialClauses ==
  {Activated(0, get_cnf_clause(c, 0)) : c \in UNION initial_state_constraints}

AllTransitionClauses == UNION {TransitionClauses(t) : t \in 0..steps}

SafetyClauses ==
  {SafetyClause(c, t) : t \in 0..steps, c \in safety_violation_constraints}

\* The clauses of every method that is over, each local to its step.
ClausesInv ==
  /\ pc \in {"create_state_atoms", "build_constraints",
             "build_state_to_cnf_vars", "build_initial_state_cnf",
             "build_transition_cnf", "build_safety_violation_cnf",
             "save_to_file", "returned", "raised"}
  /\ pc \in {"create_state_atoms", "build_constraints",
             "build_state_to_cnf_vars", "build_initial_state_cnf"} =>
       cnf_clauses = {}
  /\ pc \in {"build_transition_cnf", "build_safety_violation_cnf",
             "save_to_file", "returned"} => 0 \in DOMAIN temporal_bool_vars
  /\ pc = "build_transition_cnf" => cnf_clauses = InitialClauses
  /\ pc = "build_safety_violation_cnf" =>
       cnf_clauses = InitialClauses \cup AllTransitionClauses
  /\ pc \in {"save_to_file", "returned"} =>
       cnf_clauses = (InitialClauses \cup AllTransitionClauses) \cup SafetyClauses
  /\ cnf_clauses \subseteq SUBSET LitsOf(idx)
  /\ FrameLocality

\* Every literal of a constraint is in the numbering of step 0.
InitialResolved ==
  \A c \in UNION initial_state_constraints : \A l \in c : Resolves(l.name, 0)

TransitionsResolved ==
  \A r \in DOMAIN transition_constraints :
    \A c \in transition_constraints[r] : \A l \in c : Resolves(l.name, 0)

SafetyResolved ==
  \A c \in safety_violation_constraints :
    \A l \in c : TimedKey(l, 0) \in DOMAIN state_to_cnf_vars

\* A method that is over has found all the literals it looked up.
ResolvedInv ==
  /\ pc \in {"build_transition_cnf", "build_safety_violation_cnf",
             "save_to_file", "returned"} => InitialResolved
  /\ pc \in {"build_safety_violation_cnf", "save_to_file", "returned"} =>
       TransitionsResolved
  /\ pc \in {"save_to_file", "returned"} => SafetyResolved

\* A plain model without constant formulas raises nothing.
AcceptedInv ==
  Plain(input) /\ incremental /\ steps >= 0 /\ NothingConstant(input) =>
    pc # "raised"

\* The inductive invariant of the encoder.
EncodedInv ==
  NumberedInv /\ ConstraintsInv /\ ClausesInv /\ ResolvedInv /\ AcceptedInv

\* What is built from constraints and numbering is kept while they are.
LEMMA ClausesFrozen ==
  ASSUME UNCHANGED <<args, atoms, constraints, numbering>>
  PROVE  /\ InitialClauses' = InitialClauses
         /\ AllTransitionClauses' = AllTransitionClauses
         /\ SafetyClauses' = SafetyClauses
         /\ \A c, t : Local(c, t)' <=> Local(c, t)
         /\ InitialResolved' = InitialResolved
         /\ TransitionsResolved' = TransitionsResolved
         /\ SafetyResolved' = SafetyResolved
         /\ idx' = idx /\ temporal_bool_vars' = temporal_bool_vars
         /\ input' = input /\ steps' = steps /\ incremental' = incremental
<1>0. /\ input' = input /\ steps' = steps /\ incremental' = incremental
      /\ symbol_atom_map' = symbol_atom_map
      /\ initial_state_constraints' = initial_state_constraints
      /\ transition_constraints' = transition_constraints
      /\ safety_violation_constraints' = safety_violation_constraints
      /\ idx' = idx /\ temporal_bool_vars' = temporal_bool_vars
      /\ state_to_cnf_vars' = state_to_cnf_vars
  BY DEF args, atoms, constraints, numbering
<1>1. InitialClauses' = InitialClauses
  BY <1>0 DEF InitialClauses, Activated, get_cnf_clause, MapKey
<1>2. AllTransitionClauses' = AllTransitionClauses
  BY <1>0 DEF AllTransitionClauses, TransitionClauses, Activated,
     get_cnf_clause, MapKey
<1>3. SafetyClauses' = SafetyClauses
  BY <1>0 DEF SafetyClauses, SafetyClause, Activated
<1>4. \A c, t : Local(c, t)' <=> Local(c, t)
  BY <1>0 DEF Local, FrameVars
<1>5. /\ InitialResolved' = InitialResolved
      /\ TransitionsResolved' = TransitionsResolved
      /\ SafetyResolved' = SafetyResolved
  BY <1>0 DEF InitialResolved, TransitionsResolved, SafetyResolved, Resolves, MapKey
<1> QED
  BY <1>0, <1>1, <1>2, <1>3, <1>4, <1>5

\* Locality of every clause, in the words of the lemmas above.
LEMMA LocalityMeans ==
  FrameLocality <=>
    (Plain(input) => \A c \in cnf_clauses : \E t \in 0..steps : Local(c, t))
BY DEF FrameLocality, Local

\* The encoding is the incremental one when step 0 has an activation variable.
LEMMA HasActivation ==
  ASSUME NumberedInv, 0 \in DOMAIN temporal_bool_vars
  PROVE  incremental /\ 0 \in 0..steps /\ steps \in Int /\ steps >= 0
<1>1. incremental /\ 0 \in 0..steps
  BY DEF NumberedInv, EntriesInv
<1>2. steps \in Int
  BY InputsAssumption DEF NumberedInv, AtomsInv
<1> QED
  BY <1>1, <1>2

\* build_initial_state_cnf.
LEMMA InitialStep ==
  ASSUME EncodedInv, BuildInitialStateCnf
  PROVE  ClausesInv' /\ ResolvedInv' /\ AcceptedInv'
<1>0. /\ pc = "build_initial_state_cnf" /\ NumberedInv /\ Built /\ NumberingDone
      /\ AtomsInv /\ steps \in Int
      /\ UNCHANGED <<args, atoms, constraints, numbering>> /\ cnf_clauses = {}
  BY InputsAssumption DEF BuildInitialStateCnf, EncodedInv, ConstraintsInv,
     Preparing, NumberingDone, ClausesInv, NumberedInv, AtomsInv
<1> DEFINE Ok == /\ 0 \in DOMAIN temporal_bool_vars
                 /\ \A c \in UNION initial_state_constraints :
                      \A l \in c : Resolves(l.name, 0)
<1>1. /\ InitialClauses' = InitialClauses
      /\ \A c, t : Local(c, t)' <=> Local(c, t)
      /\ InitialResolved' = InitialResolved
      /\ TransitionsResolved' = TransitionsResolved
      /\ SafetyResolved' = SafetyResolved
      /\ idx' = idx /\ temporal_bool_vars' = temporal_bool_vars
      /\ input' = input /\ steps' = steps /\ incremental' = incremental
  BY <1>0, ClausesFrozen
<1>2. CASE Ok
  <2>1. cnf_clauses' = InitialClauses /\ pc' = "build_transition_cnf"
    BY <1>2 DEF BuildInitialStateCnf, InitialClauses
  <2>2. incremental /\ 0 \in 0..steps
    BY <1>0, <1>2, HasActivation
  <2>3. ASSUME NEW d \in InitialClauses
        PROVE  d \subseteq LitsOf(idx) /\ Local(d, 0)
    <3>1. PICK c \in UNION initial_state_constraints :
            d = Activated(0, get_cnf_clause(c, 0))
      BY DEF InitialClauses
    <3>2. \A l \in c : Resolves(l.name, 0)
      BY <1>2
    <3> QED
      BY <1>0, <2>2, <3>1, <3>2, TranslatedLocal
  <2>4. FrameLocality'
    <3>1. \A c \in cnf_clauses' : \E t \in 0..steps' : Local(c, t)'
      BY <1>1, <2>1, <2>2, <2>3
    <3> QED
      BY <3>1, LocalityMeans DEF FrameLocality, Local
  <2>5. cnf_clauses' \subseteq SUBSET LitsOf(idx')
    BY <1>1, <2>1, <2>3
  <2>6. InitialResolved'
    BY <1>1, <1>2 DEF InitialResolved
  <2> QED
    BY <1>1, <1>2, <2>1, <2>4, <2>5, <2>6 DEF ClausesInv, ResolvedInv, AcceptedInv
<1>3. CASE ~Ok
  <2>1. cnf_clauses' = {} /\ pc' = "raised"
    BY <1>0, <1>3 DEF BuildInitialStateCnf, Raise
  <2>2. FrameLocality'
    BY <2>1 DEF FrameLocality
  <2>3. ASSUME Plain(input), incremental, steps >= 0, NothingConstant(input)
        PROVE  FALSE
    <3>1. 0 \in 0..steps
      BY <1>0, <2>3
    <3>2. 0 \in DOMAIN temporal_bool_vars
      BY <1>0, <2>3, <3>1, ActivationKnown
    <3>3. \A c \in UNION initial_state_constraints : \A l \in c :
            Resolves(l.name, 0)
      BY <1>0, <2>3, <3>1, NoConstantClause, NameResolves
    <3> QED
      BY <1>3, <3>2, <3>3
  <2>4. AcceptedInv'
    BY <1>1, <2>3 DEF AcceptedInv
  <2> QED
    BY <2>1, <2>2, <2>4 DEF ClausesInv, ResolvedInv
<1> QED
  BY <1>2, <1>3

\* build_transition_cnf.
LEMMA TransitionStep ==
  ASSUME EncodedInv, BuildTransitionCnf
  PROVE  ClausesInv' /\ ResolvedInv' /\ AcceptedInv'
<1>0. /\ pc = "build_transition_cnf" /\ NumberedInv /\ Built /\ NumberingDone
      /\ AtomsInv /\ 0 \in DOMAIN temporal_bool_vars
      /\ UNCHANGED <<args, atoms, constraints, numbering>>
      /\ cnf_clauses = InitialClauses /\ cnf_clauses \subseteq SUBSET LitsOf(idx)
      /\ FrameLocality
  BY DEF BuildTransitionCnf, EncodedInv, ConstraintsInv, Preparing,
     NumberingDone, ClausesInv, NumberedInv
<1> DEFINE Ok == \A t \in 0..steps, r \in DOMAIN transition_constraints :
                   \A c \in transition_constraints[r] :
                     \A l \in c : Resolves(l.name, t)
<1>1. /\ InitialClauses' = InitialClauses
      /\ AllTransitionClauses' = AllTransitionClauses
      /\ \A c, t : Local(c, t)' <=> Local(c, t)
      /\ InitialResolved' = InitialResolved
      /\ TransitionsResolved' = TransitionsResolved
      /\ SafetyResolved' = SafetyResolved
      /\ idx' = idx /\ temporal_bool_vars' = temporal_bool_vars
      /\ input' = input /\ steps' = steps /\ incremental' = incremental
  BY <1>0, ClausesFrozen
<1>2. incremental
  BY <1>0, HasActivation
<1>3. CASE Ok
  <2>1. /\ cnf_clauses' = cnf_clauses \cup AllTransitionClauses
        /\ pc' = "build_safety_violation_cnf"
    BY <1>3 DEF BuildTransitionCnf, AllTransitionClauses
  <2>2. ASSUME NEW d \in AllTransitionClauses
        PROVE  d \subseteq LitsOf(idx) /\ \E t \in 0..steps : Local(d, t)
    <3>1. PICK t \in 0..steps : d \in TransitionClauses(t)
      BY DEF AllTransitionClauses
    <3>2. PICK r \in DOMAIN transition_constraints :
            \E c \in transition_constraints[r] :
              d = Activated(t, get_cnf_clause(c, t))
      BY <1>2, <3>1 DEF TransitionClauses
    <3>3. PICK c \in transition_constraints[r] :
            d = Activated(t, get_cnf_clause(c, t))
      BY <3>2
    <3>4. \A l \in c : Resolves(l.name, t)
      BY <1>3
    <3> QED
      BY <1>0, <1>2, <3>3, <3>4, TranslatedLocal
  <2>3. FrameLocality'
    <3>1. Plain(input) => \A c \in cnf_clauses : \E t \in 0..steps : Local(c, t)
      BY <1>0, LocalityMeans
    <3>2. Plain(input)' => \A c \in cnf_clauses' : \E t \in 0..steps' : Local(c, t)'
      BY <1>1, <2>1, <2>2, <3>1 DEF Plain, Distinct
    <3> QED
      BY <3>2 DEF FrameLocality, Local
  <2>4. cnf_clauses' \subseteq SUBSET LitsOf(idx')
    BY <1>0, <1>1, <2>1, <2>2
  <2>5. InitialResolved' /\ TransitionsResolved'
    <3>1. 0 \in 0..steps
      BY <1>0, HasActivation
    <3>2. TransitionsResolved
      BY <1>3, <3>1 DEF TransitionsResolved
    <3> QED
      BY <1>0, <1>1, <3>2 DEF EncodedInv, ResolvedInv
  <2> QED
    BY <1>0, <1>1, <2>1, <2>3, <2>4, <2>5 DEF ClausesInv, ResolvedInv, AcceptedInv
<1>4. CASE ~Ok
  <2>1. cnf_clauses' = cnf_clauses /\ pc' = "raised"
    BY <1>4 DEF BuildTransitionCnf, Raise
  <2>2. FrameLocality'
    <3>1. Plain(input) => \A c \in cnf_clauses : \E t \in 0..steps : Local(c, t)
      BY <1>0, LocalityMeans
    <3>2. Plain(input)' => \A c \in cnf_clauses' : \E t \in 0..steps' : Local(c, t)'
      BY <1>1, <2>1, <3>1
    <3> QED
      BY <3>2 DEF FrameLocality, Local
  <2>3. ~(Plain(input) /\ NothingConstant(input))
    <3> SUFFICES ASSUME Plain(input), NothingConstant(input) PROVE Ok
      BY <1>4
    <3>1. Distinct(input)
      BY DEF Plain
    <3> SUFFICES ASSUME NEW t \in 0..steps,
                        NEW r \in DOMAIN transition_constraints,
                        NEW c \in transition_constraints[r], NEW l \in c
                 PROVE  Resolves(l.name, t)
      OBVIOUS
    <3>2. CASE l.name \in NamesUsed(input)
      BY <1>0, <3>2, NameResolves
    <3>3. CASE l = TVlit
      <4>1. l.name = TVname
        BY <3>3 DEF TVlit
      <4> QED
        BY <1>0, <1>2, <3>1, <4>1, TemporalAtomResolves
    <3> QED
      BY <1>0, <1>2, <3>2, <3>3, NoConstantClause
  <2>4. AcceptedInv'
    BY <1>1, <2>3 DEF AcceptedInv
  <2> QED
    BY <1>0, <1>1, <2>1, <2>2, <2>4 DEF ClausesInv, ResolvedInv
<1> QED
  BY <1>3, <1>4

\* build_safety_violation_cnf.
LEMMA SafetyStep ==
  ASSUME EncodedInv, BuildSafetyViolationCnf
  PROVE  ClausesInv' /\ ResolvedInv' /\ AcceptedInv'
<1>0. /\ pc = "build_safety_violation_cnf" /\ NumberedInv /\ Built /\ NumberingDone
      /\ AtomsInv /\ 0 \in DOMAIN temporal_bool_vars
      /\ UNCHANGED <<args, atoms, constraints, numbering>>
      /\ cnf_clauses = InitialClauses \cup AllTransitionClauses
      /\ cnf_clauses \subseteq SUBSET LitsOf(idx)
      /\ FrameLocality
  BY DEF BuildSafetyViolationCnf, EncodedInv, ConstraintsInv, Preparing,
     NumberingDone, ClausesInv, NumberedInv
<1> DEFINE Ok == \A t \in 0..steps, c \in safety_violation_constraints :
                   \A l \in c : /\ Matches(l.name)
                                /\ TimedKey(l, t) \in DOMAIN state_to_cnf_vars
<1>1. /\ InitialClauses' = InitialClauses
      /\ AllTransitionClauses' = AllTransitionClauses
      /\ SafetyClauses' = SafetyClauses
      /\ \A c, t : Local(c, t)' <=> Local(c, t)
      /\ InitialResolved' = InitialResolved
      /\ TransitionsResolved' = TransitionsResolved
      /\ SafetyResolved' = SafetyResolved
      /\ idx' = idx /\ temporal_bool_vars' = temporal_bool_vars
      /\ input' = input /\ steps' = steps /\ incremental' = incremental
  BY <1>0, ClausesFrozen
<1>2. incremental
  BY <1>0, HasActivation
<1>3. CASE Ok
  <2>1. cnf_clauses' = cnf_clauses \cup SafetyClauses /\ pc' = "save_to_file"
    BY <1>3 DEF BuildSafetyViolationCnf, SafetyClauses
  <2>2. ASSUME NEW d \in SafetyClauses
        PROVE  /\ d \subseteq LitsOf(idx)
               /\ Plain(input) => \E t \in 0..steps : Local(d, t)
    <3>1. PICK t \in 0..steps, c \in safety_violation_constraints :
            d = SafetyClause(c, t)
      BY DEF SafetyClauses
    <3>2. c # {} /\ \A l \in c : TimedKey(l, t) \in DOMAIN state_to_cnf_vars
      BY <1>0, <1>3, ConstraintNames
    <3>3. /\ d \subseteq LitsOf(idx)
          /\ (\A l \in c : TimedInfo(l, t).t = t) => Local(d, t)
      BY <1>0, <1>2, <3>1, <3>2, SafetyLocal
    <3>4. ASSUME Plain(input), NEW l \in c PROVE TimedInfo(l, t).t = t
      <4>1. l.name \in NamesUsed(input) \/ l \in Constants
        BY <1>0, ConstraintNames
      <4> QED
        BY <1>0, <3>4, <4>1, NameResolves, ConstantUnknown DEF TimedInfo
    <3> QED
      BY <3>3, <3>4
  <2>3. FrameLocality'
    <3>1. Plain(input) => \A c \in cnf_clauses : \E t \in 0..steps : Local(c, t)
      BY <1>0, LocalityMeans
    <3>2. Plain(input)' => \A c \in cnf_clauses' : \E t \in 0..steps' : Local(c, t)'
      BY <1>1, <2>1, <2>2, <3>1
    <3> QED
      BY <3>2 DEF FrameLocality, Local
  <2>4. cnf_clauses' \subseteq SUBSET LitsOf(idx')
    BY <1>0, <1>1, <2>1, <2>2
  <2>5. InitialResolved' /\ TransitionsResolved' /\ SafetyResolved'
    <3>1. 0 \in 0..steps
      BY <1>0, HasActivation
    <3>2. SafetyResolved
      BY <1>3, <3>1 DEF SafetyResolved
    <3> QED
      BY <1>0, <1>1, <3>2 DEF EncodedInv, ResolvedInv
  <2> QED
    BY <1>0, <1>1, <2>1, <2>3, <2>4, <2>5 DEF ClausesInv, ResolvedInv, AcceptedInv
<1>4. CASE ~Ok
  <2>1. cnf_clauses' = cnf_clauses /\ pc' = "raised"
    BY <1>4 DEF BuildSafetyViolationCnf, Raise
  <2>2. FrameLocality'
    <3>1. Plain(input) => \A c \in cnf_clauses : \E t \in 0..steps : Local(c, t)
      BY <1>0, LocalityMeans
    <3>2. Plain(input)' => \A c \in cnf_clauses' : \E t \in 0..steps' : Local(c, t)'
      BY <1>1, <2>1, <3>1
    <3> QED
      BY <3>2 DEF FrameLocality, Local
  <2>3. ~(Plain(input) /\ NothingConstant(input))
    <3> SUFFICES ASSUME Plain(input), NothingConstant(input) PROVE Ok
      BY <1>4
    <3> SUFFICES ASSUME NEW t \in 0..steps,
                        NEW c \in safety_violation_constraints, NEW l \in c
                 PROVE  /\ Matches(l.name)
                        /\ TimedKey(l, t) \in DOMAIN state_to_cnf_vars
      OBVIOUS
    <3>1. l.name \in NamesUsed(input)
      BY <1>0, <1>2, NoConstantClause
    <3>2. /\ Resolves(l.name, t) /\ Matches(l.name)
          /\ TimedInfo(l, t).t = t /\ TimedInfo(l, t).key = MapKey(l.name)
      BY <1>0, <3>1, NameResolves DEF TimedInfo
    <3> QED
      BY <3>2 DEF TimedKey, Resolves
  <2>4. AcceptedInv'
    BY <1>1, <2>3 DEF AcceptedInv
  <2> QED
    BY <1>0, <1>1, <2>1, <2>2, <2>4 DEF ClausesInv, ResolvedInv
<1> QED
  BY <1>3, <1>4

\* Every step of the program preserves the encoder's invariant.
LEMMA EncodedKept ==
  ASSUME EncodedInv, [Next]_vars
  PROVE  EncodedInv'
<1>0. NumberedInv' /\ ConstraintsInv'
  BY NumberedKept, ConstraintsKept DEF EncodedInv
<1> SUFFICES ClausesInv' /\ ResolvedInv' /\ AcceptedInv'
  BY <1>0 DEF EncodedInv
<1>1. ASSUME cnf_clauses' = {},
             pc' \in {"build_constraints", "build_state_to_cnf_vars",
                     "build_initial_state_cnf"}
      PROVE  ClausesInv' /\ ResolvedInv' /\ AcceptedInv'
  BY <1>1 DEF ClausesInv, FrameLocality, ResolvedInv, AcceptedInv
<1>2. CASE CreateStateAtoms
  BY <1>1, <1>2 DEF CreateStateAtoms, EncodedInv, ClausesInv
<1>3. CASE BuildConstraints
  <2>1. pc = "build_constraints" /\ cnf_clauses' = {}
    BY <1>3 DEF BuildConstraints, EncodedInv, ClausesInv
  <2>2. CASE \A r \in DOMAIN input.transitions : Parsable(input.transitions[r])
    BY <1>1, <1>3, <2>1, <2>2 DEF BuildConstraints
  <2>3. CASE ~\A r \in DOMAIN input.transitions : Parsable(input.transitions[r])
    <3>1. pc' = "raised" /\ input' = input
      BY <1>3, <2>3 DEF BuildConstraints, Raise, args
    <3>2. ~Plain(input)
      BY <2>3 DEF Plain
    <3> QED
      BY <2>1, <3>1, <3>2 DEF ClausesInv, FrameLocality, ResolvedInv, AcceptedInv
  <2> QED
    BY <2>2, <2>3
<1>4. CASE AllocateVariable
  BY <1>1, <1>4 DEF AllocateVariable, EncodedInv, ClausesInv
<1>5. CASE AllocationEnds
  BY <1>1, <1>5 DEF AllocationEnds, EncodedInv, ClausesInv
<1>6. ASSUME UNCHANGED <<args, atoms, constraints, numbering, cnf_clauses>>,
             pc' = pc \/ (pc = "save_to_file" /\ pc' = "returned")
      PROVE  ClausesInv' /\ ResolvedInv' /\ AcceptedInv'
  <2>1. /\ InitialClauses' = InitialClauses
        /\ AllTransitionClauses' = AllTransitionClauses
        /\ SafetyClauses' = SafetyClauses
        /\ \A c, t : Local(c, t)' <=> Local(c, t)
        /\ InitialResolved' = InitialResolved
        /\ TransitionsResolved' = TransitionsResolved
        /\ SafetyResolved' = SafetyResolved
        /\ idx' = idx /\ temporal_bool_vars' = temporal_bool_vars
        /\ input' = input /\ steps' = steps /\ incremental' = incremental
    BY <1>6, ClausesFrozen
  <2>2. FrameLocality'
    <3>1. Plain(input) => \A c \in cnf_clauses : \E t \in 0..steps : Local(c, t)
      BY LocalityMeans DEF EncodedInv, ClausesInv
    <3>2. Plain(input)' => \A c \in cnf_clauses' : \E t \in 0..steps' : Local(c, t)'
      BY <1>6, <2>1, <3>1
    <3> QED
      BY <3>2 DEF FrameLocality, Local
  <2> QED
    BY <1>6, <2>1, <2>2 DEF EncodedInv, ClausesInv, ResolvedInv, AcceptedInv
<1>7. CASE SaveToFile
  <2>1. /\ UNCHANGED <<args, atoms, constraints, numbering, cnf_clauses>>
        /\ pc = "save_to_file" /\ pc' = "returned"
    BY <1>7 DEF SaveToFile, args, atoms
  <2> QED
    BY <1>6, <2>1
<1>8. CASE UNCHANGED converterVars
  <2>1. /\ UNCHANGED <<args, atoms, constraints, numbering, cnf_clauses>>
        /\ pc' = pc
    BY <1>8 DEF converterVars, args, atoms, constraints, numbering
  <2> QED
    BY <1>6, <2>1
<1> QED
  BY <1>2, <1>3, <1>4, <1>5, <1>7, <1>8, StepCases, InitialStep,
     TransitionStep, SafetyStep

\* Nothing is built at the start.
LEMMA EncodedInit == MainInit => EncodedInv
<1> SUFFICES ASSUME MainInit PROVE EncodedInv
  OBVIOUS
<1>1. NumberedInv
  BY NumberedInit
<1>2. ConstraintsInv /\ ClausesInv /\ ResolvedInv /\ AcceptedInv
  BY DEF MainInit, Init, ConstraintsInv, Unbuilt, Preparing, ClausesInv,
     FrameLocality, ResolvedInv, AcceptedInv
<1> QED
  BY <1>1, <1>2 DEF EncodedInv

\* In every state the encoder has made the clauses its invariant says.
THEOREM EncodedInvariant == Spec => []EncodedInv
<1>1. MainInit => EncodedInv
  BY EncodedInit
<1>2. EncodedInv /\ [Next]_vars => EncodedInv'
  BY EncodedKept
<1> QED
  BY <1>1, <1>2, PTL DEF Spec

\* A rule whose effects are its preconditions is not encoded: its constraint
\* is the text True, which the numbering does not know.
LEMMA IdleRuleRefused ==
  ASSUME EncodedInv, Plain(input), HasIdleRule(input)
  PROVE  pc \notin {"build_safety_violation_cnf", "save_to_file", "returned"}
<1> SUFFICES ASSUME pc \in {"build_safety_violation_cnf", "save_to_file", "returned"}
             PROVE  FALSE
  OBVIOUS
<1>1. /\ NumberedInv /\ NumberingDone /\ AtomsInv /\ Built /\ TransitionsResolved
      /\ Distinct(input)
  BY DEF EncodedInv, NumberedInv, NumberingDone, ConstraintsInv, Preparing,
     ResolvedInv, Plain
<1>2. PICK r \in DOMAIN input.transitions :
        Rng(Joined(input.transitions[r].preconditions))
          = Rng(Joined(input.transitions[r].effects))
  BY DEF HasIdleRule
<1> DEFINE p == Joined(input.transitions[r].preconditions)
<1> DEFINE e == Joined(input.transitions[r].effects)
<1>3. /\ r \in DOMAIN transition_constraints
      /\ transition_constraints[r] = Written(RuleClauses(p, e, incremental))
  <2>1. r \in DOMAIN transition_constraints
    BY <1>1 DEF Built
  <2> QED
    BY <1>1, <2>1, RuleParts
<1>4. Rng(p) = Rng(e)
  BY <1>2
<1> HIDE DEF p, e
<1>5. ImpliesClauses(p, e) = {}
  BY <1>4 DEF ImpliesClauses, Parsed
<1>6. RuleClauses(p, e, incremental) = {}
  <2>1. {c \cup Added(incremental) : c \in ImpliesClauses(p, e)} = {}
    BY <1>5
  <2> QED
    BY <2>1 DEF RuleClauses, Kept
<1> DEFINE x == [neg |-> FALSE, name |-> TrueName]
<1>7. transition_constraints[r] = {{x}}
  BY <1>3, <1>6 DEF Written
<1>8. x \in Constants
  BY DEF Constants
<1> HIDE DEF x
<1>9. Resolves(x.name, 0)
  BY <1>1, <1>3, <1>7 DEF TransitionsResolved
<1> QED
  BY <1>1, <1>8, <1>9, ConstantUnknown

\* For every model whose names are all declared and whose rules are complete,
\* and every number of steps: without constant formulas it is encoded without
\* an exception, whatever SymPy folds, and with a rule whose effects are its
\* preconditions it never gets past the rules.
THEOREM PlainNeverRaises == Spec => []PlainInputAccepted
<1>1. EncodedInv => PlainInputAccepted
  BY IdleRuleRefused DEF EncodedInv, AcceptedInv, PlainInputAccepted
<1> QED
  BY <1>1, EncodedInvariant, PTL

-----------------------------------------------------------------------------
(* The meaning of a rule's constraint. *)

\* Texts without a top level disjunction hold together exactly if the text
\* they are joined to does.
LEMMA ConjunctiveHolds ==
  ASSUME NEW fs, AreFormulas(fs), fs # <<>>, Conjunctive(fs), NEW S
  PROVE  NamesHold(S, fs) <=> TextHolds(S, Joined(fs))
<1>1. PICK d : /\ Joined(fs) = <<d>>
               /\ \A l : l \in d <=> \E k \in DOMAIN fs : l \in fs[k][1]
  BY JoinedFacts DEF Conjunctive
<1>2. \A k \in DOMAIN fs : \A D : D \in Rng(fs[k]) <=> D = fs[k][1]
  <2> SUFFICES ASSUME NEW k \in DOMAIN fs, NEW D
               PROVE  D \in Rng(fs[k]) <=> D = fs[k][1]
    OBVIOUS
  <2> DEFINE f == fs[k]
  <2>1. f \in Seq(Rng(f)) /\ Len(f) = 1
    BY DEF AreFormulas, IsFormula, IsSequence, Conjunctive
  <2> HIDE DEF f
  <2>2. f \in Seq(Rng(f)) => DOMAIN f = 1..Len(f)
    BY LenProperties
  <2>3. DOMAIN f = {1}
    BY <2>1, <2>2
  <2> QED
    BY <2>3 DEF Rng, f
<1>3. NamesHold(S, fs) <=> \A k \in DOMAIN fs : \A l \in fs[k][1] : NameHolds(S, l)
  BY <1>2 DEF NamesHold, TextHolds
<1>4. TextHolds(S, <<d>>) <=> \A l \in d : NameHolds(S, l)
  <2>1. \A D : D \in Rng(<<d>>) <=> D = d
    BY DEF Rng
  <2> QED
    BY <2>1 DEF TextHolds
<1> QED
  BY <1>1, <1>3, <1>4

\* What is written means what the clauses mean, the constants included.
LEMMA WrittenMeaning ==
  ASSUME NEW F, NEW S, FalseName \notin S,
         \A c \in F : \A l \in c : l.name # TrueName
  PROVE  ClausesHold(S, Written(F))
           <=> \A c \in F : \E l \in c : NameHolds(S, l)
<1> DEFINE T == S \cup {TrueName}
<1>0. TrueName \in T /\ FalseName \notin T
  BY DEF TrueName, FalseName
<1>1. ASSUME NEW c \in F, NEW l \in c PROVE NameHolds(T, l) <=> NameHolds(S, l)
  BY <1>1 DEF NameHolds
<1>2. /\ NameHolds(T, [neg |-> FALSE, name |-> TrueName])
      /\ ~NameHolds(T, [neg |-> FALSE, name |-> FalseName])
  BY <1>0 DEF NameHolds
<1>3. ClausesHold(S, Written(F)) <=> \A c \in Written(F) : \E l \in c : NameHolds(T, l)
  BY DEF ClausesHold
<1> HIDE DEF T
<1>4. CASE {} \in F
  <2>1. Written(F) = {{[neg |-> FALSE, name |-> FalseName]}}
    BY <1>4 DEF Written
  <2> QED
    BY <1>2, <1>3, <1>4, <2>1
<1>5. CASE F = {}
  <2>1. Written(F) = {{[neg |-> FALSE, name |-> TrueName]}}
    BY <1>5 DEF Written
  <2> QED
    BY <1>2, <1>3, <1>5, <2>1
<1>6. CASE {} \notin F /\ F # {}
  <2>1. Written(F) = F
    BY <1>6 DEF Written
  <2> QED
    BY <1>1, <1>3, <2>1
<1> QED
  BY <1>4, <1>5, <1>6

\* The constraint stored for a rule without top level disjunctions.
LEMMA RuleMeaning ==
  ASSUME AtomsInv, Built, NEW r \in DOMAIN transition_constraints,
         Conjunctive(input.transitions[r].preconditions),
         Conjunctive(input.transitions[r].effects)
  PROVE  RuleIsImplication(r)
<1> DEFINE rule == input.transitions[r]
<1> DEFINE fs == rule.preconditions
<1> DEFINE gs == rule.effects
<1> DEFINE p == Joined(fs)
<1> DEFINE e == Joined(gs)
<1> DEFINE F == RuleClauses(p, e, incremental)
<1>1. /\ IsFormula(p) /\ IsFormula(e) /\ incremental \in BOOLEAN
      /\ transition_constraints[r] = Written(F)
  BY RuleParts
<1>2. /\ fs # <<>> /\ gs # <<>> /\ AreFormulas(fs) /\ AreFormulas(gs)
      /\ Conjunctive(fs) /\ Conjunctive(gs)
  BY InputsAssumption DEF AtomsInv, Built, Parsable
<1> SUFFICES ASSUME NEW S \in SUBSET (RuleNames(rule) \cup {TVname})
             PROVE  ClausesHold(S, Written(F)) <=>
                      \/ incremental /\ TVname \in S
                      \/ NamesHold(S, fs) => NamesHold(S, gs)
  BY <1>1 DEF RuleIsImplication
<1>3. RuleNames(rule) = NamesIn(fs) \cup NamesIn(gs)
  BY DEF RuleNames
<1> HIDE DEF rule, fs, gs
<1>4. FalseName \notin S
  <2>1. ASSUME NEW hs, AreFormulas(hs) PROVE FalseName \notin NamesIn(hs)
    <3> SUFFICES ASSUME NEW k \in DOMAIN hs, NEW l \in UNION Rng(hs[k])
                 PROVE  l.name # FalseName
      BY DEF NamesIn
    <3>1. IsFormula(hs[k])
      BY <2>1 DEF AreFormulas
    <3> QED
      BY <3>1, LiteralsOf
  <2>2. TVname # FalseName
    BY DEF TVname, FalseName
  <2> QED
    BY <1>2, <1>3, <2>1, <2>2
<1>5. (NamesHold(S, fs) <=> TextHolds(S, p)) /\ (NamesHold(S, gs) <=> TextHolds(S, e))
  BY <1>2, ConjunctiveHolds
<1> HIDE DEF p, e
<1>6. ASSUME NEW c \in F, NEW l \in c PROVE l.name # TrueName
  <2>1. \/ l \in UNION Rng(e) \/ l \in Added(incremental)
        \/ \E m \in UNION Rng(p) : l = Neg(m)
    BY RuleLiterals
  <2>2. TVname # TrueName
    BY DEF TVname, TrueName
  <2>3. ASSUME NEW m \in UNION Rng(p), l = Neg(m) PROVE l.name # TrueName
    <3>1. m \in [neg : BOOLEAN, name : {m.name}] /\ m.name # TrueName
      BY <1>1, LiteralsOf
    <3> QED
      BY <2>3, <3>1, NegHolds
  <2>4. CASE l \in Added(incremental)
    BY <2>2, <2>4 DEF Added, TVlit
  <2> QED
    BY <1>1, <2>1, <2>3, <2>4, LiteralsOf
<1> HIDE DEF F
<1>7. ClausesHold(S, Written(F)) <=> \A c \in F : \E l \in c : NameHolds(S, l)
  BY <1>4, <1>6, WrittenMeaning
<1> QED
  BY <1>1, <1>5, <1>7, RuleHolds DEF F

\* For every input: the constraint stored for a rule whose texts have no top
\* level disjunction is the implication, or the temporal atom.
THEOREM ConjunctiveRulesCorrect == Spec => []ConjunctiveRuleIsImplication
<1>1. EncodedInv => ConjunctiveRuleIsImplication
  <2> SUFFICES ASSUME EncodedInv, NEW r \in DOMAIN transition_constraints,
                      Conjunctive(input.transitions[r].preconditions),
                      Conjunctive(input.transitions[r].effects)
               PROVE  RuleIsImplication(r)
    BY DEF ConjunctiveRuleIsImplication
  <2>1. Unbuilt => DOMAIN transition_constraints = {}
    BY DEF Unbuilt
  <2>2. Built /\ AtomsInv
    BY <2>1 DEF EncodedInv, ConstraintsInv, NumberedInv
  <2> QED
    BY <2>2, RuleMeaning
<1> QED
  BY <1>1, EncodedInvariant, PTL

-----------------------------------------------------------------------------
(* The driver in the program. *)

\* solve () runs on the two files after they are written.
DriverInv ==
  /\ CallerInv
  /\ pc # "returned" => CallerStart /\ IpasirInit
  /\ pc = "returned" =>
       /\ cnf_file = [nvars |-> idx, clauses |-> cnf_clauses]
       /\ \A k \in DOMAIN assumptions_file : assumptions_file[k] = ActivationOf(k - 1)

\* The inductive invariant of the encoder and the driver together.
CheckedInv == EncodedInv /\ DriverInv

\* Fewer variables, fewer literals.
LEMMA LitsGrow ==
  ASSUME NEW m \in Nat, NEW n \in 0..m
  PROVE  LitsOf(n) \subseteq LitsOf(m)
BY DEF LitsOf

\* The files written so far are what solve () is specified for.
LEMMA StartEstablishes == CallerInit' => CallerInv'
BY IpasirAssumption
   DEF CallerInit, CallerStart, IpasirInit, CallerInv, CallerTypeOK, LoopInv,
       IpasirTypeOK, VerdictIsForBound, FreshAssumed

\* A function from the first numbers is a sequence of the wanted elements.
LEMMA ListOfLits ==
  ASSUME NEW n \in Int, NEW s, NEW S, s = [k \in 1..n |-> s[k]],
         \A k \in 1..n : s[k] \in S
  PROVE  s \in Seq(S) /\ DOMAIN s = 1..n
<1>1. CASE n \in Nat
  <2>1. s \in [1..n -> S]
    OBVIOUS
  <2> QED
    BY <1>1, <2>1, FunctionIsSeq
<1>2. CASE n \notin Nat
  <2>1. 1..n = {} /\ 1..n = 1..0
    BY <1>2
  <2>2. s \in [1..0 -> S]
    BY <2>1
  <2>3. s \in Seq(S)
    BY <2>2, FunctionIsSeq
  <2> QED
    BY <2>3
<1> QED
  BY <1>1, <1>2

\* The activation literal of a step of any process that checks the model.
LEMMA ActivationInRange ==
  ASSUME NumberedInv, incremental, pc # "create_state_atoms",
         NEW n \in StepChoices, NEW k \in 1..(n + 1)
  PROVE  ActivationOf(k - 1) \in Lits
<1> DEFINE L == Len(FrameSlots)
<1>1. AtomsInv
  BY DEF NumberedInv
<1>2. L \in Nat /\ L >= 1
  <2>1. 1 \in DOMAIN FrameSlots /\ L \in Nat /\ DOMAIN FrameSlots = 1..L
    BY <1>1, StateSlots
  <2> QED
    BY <2>1
<1>3. L = Len(SlotsOf(AtomsOf(input, incremental), incremental))
  BY <1>1 DEF AtomsInv, FrameSlots
<1>4. (n + 1) * L <= MaxVar /\ MaxVar \in Nat /\ n \in Int
  BY <1>1, <1>3, RoomAssumption, IpasirAssumption, InputsAssumption DEF AtomsInv
<1>5. ActivationOf(k - 1) = (k - 1) * L + 1
  BY DEF ActivationOf
<1> HIDE DEF L
<1>6. PICK d \in Nat : n + 1 = k + d
  <2>1. n + 1 - k \in Nat /\ n + 1 = k + (n + 1 - k)
    BY <1>4
  <2> QED
    BY <2>1
<1>7. k - 1 \in Nat /\ k = (k - 1) + 1
  BY <1>4
<1> DEFINE a == (k - 1) * L
<1> DEFINE b == d * L
<1>8. a \in Nat /\ b \in Nat
  BY <1>2, <1>6, <1>7
<1>9. (n + 1) * L = (a + L) + b
  BY <1>2, <1>6, <1>7
<1> HIDE DEF a, b
<1>10. a + 1 \in 1..MaxVar
  BY <1>2, <1>4, <1>8, <1>9
<1> QED
  BY <1>5, <1>10 DEF Lits, LitsOf, a

\* Every step of the program preserves the driver's invariant.
LEMMA DriverKept ==
  ASSUME CheckedInv, [Next]_vars
  PROVE  DriverInv'
<1>0. EncodedInv /\ DriverInv /\ NumberedInv /\ ClausesInv /\ CallerInv
  BY DEF CheckedInv, EncodedInv, DriverInv
<1>1. CASE Spec2Cnf
  <2>1. UNCHANGED <<callerVars, ipasirVars>> /\ pc # "returned" /\ pc' # "returned"
    BY <1>1 DEF Spec2Cnf, ConverterNext, CreateStateAtoms, BuildConstraints,
       AllocateVariable, AllocationEnds, BuildInitialStateCnf,
       BuildTransitionCnf, BuildSafetyViolationCnf, Raise
  <2>2. CallerInv'
    BY <1>0, <2>1, TypePreserved, LoopPreserved DEF CallerInv, allVars
  <2>3. (CallerStart /\ IpasirInit)'
    BY <1>0, <2>1 DEF DriverInv, CallerStart, IpasirInit, callerVars, ipasirVars
  <2> QED
    BY <2>1, <2>2, <2>3 DEF DriverInv
<1>2. CASE SaveToFile
  <2>1. /\ pc = "save_to_file" /\ pc' = "returned"
        /\ cnf_file' = [nvars |-> idx, clauses |-> cnf_clauses]
        /\ assumptions_file' = [k \in 1..(steps + 1) |-> temporal_bool_vars[k - 1]]
        /\ UNCHANGED <<idx, cnf_clauses, cpc, numvars, nv, current_assumtions,
                       result, printed, values, ipasirVars>>
    BY <1>2 DEF SaveToFile, numbering
  <2>2. (CallerStart /\ IpasirInit)'
    BY <1>0, <2>1 DEF DriverInv, CallerStart, IpasirInit, ipasirVars
  <2>3. idx \in 0..MaxVar /\ MaxVar \in Nat /\ LitsOf(idx) \subseteq Lits
    BY <1>0, IndexBound, IpasirAssumption, LitsGrow DEF Lits
  <2>4. cnf_file' \in [nvars : Nat, clauses : SUBSET SUBSET Lits]
    <3>1. cnf_clauses \in SUBSET SUBSET Lits
      BY <1>0, <2>3 DEF ClausesInv
    <3> QED
      BY <2>1, <2>3, <3>1
  <2>5. NumberingDone /\ 0 \in DOMAIN temporal_bool_vars
    BY <1>0, <2>1 DEF NumberingDone, ClausesInv
  <2>6. incremental /\ steps \in Int
    BY <1>0, <2>5, HasActivation
  <2>7. ASSUME NEW k \in 1..(steps + 1)
        PROVE  /\ temporal_bool_vars[k - 1] \in Lits
               /\ temporal_bool_vars[k - 1] = ActivationOf(k - 1)
    <3>1. k - 1 \in 0..steps
      BY <2>6
    <3>2. k - 1 \in DOMAIN temporal_bool_vars
          /\ temporal_bool_vars[k - 1] \in 1..idx
      BY <1>0, <2>5, <2>6, <3>1, ActivationKnown
    <3>3. temporal_bool_vars[k - 1] = ActivationOf(k - 1)
      BY <1>0, <3>2 DEF NumberedInv, EntriesInv
    <3>4. temporal_bool_vars[k - 1] \in LitsOf(idx)
      BY <3>2 DEF LitsOf
    <3> QED
      BY <2>3, <3>3, <3>4
  <2>8. assumptions_file' \in Seq(Lits) /\ DOMAIN assumptions_file' = 1..(steps + 1)
    <3> DEFINE s == assumptions_file'
    <3>1. /\ s = [k \in 1..(steps + 1) |-> s[k]]
          /\ \A k \in 1..(steps + 1) : s[k] \in Lits
      BY <2>1, <2>7
    <3>2. steps + 1 \in Int
      BY <2>6
    <3> HIDE DEF s
    <3>3. s \in Seq(Lits) /\ DOMAIN s = 1..(steps + 1)
      BY <3>1, <3>2, ListOfLits
    <3> QED
      BY <3>3 DEF s
  <2>9. CallerInv'
    <3>1. CallerInit'
      BY <2>2, <2>4, <2>8 DEF CallerInit
    <3> QED
      BY <3>1, StartEstablishes
  <2>10. \A k \in DOMAIN assumptions_file' :
           assumptions_file'[k] = ActivationOf(k - 1)'
    <3>1. FrameSlots' = FrameSlots
      BY <1>2 DEF SaveToFile, FrameSlots
    <3> QED
      BY <2>1, <2>7, <2>8, <3>1 DEF ActivationOf
  <2> QED
    BY <2>1, <2>9, <2>10 DEF DriverInv
<1>3. CASE CallSolve
  <2>1. pc = "returned" /\ CallerNext /\ UNCHANGED converterVars
    BY <1>3 DEF CallSolve
  <2>2. CallerInv'
    BY <1>0, <2>1, TypePreserved, LoopPreserved DEF CallerInv
  <2>3. UNCHANGED <<cnf_file, assumptions_file>>
    BY <2>1 DEF CallerNext, GetFormula, GetAssumptions, AddAllClauses,
       AddAssumptions, IpasirSolve, PrintResult, LoopEnds
  <2>4. UNCHANGED <<pc, idx, cnf_clauses, state_atoms, incremental>>
    BY <2>1 DEF converterVars
  <2>5. FrameSlots' = FrameSlots
    BY <2>4 DEF FrameSlots
  <2> QED
    BY <1>0, <2>1, <2>2, <2>3, <2>4, <2>5 DEF DriverInv, ActivationOf
<1>4. CASE OtherProcess
  <2>1. /\ pc = "returned" /\ cpc \in {"get_formula", "get_assumptions"}
        /\ UNCHANGED <<converterVars, cnf_file, cpc, numvars, nv,
                       current_assumtions, result, printed, values, ipasirVars>>
    BY <1>4 DEF OtherProcess
  <2>2. PICK n \in {-1} \cup (StepChoices \ {steps}) :
          assumptions_file' = [k \in 1..(n + 1) |-> ActivationOf(k - 1)]
    BY <1>4 DEF OtherProcess
  <2>3. incremental /\ n \in Int
    <3>1. 0 \in DOMAIN temporal_bool_vars
      BY <1>0, <2>1 DEF ClausesInv
    <3> QED
      BY <1>0, <3>1, HasActivation, InputsAssumption
  <2>4. ASSUME NEW k \in 1..(n + 1) PROVE ActivationOf(k - 1) \in Lits
    <3>1. n \in StepChoices
      OBVIOUS
    <3> QED
      BY <1>0, <2>1, <2>3, <3>1, ActivationInRange
  <2>5. assumptions_file' \in Seq(Lits) /\ DOMAIN assumptions_file' = 1..(n + 1)
    <3> DEFINE s == assumptions_file'
    <3>1. /\ s = [k \in 1..(n + 1) |-> s[k]]
          /\ \A k \in 1..(n + 1) : s[k] \in Lits
      BY <2>2, <2>4
    <3>2. n + 1 \in Int
      BY <2>3
    <3> HIDE DEF s
    <3>3. s \in Seq(Lits) /\ DOMAIN s = 1..(n + 1)
      BY <3>1, <3>2, ListOfLits
    <3> QED
      BY <3>3 DEF s
  <2>6. FrameSlots' = FrameSlots /\ UNCHANGED <<pc, idx, cnf_clauses>>
    BY <2>1 DEF FrameSlots, converterVars
  <2>7. CallerTypeOK'
    BY <1>0, <2>1, <2>5 DEF CallerInv, CallerTypeOK, IpasirTypeOK, ipasirVars
  <2>8. printed = <<>> /\ Len(current_assumtions) = 0
    BY <1>0, <2>1 DEF CallerInv, LoopInv
  <2>9. LoopInv' /\ VerdictIsForBound'
    BY <1>0, <2>1, <2>5, <2>8
       DEF CallerInv, LoopInv, VerdictIsForBound, FreshAssumed, ipasirVars
  <2> QED
    BY <1>0, <2>1, <2>2, <2>5, <2>6, <2>7, <2>9
       DEF DriverInv, CallerInv, ActivationOf
<1>5. CASE UNCHANGED vars
  <2>1. UNCHANGED <<converterVars, callerVars, ipasirVars>>
    BY <1>5 DEF vars
  <2>2. CallerInv'
    BY <1>0, <2>1, TypePreserved, LoopPreserved DEF CallerInv, allVars
  <2>3. /\ UNCHANGED <<pc, idx, cnf_clauses, cnf_file, assumptions_file>>
        /\ FrameSlots' = FrameSlots
    BY <2>1 DEF converterVars, callerVars, FrameSlots
  <2>4. (CallerStart /\ IpasirInit) => (CallerStart /\ IpasirInit)'
    BY <2>1 DEF CallerStart, IpasirInit, callerVars, ipasirVars
  <2> QED
    BY <1>0, <2>2, <2>3, <2>4 DEF DriverInv, ActivationOf
<1> QED
  BY <1>1, <1>2, <1>3, <1>4, <1>5 DEF Next, Main

\* In every state of the program, encoder and driver are where their
\* invariants say.
THEOREM CheckedInvariant == Spec => []CheckedInv
<1>1. MainInit => CheckedInv
  <2> SUFFICES ASSUME MainInit PROVE CheckedInv
    OBVIOUS
  <2>1. EncodedInv /\ pc # "returned" /\ CallerStart /\ IpasirInit
    BY EncodedInit DEF MainInit, Init
  <2>2. CallerInit
    <3>1. cnf_file \in [nvars : Nat, clauses : SUBSET SUBSET Lits]
      BY DEF MainInit, NoFile
    <3>2. assumptions_file \in Seq(Lits)
      BY DEF MainInit
    <3> QED
      BY <2>1, <3>1, <3>2 DEF CallerInit
  <2>3. CallerInv
    BY <2>2, InitEstablishes
  <2> QED
    BY <2>1, <2>3 DEF CheckedInv, DriverInv
<1>2. CheckedInv /\ [Next]_vars => CheckedInv'
  BY EncodedKept, DriverKept DEF CheckedInv
<1> QED
  BY <1>1, <1>2, PTL DEF Spec

\* For every input, number of steps and encoding: no variable is shared, the
\* types hold, the header's variables are shared out between the steps without
\* a gap, a step has the same activation variable whatever the number of
\* steps, and no clause reaches into another step.
THEOREM VariablesAlwaysApart == Spec => []VariablesApart
<1>1. CheckedInv => VariablesApart
  <2> SUFFICES ASSUME CheckedInv PROVE VariablesApart
    OBVIOUS
  <2>1. NumberedInv /\ ClausesInv /\ DriverInv /\ CallerTypeOK /\ NoVariableShared
    BY DEF CheckedInv, EncodedInv, DriverInv, CallerInv, NumberedInv, NumberingInv
  <2>2. idx \in 0..MaxVar /\ LitsOf(idx) \subseteq Lits
    BY <2>1, IndexBound, IpasirAssumption, LitsGrow DEF Lits
  <2>3. ModelCheckerTypeOK
    <3>1. cnf_clauses \subseteq SUBSET Lits
      BY <2>1, <2>2 DEF ClausesInv
    <3>2. pc = "returned" => cnf_file.nvars = idx
      BY <2>1 DEF DriverInv
    <3> QED
      BY <2>1, <2>2, <3>1, <3>2 DEF ModelCheckerTypeOK, ClausesInv
  <2> QED
    BY <2>1, <2>3, ExactNumbering, SameActivations DEF VariablesApart, ClausesInv
<1> QED
  BY <1>1, CheckedInvariant, PTL

-----------------------------------------------------------------------------
(* Bounds do not disturb each other. *)

\* What is known of the program when a verdict has been printed.
LEMMA VerdictFacts ==
  ASSUME CheckedInv, NEW j \in DOMAIN printed
  PROVE  /\ pc = "returned" /\ NumberingDone /\ incremental
         /\ steps \in Int /\ steps >= 0
         /\ cnf_file.clauses = cnf_clauses
         /\ j \in Nat /\ j >= 1 /\ j <= Len(assumptions_file)
         /\ printed[j] \in {0, 10, 20}
         /\ assumptions_file \in Seq(Lits)
<1>0. CallerTypeOK /\ LoopInv /\ DriverInv /\ ClausesInv /\ NumberedInv
  BY DEF CheckedInv, EncodedInv, DriverInv, CallerInv
<1>1. /\ printed \in Seq({0, 10, 20}) /\ assumptions_file \in Seq(Lits)
      /\ Len(printed) <= Len(assumptions_file)
  BY <1>0 DEF CallerTypeOK, LoopInv
<1>2. /\ j \in Nat /\ j >= 1 /\ j <= Len(assumptions_file)
      /\ printed[j] \in {0, 10, 20} /\ printed # <<>>
  BY <1>1
<1>3. pc = "returned"
  BY <1>0, <1>2 DEF DriverInv, CallerStart
<1>4. /\ NumberingDone /\ 0 \in DOMAIN temporal_bool_vars
      /\ cnf_file.clauses = cnf_clauses
  BY <1>0, <1>3 DEF NumberingDone, ClausesInv, DriverInv
<1> QED
  BY <1>0, <1>1, <1>2, <1>3, <1>4, HasActivation

\* The assumptions of bound j are the activation variables of the steps
\* before j.
LEMMA AssumptionsOfBound ==
  ASSUME CheckedInv, NEW j \in DOMAIN printed, j <= steps + 1
  PROVE  ActivatedBy(j) = {temporal_bool_vars[t] : t \in 0..(j - 1)}
<1>0. /\ NumberedInv /\ NumberingDone /\ incremental /\ steps \in Int
      /\ pc = "returned" /\ j \in Nat /\ j >= 1 /\ j <= Len(assumptions_file)
      /\ assumptions_file \in Seq(Lits)
  BY VerdictFacts DEF CheckedInv, EncodedInv
<1>1. ASSUME NEW k \in 1..j
      PROVE  k - 1 \in 0..(j - 1) /\ assumptions_file[k] = temporal_bool_vars[k - 1]
  <2>1. k \in DOMAIN assumptions_file /\ k - 1 \in 0..steps
    BY <1>0
  <2>2. assumptions_file[k] = ActivationOf(k - 1)
    BY <1>0, <2>1 DEF CheckedInv, DriverInv
  <2>3. k - 1 \in DOMAIN temporal_bool_vars
    BY <1>0, <2>1, ActivationKnown
  <2>4. temporal_bool_vars[k - 1] = ActivationOf(k - 1)
    BY <1>0, <2>3 DEF NumberedInv, EntriesInv
  <2> QED
    BY <1>0, <2>2, <2>4
<1>2. ASSUME NEW t \in 0..(j - 1) 
      PROVE  t + 1 \in 1..j /\ assumptions_file[t + 1] = temporal_bool_vars[t]
  <2>1. t + 1 \in 1..j /\ (t + 1) - 1 = t
    BY <1>0
  <2> QED
    BY <1>1, <2>1
<1> QED
  BY <1>1, <1>2 DEF ActivatedBy

\* A model of the clauses of the steps before j stays one of all clauses when
\* the later steps are switched off.
LEMMA SwitchedOff ==
  ASSUME CheckedInv, NEW j \in DOMAIN printed, j <= steps + 1, Plain(input),
         Satisfiable(MaxVar, ClausesBefore(j),
                     {temporal_bool_vars[t] : t \in 0..(j - 1)})
  PROVE  Satisfiable(MaxVar, cnf_file.clauses,
                     {temporal_bool_vars[t] : t \in 0..(j - 1)})
<1>0. /\ NumberedInv /\ NumberingDone /\ incremental /\ steps \in Int
      /\ j \in Nat /\ j >= 1 /\ cnf_file.clauses = cnf_clauses
      /\ cnf_clauses \subseteq SUBSET LitsOf(idx) /\ FrameLocality
  BY VerdictFacts DEF CheckedInv, EncodedInv, ClausesInv
<1> DEFINE A == {temporal_bool_vars[t] : t \in 0..(j - 1)}
<1> DEFINE off == {temporal_bool_vars[t] : t \in j..steps}
<1>1. PICK T \in SUBSET (1..MaxVar) : SatFormula(T, ClausesBefore(j)) /\ SatAll(T, A)
  BY DEF Satisfiable
<1> DEFINE T2 == T \ off
<1>2. \A t \in 0..steps : /\ t \in DOMAIN temporal_bool_vars
                          /\ temporal_bool_vars[t] \in FrameVars(t)
                          /\ temporal_bool_vars[t] \in 1..idx /\ idx \in Nat
  BY <1>0, ActivationKnown
<1>3. ASSUME NEW t \in 0..(j - 1), NEW v \in FrameVars(t) PROVE v \notin off
  <2> SUFFICES ASSUME NEW u \in j..steps, v = temporal_bool_vars[u] PROVE FALSE
    OBVIOUS
  <2>1. u \in 0..steps /\ t # u
    BY <1>0
  <2>2. v \in FrameVars(u)
    BY <1>2, <2>1
  <2> QED
    BY <1>0, <2>1, <2>2, FramesDisjoint
<1>4. \A t \in 0..(j - 1) : t \in 0..steps
  BY <1>0
<1> HIDE DEF off
<1>5. SatAll(T2, A)
  <2> SUFFICES ASSUME NEW t \in 0..(j - 1)
               PROVE  SatLit(T2, temporal_bool_vars[t])
    BY DEF SatAll
  <2> DEFINE v == temporal_bool_vars[t]
  <2>1. v \in FrameVars(t) /\ v \in 1..idx /\ idx \in Nat
    BY <1>2, <1>4
  <2>2. SatLit(T, v)
    BY <1>1 DEF SatAll
  <2>3. v \notin off
    BY <1>3, <2>1
  <2> HIDE DEF v
  <2>4. SatLit(T2, v)
    BY <2>1, <2>2, <2>3 DEF SatLit
  <2> QED
    BY <2>4 DEF v
<1>6. ASSUME NEW c \in cnf_clauses PROVE SatClause(T2, c)
  <2>1. c \subseteq LitsOf(idx)
    BY <1>0
  <2>2. PICK t \in 0..steps :
          -temporal_bool_vars[t] \in c /\ \A l \in c : VarOf(l) \in FrameVars(t)
    BY <1>0 DEF FrameLocality
  <2>3. CASE t \in 0..(j - 1)
    <3>1. c \in ClausesBefore(j)
      BY <1>0, <2>2, <2>3 DEF ClausesBefore
    <3>2. PICK l \in c : SatLit(T, l)
      BY <1>1, <3>1 DEF SatFormula, SatClause
    <3>3. VarOf(l) \notin off
      BY <1>3, <2>2, <2>3
    <3>4. l \in Int /\ l # 0
      <4>1. l \in LitsOf(idx) /\ idx \in Nat
        BY <1>2, <2>1
      <4> QED
        BY <4>1 DEF LitsOf
    <3>5. SatLit(T2, l)
      BY <3>2, <3>3, <3>4 DEF SatLit, VarOf
    <3> QED
      BY <3>5 DEF SatClause
  <2>4. CASE t \notin 0..(j - 1)
    <3>1. t \in j..steps
      BY <1>0, <2>4
    <3> DEFINE v == temporal_bool_vars[t]
    <3>2. v \in off /\ v \in Nat /\ v >= 1
      <4>1. v \in 1..idx /\ idx \in Nat
        BY <1>2
      <4>2. v \in off
        BY <3>1 DEF off
      <4> QED
        BY <4>1, <4>2
    <3>3. -v \in c
      BY <2>2
    <3> HIDE DEF v
    <3>4. SatLit(T2, -v)
      BY <3>2 DEF SatLit
    <3> QED
      BY <3>3, <3>4 DEF SatClause
  <2> QED
    BY <2>3, <2>4
<1>7. T2 \in SUBSET (1..MaxVar)
  OBVIOUS
<1>8. SatFormula(T2, cnf_file.clauses)
  BY <1>0, <1>6 DEF SatFormula
<1> HIDE DEF T2
<1> QED
  BY <1>5, <1>7, <1>8 DEF Satisfiable

\* For every plain input: the verdict printed for bound j is the truth about
\* the clauses of the steps before j alone.
THEOREM BoundsIsolated == Spec => []BoundIsolation
<1>1. CheckedInv => BoundIsolation
  <2> SUFFICES ASSUME CheckedInv, Plain(input), NEW j \in DOMAIN printed,
                      printed[j] # 0, j <= steps + 1
               PROVE  printed[j] = 10 <=>
                        Satisfiable(MaxVar, ClausesBefore(j),
                                    {temporal_bool_vars[t] : t \in 0..(j - 1)})
    BY DEF BoundIsolation
  <2> DEFINE A == {temporal_bool_vars[t] : t \in 0..(j - 1)}
  <2>1. ActivatedBy(j) = A
    BY AssumptionsOfBound
  <2>2. printed[j] \in {10, 20}
    BY VerdictFacts
  <2>3. printed[j] = 10 <=> Satisfiable(MaxVar, cnf_file.clauses, A)
    BY <2>1, <2>2 DEF CheckedInv, DriverInv, CallerInv, VerdictIsForBound, SatUpTo
  <2>4. Satisfiable(MaxVar, cnf_file.clauses, A)
          => Satisfiable(MaxVar, ClausesBefore(j), A)
    <3>1. ClausesBefore(j) \subseteq cnf_file.clauses
      BY DEF ClausesBefore
    <3> HIDE DEF A
    <3> QED
      BY <3>1 DEF Satisfiable, SatFormula
  <2>5. Satisfiable(MaxVar, ClausesBefore(j), A)
          => Satisfiable(MaxVar, cnf_file.clauses, A)
    BY SwitchedOff
  <2> QED
    BY <2>3, <2>4, <2>5
<1> QED
  BY <1>1, CheckedInvariant, PTL

-----------------------------------------------------------------------------
(* The meaning of the first verdict. *)

\* A plain boolean model has been encoded.
Encoded ==
  CheckedInv /\ Plain(input) /\ BooleanOnly(input) /\ pc = "returned"

\* The variable of the symbol s at step 0.
First(s) == state_to_cnf_vars[<<0>> \o <<s, None>>]

\* The assignment T gives the symbols the values they have in the state S.
Agree(T, S) == \A s \in Symbols(input) : First(s) \in T <=> <<s, TRUE>> \in S

\* What is known after the encoding.
LEMMA EncodedFacts ==
  ASSUME Encoded
  PROVE  /\ NumberedInv /\ NumberingDone /\ AtomsInv /\ Built /\ incremental
         /\ Distinct(input) /\ pc # "create_state_atoms"
         /\ 0 \in 0..steps /\ 0 \in DOMAIN temporal_bool_vars
         /\ cnf_clauses = (InitialClauses \cup AllTransitionClauses) \cup SafetyClauses
         /\ cnf_file.clauses = cnf_clauses
<1>1. /\ NumberedInv /\ ConstraintsInv /\ ClausesInv /\ DriverInv
      /\ pc = "returned" /\ Plain(input)
  BY DEF Encoded, CheckedInv, EncodedInv
<1>2. /\ 0 \in DOMAIN temporal_bool_vars /\ cnf_file.clauses = cnf_clauses
      /\ cnf_clauses = (InitialClauses \cup AllTransitionClauses) \cup SafetyClauses
  BY <1>1 DEF ClausesInv, DriverInv
<1>3. NumberingDone /\ AtomsInv /\ Built /\ Distinct(input)
  BY <1>1 DEF NumberingDone, NumberedInv, ConstraintsInv, Preparing, Plain
<1> QED
  BY <1>1, <1>2, <1>3, HasActivation

\* Every symbol has its variable at step 0.
LEMMA SymbolNumbered ==
  ASSUME Encoded, NEW s \in Symbols(input)
  PROVE  /\ <<0>> \o <<s, None>> \in DOMAIN state_to_cnf_vars
         /\ First(s) \in 1..idx /\ idx \in Nat
         /\ s # TVname /\ remove_domain_val(s) = s
         /\ MapKey(s) = <<s, None>>
<1>0. /\ NumberedInv /\ NumberingDone /\ AtomsInv /\ 0 \in 0..steps
      /\ Distinct(input) /\ pc # "create_state_atoms" /\ Plain(input)
      /\ BooleanOnly(input)
  BY EncodedFacts DEF Encoded
<1>1. PICK k \in DOMAIN input.states : s = input.states[k].symbol
  BY DEF Symbols
<1> DEFINE a == input.states[k]
<1>2. a.type = "boolean" /\ IsSequence(a.domain)
  BY <1>0, InputsAssumption DEF BooleanOnly, AtomsInv
<1>3. In(<<s, None>>, FrameSlots)
  <2>1. In(<<s, None>>, AtomSlots(a))
    BY <1>1, <1>2, AtomSlotsFacts
  <2> QED
    BY <1>0, <2>1, DeclaredSlots
<1>4. <<0>> \o <<s, None>> \in DOMAIN state_to_cnf_vars
  <2> DEFINE x == <<s, None>>
  <2>1. In(x, FrameSlots) /\ x # <<>>
    BY <1>3
  <2> HIDE DEF x
  <2>2. <<0>> \o x \in DOMAIN state_to_cnf_vars
    BY <1>0, <2>1, SlotNumbered
  <2> QED
    BY <2>2 DEF x
<1>5. First(s) \in 1..idx /\ idx \in Nat
  BY <1>0, <1>4 DEF First, NumberedInv, NumberingInv, NoVariableShared
<1>6. s # TVname
  BY <1>0 DEF Distinct
<1>7. remove_domain_val(s) = s
  <2>1. PICK z : s = <<z>>
    BY <1>0 DEF Plain
  <2> QED
    BY <2>1, ShortSequences DEF remove_domain_val
<1>8. s \in DOMAIN symbol_atom_map /\ symbol_atom_map[s] = "boolean"
  BY <1>0, <1>1, <1>2, PlainTypes
<1>9. MapKey(s) = <<s, None>>
  BY <1>7, <1>8 DEF MapKey
<1> QED
  BY <1>4, <1>5, <1>6, <1>7, <1>9

\* Two symbols, and a symbol and the temporal atom, have different variables.
LEMMA FirstInjective ==
  ASSUME Encoded, NEW s \in Symbols(input) \cup {TVname},
         NEW z \in Symbols(input) \cup {TVname}, First(s) = First(z)
  PROVE  s = z
<1>0. /\ NumberedInv /\ NumberingDone /\ 0 \in 0..steps
      /\ Distinct(input) /\ incremental
  BY EncodedFacts
<1>1. \A y \in Symbols(input) \cup {TVname} :
        <<0>> \o <<y, None>> \in DOMAIN state_to_cnf_vars
  <2>1. <<0>> \o <<TVname, None>> \in DOMAIN state_to_cnf_vars
    BY <1>0, TemporalAtomResolves DEF Resolves
  <2> QED
    BY <2>1, SymbolNumbered
<1>2. <<0>> \o <<s, None>> = <<0>> \o <<z, None>>
  BY <1>0, <1>1 DEF First, NumberedInv, NumberingInv, NoVariableShared
<1>3. <<0, s, None>> = <<0, z, None>>
  BY <1>2, PrependToPair
<1> QED
  BY <1>3

\* The names of a plain boolean model are its symbols.
LEMMA NamesAreSymbols ==
  ASSUME Encoded, NEW name \in NamesUsed(input)
  PROVE  name \in Symbols(input)
<1>1. Plain(input) /\ BooleanOnly(input)
  BY DEF Encoded
<1>2. PICK k \in DOMAIN input.states :
        name \in IF input.states[k].type = "boolean" THEN {input.states[k].symbol}
                 ELSE {Append(input.states[k].symbol, input.states[k].domain[i]) :
                         i \in DOMAIN input.states[k].domain}
  BY <1>1 DEF Plain, Rng
<1>3. name = input.states[k].symbol
  BY <1>1, <1>2 DEF BooleanOnly
<1> QED
  BY <1>3 DEF Symbols

\* A literal of the encoding is true exactly if the literal is in the state.
LEMMA LiteralMeaning ==
  ASSUME Encoded, NEW T, NEW S, Agree(T, S), NEW l, l.neg \in BOOLEAN,
         l.name \in Symbols(input)
  PROVE  SatLit(T, Signed(l, First(l.name))) <=> LitHolds(input, S, l)
<1> DEFINE v == First(l.name)
<1>1. v \in Nat /\ v >= 1
  <2>1. v \in 1..idx /\ idx \in Nat
    BY SymbolNumbered
  <2> QED
    BY <2>1
<1>2. v \in T <=> <<l.name, TRUE>> \in S
  BY DEF Agree
<1>3. LitHolds(input, S, l) <=> ((<<l.name, TRUE>> \in S) = ~l.neg)
  BY DEF LitHolds
<1> HIDE DEF v
<1>4. CASE l.neg = TRUE
  <2>1. SatLit(T, Signed(l, v)) <=> v \notin T
    BY <1>1, <1>4 DEF SatLit, Signed
  <2>2. LitHolds(input, S, l) <=> <<l.name, TRUE>> \notin S
    BY <1>3, <1>4
  <2> QED
    BY <1>2, <2>1, <2>2 DEF v
<1>5. CASE l.neg = FALSE
  <2>1. SatLit(T, Signed(l, v)) <=> v \in T
    BY <1>1, <1>5 DEF SatLit, Signed
  <2>2. LitHolds(input, S, l) <=> <<l.name, TRUE>> \in S
    BY <1>3, <1>5
  <2> QED
    BY <1>2, <2>1, <2>2 DEF v
<1> QED
  BY <1>4, <1>5

\* A clause translated at step 0, with step 0 switched on, is true exactly if
\* a literal of the clause is.
LEMMA ClauseMeaning ==
  ASSUME Encoded, NEW T, NEW S, Agree(T, S), temporal_bool_vars[0] \in T,
         NEW c, \A l \in c : l.neg \in BOOLEAN /\ l.name \in Symbols(input)
  PROVE  SatClause(T, Activated(0, get_cnf_clause(c, 0)))
           <=> \E l \in c : LitHolds(input, S, l)
<1> DEFINE v == temporal_bool_vars[0]
<1>1. v \in Nat /\ v >= 1
  <2>1. v \in 1..idx /\ idx \in Nat
    BY EncodedFacts, ActivationKnown
  <2> QED
    BY <2>1
<1>2. ~SatLit(T, -v)
  <2>1. v \in T
    OBVIOUS
  <2> HIDE DEF v
  <2> QED
    BY <1>1, <2>1 DEF SatLit
<1>3. get_cnf_clause(c, 0) = {Signed(l, First(l.name)) : l \in c}
  <2>1. \A l \in c : state_to_cnf_vars[<<0>> \o MapKey(l.name)] = First(l.name)
    BY SymbolNumbered DEF First
  <2> QED
    BY <2>1 DEF get_cnf_clause
<1>4. Activated(0, get_cnf_clause(c, 0)) = {-v} \cup get_cnf_clause(c, 0)
  BY DEF Activated
<1> HIDE DEF v
<1>5. SatClause(T, Activated(0, get_cnf_clause(c, 0)))
        <=> \E l \in c : SatLit(T, Signed(l, First(l.name)))
  BY <1>2, <1>3, <1>4 DEF SatClause
<1>6. \A l \in c : SatLit(T, Signed(l, First(l.name))) <=> LitHolds(input, S, l)
  BY LiteralMeaning
<1> QED
  BY <1>5, <1>6

\* The symbols a state makes true.
TrueIn(S) == {s \in Symbols(input) : <<s, TRUE>> \in S}

\* A literal holds in a state exactly if the symbols true there make it true.
LEMMA LitIsName ==
  ASSUME NEW S, NEW l, l.name \in Symbols(input)
  PROVE  LitHolds(input, S, l) <=> NameHolds(TrueIn(S), l)
<1>1. l.name \in TrueIn(S) <=> <<l.name, TRUE>> \in S
  BY DEF TrueIn
<1>2. LitHolds(input, S, l) <=> ((<<l.name, TRUE>> \in S) = ~l.neg)
  BY DEF LitHolds
<1> QED
  BY <1>1, <1>2 DEF NameHolds

\* A formula holds in a state exactly if the symbols true there make its text
\* true.
LEMMA FormulaIsText ==
  ASSUME NEW S, NEW f, \A l \in UNION Rng(f) : l.name \in Symbols(input)
  PROVE  FormulaHolds(input, S, f) <=> TextHolds(TrueIn(S), f)
<1>1. \A l \in UNION Rng(f) : LitHolds(input, S, l) <=> NameHolds(TrueIn(S), l)
  BY LitIsName
<1>2. FormulaHolds(input, S, f) <=> \E d \in Rng(f) : \A l \in d : LitHolds(input, S, l)
  BY DEF FormulaHolds, Rng
<1> QED
  BY <1>1, <1>2 DEF TextHolds

\* In an encoded model nothing was folded: the numbering knew every literal,
\* and it knows no constant.
LEMMA NothingFolded ==
  ASSUME Encoded
  PROVE  /\ \A k \in DOMAIN input.init :
              ToCnf(input.init[k]) = Kept(Distributed(Parsed(input.init[k])))
         /\ \A k \in DOMAIN input.safety :
              ToCnfOfNot(input.safety[k]) = Negated(Parsed(input.safety[k]))
         /\ \A c \in safety_violation_constraints :
              c # {} /\ \A l \in c : l.name \in NamesUsed(input)
<1>0. /\ NumberedInv /\ NumberingDone /\ AtomsInv /\ Built /\ Distinct(input)
      /\ InitialResolved /\ SafetyResolved
  BY EncodedFacts DEF Encoded, CheckedInv, EncodedInv, ResolvedInv
<1>1. ASSUME NEW c \in UNION initial_state_constraints, NEW x \in Constants
      PROVE  c # {x}
  <2> SUFFICES ASSUME c = {x} PROVE FALSE
    OBVIOUS
  <2>1. Resolves(x.name, 0)
    BY <1>0 DEF InitialResolved
  <2> QED
    BY <1>0, <2>1, ConstantUnknown
<1>2. ASSUME NEW c \in safety_violation_constraints, NEW x \in Constants
      PROVE  c # {x}
  <2> SUFFICES ASSUME c = {x} PROVE FALSE
    OBVIOUS
  <2>1. TimedKey(x, 0) \in DOMAIN state_to_cnf_vars
    BY <1>0 DEF SafetyResolved
  <2> QED
    BY <1>0, <2>1, ConstantUnknown
<1>3. ASSUME NEW k \in DOMAIN input.init
      PROVE  ToCnf(input.init[k]) = Kept(Distributed(Parsed(input.init[k])))
  <2>1. ToCnf(input.init[k]) \subseteq UNION initial_state_constraints
    BY <1>0 DEF Built
  <2> QED
    BY <1>1, <2>1, WrittenPlain DEF ToCnf
<1>4. ASSUME NEW k \in DOMAIN input.safety
      PROVE  ToCnfOfNot(input.safety[k]) = Negated(Parsed(input.safety[k]))
  <2>1. ToCnfOfNot(input.safety[k]) \subseteq safety_violation_constraints
    BY <1>0 DEF Built
  <2> QED
    BY <1>2, <2>1, WrittenPlain DEF ToCnfOfNot
<1> QED
  BY <1>0, <1>2, <1>3, <1>4, ConstraintNames

\* The clauses of the initial states at step 0 describe the initial states.
LEMMA InitialMeaning ==
  ASSUME Encoded, NEW T, NEW S, Agree(T, S), temporal_bool_vars[0] \in T
  PROVE  (\A d \in InitialClauses : SatClause(T, d)) <=> AllHold(input, S, input.init)
<1>0. Built /\ AtomsInv /\ AreFormulas(input.init)
  BY EncodedFacts, InputsAssumption DEF AtomsInv
<1>1. ASSUME NEW k \in DOMAIN input.init, NEW l \in UNION Rng(input.init[k])
      PROVE  l.neg \in BOOLEAN /\ l.name \in Symbols(input)
  <2>1. IsFormula(input.init[k])
    BY <1>0 DEF AreFormulas
  <2>2. l.name \in NamesUsed(input)
    BY DEF NamesUsed, NamesIn
  <2> QED
    BY <2>1, <2>2, NegFacts, NamesAreSymbols
<1>2. ASSUME NEW k \in DOMAIN input.init
      PROVE  (\A c \in ToCnf(input.init[k]) :
                SatClause(T, Activated(0, get_cnf_clause(c, 0))))
               <=> FormulaHolds(input, S, input.init[k])
  <2> DEFINE f == input.init[k]
  <2> DEFINE F == Kept(Distributed(Parsed(f)))
  <2>1. IsFormula(f) /\ ToCnf(f) = F
    BY <1>0, NothingFolded DEF AreFormulas
  <2>2. ASSUME NEW c \in F
        PROVE  SatClause(T, Activated(0, get_cnf_clause(c, 0)))
                 <=> \E l \in c : NameHolds(TrueIn(S), l)
    <3>1. \A l \in c : l.neg \in BOOLEAN /\ l.name \in Symbols(input)
      BY <1>1, <2>1, ClauseNames
    <3>2. SatClause(T, Activated(0, get_cnf_clause(c, 0)))
            <=> \E l \in c : LitHolds(input, S, l)
      BY <3>1, ClauseMeaning
    <3> QED
      BY <3>1, <3>2, LitIsName
  <2>3. FormulaHolds(input, S, f) <=> TextHolds(TrueIn(S), f)
    BY <1>1, FormulaIsText
  <2>4. (\A c \in F : \E l \in c : NameHolds(TrueIn(S), l)) <=> TextHolds(TrueIn(S), f)
    BY <2>1, CnfHolds
  <2> HIDE DEF F
  <2> QED
    BY <2>1, <2>2, <2>3, <2>4
<1>3. (\A d \in InitialClauses : SatClause(T, d)) <=>
        \A k \in DOMAIN input.init : \A c \in ToCnf(input.init[k]) :
          SatClause(T, Activated(0, get_cnf_clause(c, 0)))
  <2>1. \A c : c \in UNION initial_state_constraints <=>
               \E k \in DOMAIN input.init : c \in ToCnf(input.init[k])
    BY <1>0 DEF Built
  <2>2. (\A d \in InitialClauses : SatClause(T, d)) <=>
          \A c \in UNION initial_state_constraints :
            SatClause(T, Activated(0, get_cnf_clause(c, 0)))
    BY DEF InitialClauses
  <2> QED
    BY <2>1, <2>2
<1> QED
  BY <1>2, <1>3 DEF AllHold

\* The clause read back from the text of the safety constraints is the one
\* get_cnf_clause would make.
LEMMA SafetyIsTranslated ==
  ASSUME Encoded, NEW c \in safety_violation_constraints, NEW t \in 0..steps
  PROVE  SafetyClause(c, t) = Activated(t, get_cnf_clause(c, t))
<1>0. /\ NumberedInv /\ NumberingDone /\ AtomsInv /\ Built /\ Plain(input)
  BY EncodedFacts DEF Encoded
<1>1. c # {} /\ \A l \in c : l.name \in NamesUsed(input)
  BY NothingFolded
<1>2. \A l \in c : /\ TimedInfo(l, t).t = t
                   /\ TimedKey(l, t) = <<t>> \o MapKey(l.name)
  <2> SUFFICES ASSUME NEW l \in c
               PROVE  /\ TimedInfo(l, t).t = t
                      /\ TimedKey(l, t) = <<t>> \o MapKey(l.name)
    OBVIOUS
  <2>1. TimedInfo(l, t).t = t /\ TimedInfo(l, t).key = MapKey(l.name)
    BY <1>0, <1>1, NameResolves DEF TimedInfo
  <2> QED
    BY <2>1 DEF TimedKey
<1> DEFINE first == CHOOSE l \in c : TRUE
<1>3. TimedInfo(first, t).t = t
  BY <1>1, <1>2
<1>4. SafetyClause(c, t) =
        Activated(t, {Signed(l, state_to_cnf_vars[TimedKey(l, t)]) : l \in c})
  BY <1>3 DEF SafetyClause
<1>5. {Signed(l, state_to_cnf_vars[TimedKey(l, t)]) : l \in c}
        = get_cnf_clause(c, t)
  BY <1>2 DEF get_cnf_clause
<1> QED
  BY <1>4, <1>5

\* The safety clauses at step 0 say that every property is violated.
LEMMA SafetyMeaning ==
  ASSUME Encoded, NEW T, NEW S, Agree(T, S), temporal_bool_vars[0] \in T
  PROVE  (\A c \in safety_violation_constraints : SatClause(T, SafetyClause(c, 0)))
           <=> \A k \in DOMAIN input.safety :
                 ~FormulaHolds(input, S, input.safety[k])
<1>0. Built /\ AtomsInv /\ AreFormulas(input.safety) /\ 0 \in 0..steps
  BY EncodedFacts, InputsAssumption DEF AtomsInv
<1>1. ASSUME NEW k \in DOMAIN input.safety, NEW l \in UNION Rng(input.safety[k])
      PROVE  l.neg \in BOOLEAN /\ l.name \in Symbols(input)
  <2>1. IsFormula(input.safety[k])
    BY <1>0 DEF AreFormulas
  <2>2. l.name \in NamesUsed(input)
    BY DEF NamesUsed, NamesIn
  <2> QED
    BY <2>1, <2>2, NegFacts, NamesAreSymbols
<1>2. ASSUME NEW k \in DOMAIN input.safety
      PROVE  (\A c \in ToCnfOfNot(input.safety[k]) : SatClause(T, SafetyClause(c, 0)))
               <=> ~FormulaHolds(input, S, input.safety[k])
  <2> DEFINE f == input.safety[k]
  <2> DEFINE F == Negated(Parsed(f))
  <2>1. IsFormula(f) /\ ToCnfOfNot(f) = F
    BY <1>0, NothingFolded DEF AreFormulas
  <2>2. ASSUME NEW c \in F
        PROVE  SatClause(T, SafetyClause(c, 0)) <=> \E l \in c : NameHolds(TrueIn(S), l)
    <3>1. c \in safety_violation_constraints
      BY <1>0, <2>1 DEF Built
    <3>2. \A l \in c : l.neg \in BOOLEAN /\ l.name \in Symbols(input)
      <4> SUFFICES ASSUME NEW l \in c
                   PROVE  l.neg \in BOOLEAN /\ l.name \in Symbols(input)
        OBVIOUS
      <4>1. PICK m \in UNION Rng(f) : l = Neg(m)
        BY CnfLiterals
      <4>2. m \in [neg : BOOLEAN, name : {m.name}]
        BY <2>1, LiteralsOf
      <4>3. Neg(m) \in [neg : BOOLEAN, name : {Neg(m).name}] /\ Neg(m).name = m.name
        BY <4>2, NegHolds
      <4> QED
        BY <1>1, <4>1, <4>3
    <3>3. SatClause(T, Activated(0, get_cnf_clause(c, 0)))
            <=> \E l \in c : LitHolds(input, S, l)
      BY <3>2, ClauseMeaning
    <3>4. SafetyClause(c, 0) = Activated(0, get_cnf_clause(c, 0))
      BY <1>0, <3>1, SafetyIsTranslated
    <3> QED
      BY <3>2, <3>3, <3>4, LitIsName
  <2>3. FormulaHolds(input, S, f) <=> TextHolds(TrueIn(S), f)
    BY <1>1, FormulaIsText
  <2>4. (\A c \in F : \E l \in c : NameHolds(TrueIn(S), l)) <=> ~TextHolds(TrueIn(S), f)
    BY <2>1, CnfHolds
  <2> HIDE DEF F
  <2> QED
    BY <2>1, <2>2, <2>3, <2>4
<1>3. \A c : c \in safety_violation_constraints <=>
             \E k \in DOMAIN input.safety : c \in ToCnfOfNot(input.safety[k])
  BY <1>0 DEF Built
<1> QED
  BY <1>2, <1>3

\* The atom of a symbol of a boolean model has the two truth values.
LEMMA BooleanValues ==
  ASSUME Encoded, NEW s \in Symbols(input)
  PROVE  ValuesOf(AtomOf(input, s)) = BOOLEAN
<1> DEFINE A == {input.states[k] : k \in DOMAIN input.states}
<1>1. \E a \in A : a.symbol = s
  BY DEF Symbols
<1>2. AtomOf(input, s) \in A
  <2>1. AtomOf(input, s) = CHOOSE a \in A : a.symbol = s
    BY DEF AtomOf
  <2> HIDE DEF A
  <2> QED
    BY <1>1, <2>1
<1>3. AtomOf(input, s).type = "boolean"
  BY <1>2 DEF Encoded, BooleanOnly
<1> QED
  BY <1>3 DEF ValuesOf

\* A model of the file with step 0 switched on is an initial state that
\* violates every property.
LEMMA ModelIsState ==
  ASSUME Encoded,
         Satisfiable(MaxVar, cnf_file.clauses, {temporal_bool_vars[0]})
  PROVE  \E S \in InitialStates(input) :
           \A k \in DOMAIN input.safety :
             ~FormulaHolds(input, S, input.safety[k])
<1>0. /\ cnf_file.clauses = (InitialClauses \cup AllTransitionClauses) \cup SafetyClauses
      /\ 0 \in 0..steps
      /\ temporal_bool_vars[0] \in 1..idx /\ idx \in Nat
  BY EncodedFacts, ActivationKnown
<1>1. PICK T \in SUBSET (1..MaxVar) :
        SatFormula(T, cnf_file.clauses) /\ SatAll(T, {temporal_bool_vars[0]})
  BY DEF Satisfiable
<1>2. temporal_bool_vars[0] \in T
  <2>1. SatLit(T, temporal_bool_vars[0])
    BY <1>1 DEF SatAll
  <2>2. temporal_bool_vars[0] > 0
    BY <1>0
  <2> QED
    BY <2>1, <2>2 DEF SatLit
<1> DEFINE B(s) == IF First(s) \in T THEN TRUE ELSE FALSE
<1> DEFINE S == {<<s, B(s)>> : s \in Symbols(input)}
<1>3. \A s \in Symbols(input) : {q \in S : q[1] = s} = {<<s, B(s)>>}
  <2> SUFFICES ASSUME NEW s \in Symbols(input)
               PROVE  {q \in S : q[1] = s} = {<<s, B(s)>>}
    OBVIOUS
  <2> HIDE DEF B
  <2> QED
    OBVIOUS
<1>4. \A s \in Symbols(input) : <<s, TRUE>> \in S <=> B(s) = TRUE
  <2> SUFFICES ASSUME NEW s \in Symbols(input)
               PROVE  <<s, TRUE>> \in S <=> B(s) = TRUE
    OBVIOUS
  <2> HIDE DEF B
  <2> QED
    OBVIOUS
<1>5. Agree(T, S)
  BY <1>4 DEF Agree
<1>6. S \in AllStates(input)
  <2>1. \A s \in Symbols(input) : B(s) \in ValuesOf(AtomOf(input, s))
    BY BooleanValues
  <2> HIDE DEF B
  <2>2. S \in SUBSET UNION {{<<s, v>> : v \in ValuesOf(AtomOf(input, s))} :
                              s \in Symbols(input)}
    <3> SUFFICES ASSUME NEW s \in Symbols(input)
                 PROVE  <<s, B(s)>> \in UNION {{<<z, v>> : v \in ValuesOf(AtomOf(input, z))} :
                              z \in Symbols(input)}
      OBVIOUS
    <3>1. <<s, B(s)>> \in {<<s, v>> : v \in ValuesOf(AtomOf(input, s))}
      BY <2>1
    <3> QED
      BY <3>1
  <2> HIDE DEF S
  <2> QED
    BY <1>3, <2>1, <2>2 DEF AllStates
<1> HIDE DEF S
<1>7. AllHold(input, S, input.init)
  <2>1. \A d \in InitialClauses : SatClause(T, d)
    BY <1>0, <1>1 DEF SatFormula
  <2> QED
    BY <1>2, <1>5, <2>1, InitialMeaning
<1>8. \A k \in DOMAIN input.safety : ~FormulaHolds(input, S, input.safety[k])
  <2>1. \A c \in safety_violation_constraints : SatClause(T, SafetyClause(c, 0))
    <3>1. \A c \in safety_violation_constraints : SafetyClause(c, 0) \in SafetyClauses
      BY <1>0 DEF SafetyClauses
    <3> QED
      BY <1>0, <1>1, <3>1 DEF SatFormula
  <2> QED
    BY <1>2, <1>5, <2>1, SafetyMeaning
<1> QED
  BY <1>6, <1>7, <1>8 DEF InitialStates

\* An initial state that violates every property gives a model of the file
\* with step 0 switched on and the others off.
LEMMA StateIsModel ==
  ASSUME Encoded, NEW S \in InitialStates(input),
         \A k \in DOMAIN input.safety : ~FormulaHolds(input, S, input.safety[k])
  PROVE  Satisfiable(MaxVar, cnf_file.clauses, {temporal_bool_vars[0]})
<1>0. /\ cnf_file.clauses = (InitialClauses \cup AllTransitionClauses) \cup SafetyClauses
      /\ 0 \in 0..steps /\ NumberedInv /\ NumberingDone /\ incremental
      /\ Distinct(input) /\ Built /\ 0 \in DOMAIN temporal_bool_vars
      /\ AtomsInv /\ TransitionsResolved
  BY EncodedFacts DEF Encoded, CheckedInv, EncodedInv, ResolvedInv
<1> DEFINE a == temporal_bool_vars[0]
<1> DEFINE w == First(TVname)
<1> DEFINE P == {s \in Symbols(input) : <<s, TRUE>> \in S}
<1> DEFINE T == {a, w} \cup {First(s) : s \in P}
<1>1. /\ <<0>> \o <<TVname, None>> \in DOMAIN state_to_cnf_vars
      /\ MapKey(TVname) = <<TVname, None>>
  BY <1>0, TemporalAtomResolves DEF Resolves
<1>2. a \in 1..idx /\ idx \in Nat /\ w \in 1..idx
  BY <1>0, <1>1, ActivationKnown
     DEF First, NumberedInv, NumberingInv, NoVariableShared
<1>3. idx \in 0..MaxVar /\ MaxVar \in Nat
  BY <1>0, IndexBound, IpasirAssumption
<1>4. T \subseteq 1..idx
  <2>1. \A s \in P : First(s) \in 1..idx
    BY SymbolNumbered
  <2> HIDE DEF P
  <2> QED
    BY <1>2, <2>1
<1>5. T \in SUBSET (1..MaxVar)
  <2>1. 1..idx \subseteq 1..MaxVar
    BY <1>2, <1>3
  <2> HIDE DEF T
  <2> QED
    BY <1>4, <2>1
<1>6. ASSUME NEW t \in 0..steps, t # 0 PROVE temporal_bool_vars[t] \notin T
  <2>1. t \in DOMAIN temporal_bool_vars
    BY <1>0, ActivationKnown
  <2>2. temporal_bool_vars[t] # a
    BY <1>0, <1>6, <2>1 DEF NumberedInv, NumberingInv, NoVariableShared
  <2>3. \A s \in Symbols(input) \cup {TVname} : temporal_bool_vars[t] # First(s)
    <3>1. \A s \in Symbols(input) \cup {TVname} :
            <<0>> \o <<s, None>> \in DOMAIN state_to_cnf_vars
      BY <1>1, SymbolNumbered
    <3> QED
      BY <1>0, <2>1, <3>1 DEF First, NumberedInv, NumberingInv, NoVariableShared
  <2> QED
    BY <2>2, <2>3
<1>7. Agree(T, S)
  <2> SUFFICES ASSUME NEW s \in Symbols(input)
               PROVE  First(s) \in T <=> <<s, TRUE>> \in S
    BY DEF Agree
  <2>1. First(s) # w
    BY FirstInjective, SymbolNumbered
  <2>2. First(s) # a
    <3>1. <<0>> \o <<s, None>> \in DOMAIN state_to_cnf_vars
      BY SymbolNumbered
    <3> QED
      BY <1>0, <3>1 DEF First, NumberedInv, NumberingInv, NoVariableShared
  <2>3. \A z \in P : First(s) = First(z) => s = z
    BY FirstInjective
  <2> QED
    BY <2>1, <2>2, <2>3
<1>8. a \in T /\ w \in T
  OBVIOUS
<1> HIDE DEF T
<1>9. ASSUME NEW t \in 0..steps, t # 0, NEW d, -temporal_bool_vars[t] \in d
      PROVE  SatClause(T, d)
  <2> DEFINE v == temporal_bool_vars[t]
  <2>1. v \in Nat /\ v >= 1 /\ v \notin T
    <3>1. v \in 1..idx
      BY <1>0, ActivationKnown
    <3> QED
      BY <1>2, <1>6, <1>9, <3>1
  <2>2. -v \in d
    BY <1>9
  <2> HIDE DEF v
  <2>3. SatLit(T, -v)
    BY <2>1 DEF SatLit
  <2> QED
    BY <2>2, <2>3 DEF SatClause
<1>10. ASSUME NEW d \in InitialClauses PROVE SatClause(T, d)
  <2>1. AllHold(input, S, input.init)
    BY DEF InitialStates
  <2>2. Agree(T, S) /\ temporal_bool_vars[0] \in T
    BY <1>7, <1>8
  <2> HIDE DEF P
  <2> QED
    BY <2>1, <2>2, InitialMeaning
<1>11. ASSUME NEW d \in AllTransitionClauses PROVE SatClause(T, d)
  <2>1. PICK t \in 0..steps : d \in TransitionClauses(t)
    BY DEF AllTransitionClauses
  <2>2. PICK r \in DOMAIN transition_constraints :
          \E c \in transition_constraints[r] :
            d = Activated(t, get_cnf_clause(c, t))
    BY <1>0, <2>1 DEF TransitionClauses
  <2>3. PICK c \in transition_constraints[r] :
          d = Activated(t, get_cnf_clause(c, t))
    BY <2>2
  <2>4. CASE t # 0
    BY <1>9, <2>3, <2>4 DEF Activated
  <2>5. CASE t = 0
    <3>1. TVlit \in c
      <4> DEFINE p == Joined(input.transitions[r].preconditions)
      <4> DEFINE e == Joined(input.transitions[r].effects)
      <4>1. transition_constraints[r] = Written(RuleClauses(p, e, incremental))
        BY <1>0, RuleParts
      <4> HIDE DEF p, e
      <4>2. c \in RuleClauses(p, e, incremental) \/ \E x \in Constants : c = {x}
        BY <4>1, WrittenClauses
      <4>3. ASSUME NEW x \in Constants, c = {x} PROVE FALSE
        <5>1. Resolves(x.name, 0)
          BY <1>0, <4>3 DEF TransitionsResolved
        <5> QED
          BY <1>0, <5>1, ConstantUnknown
      <4> QED
        BY <1>0, <4>2, <4>3, RuleLiterals DEF Added
    <3>2. Signed(TVlit, state_to_cnf_vars[<<0>> \o MapKey(TVlit.name)]) = w
      BY <1>1 DEF Signed, First, TVlit
    <3>3. w \in get_cnf_clause(c, 0)
      BY <3>1, <3>2 DEF get_cnf_clause
    <3>4. w \in d
      BY <2>3, <2>5, <3>3 DEF Activated
    <3>5. SatLit(T, w)
      <4>1. w > 0
        BY <1>2
      <4> QED
        BY <1>8, <4>1 DEF SatLit
    <3> QED
      BY <3>4, <3>5 DEF SatClause
  <2> QED
    BY <2>4, <2>5
<1>12. ASSUME NEW d \in SafetyClauses PROVE SatClause(T, d)
  <2>1. PICK t \in 0..steps, c \in safety_violation_constraints :
          d = SafetyClause(c, t)
    BY DEF SafetyClauses
  <2>2. CASE t # 0
    <3>1. d = Activated(t, get_cnf_clause(c, t))
      BY <2>1, SafetyIsTranslated
    <3> QED
      BY <1>9, <2>2, <3>1 DEF Activated
  <2>3. CASE t = 0
    BY <1>7, <1>8, <2>1, <2>3, SafetyMeaning
  <2> QED
    BY <2>2, <2>3
<1>13. SatFormula(T, cnf_file.clauses)
  BY <1>0, <1>10, <1>11, <1>12 DEF SatFormula
<1>14. SatAll(T, {a})
  <2>1. a > 0
    BY <1>2
  <2> QED
    BY <1>8, <2>1 DEF SatAll, SatLit
<1> QED
  BY <1>5, <1>13, <1>14 DEF Satisfiable

\* For every plain boolean model and number of steps: "does not hold at step
\* 1" is printed if and only if an initial state violates every property.
THEOREM FirstVerdictExact == Spec => []FirstVerdictMeaning
<1>1. CheckedInv => FirstVerdictMeaning
  <2> SUFFICES ASSUME CheckedInv, Plain(input), BooleanOnly(input),
                      printed # <<>>, printed[1] # 0
               PROVE  printed[1] = 10 <=>
                        \E S \in InitialStates(input) :
                          \A k \in DOMAIN input.safety :
                            ~FormulaHolds(input, S, input.safety[k])
    BY DEF FirstVerdictMeaning
  <2>1. 1 \in DOMAIN printed
    <3>1. printed \in Seq({0, 10, 20})
      BY DEF CheckedInv, DriverInv, CallerInv, CallerTypeOK
    <3> QED
      BY <3>1
  <2>2. /\ pc = "returned" /\ steps \in Int /\ steps >= 0
        /\ printed[1] \in {10, 20}
    BY <2>1, VerdictFacts
  <2>3. Encoded
    BY <2>2 DEF Encoded
  <2>4. ActivatedBy(1) = {temporal_bool_vars[0]}
    <3>1. ActivatedBy(1) = {temporal_bool_vars[t] : t \in 0..(1 - 1)}
      BY <2>1, <2>2, AssumptionsOfBound
    <3> QED
      BY <3>1
  <2>5. printed[1] = 10 <=>
          Satisfiable(MaxVar, cnf_file.clauses, {temporal_bool_vars[0]})
    BY <2>1, <2>2, <2>4
       DEF CheckedInv, DriverInv, CallerInv, VerdictIsForBound, SatUpTo
  <2> QED
    BY <2>3, <2>5, ModelIsState, StateIsModel
<1> QED
  BY <1>1, CheckedInvariant, PTL
=============================================================================
