------------------------------ MODULE Simplify ------------------------------
(***************************************************************************)
(* The simplifiers CaDiCaL runs between conflicts of the search that only  *)
(* derive and remove clauses: deduplication of binary clauses, transitive  *)
(* reduction, failed literal probing with hyper binary resolution, forward *)
(* subsumption, and garbage collection between them.                       *)
(*                                                                         *)
(* probe () runs deduplication and rounds of probing, subsume () runs      *)
(* subsumption and transitive reduction; each technique can be switched    *)
(* off by an option and each is run again and again, so every order of     *)
(* them is possible.  A technique ends when it is complete, or before that *)
(* when its effort limit is hit or the solver is asked to terminate.       *)
(***************************************************************************)
EXTENDS Inprocess, TLC

CONSTANTS
  Formulas,       \* what a simplifier may start with: sequences of [lits, red]
  Options,        \* [probehbr, subsumelimited, kept]: two options, and whether
                  \* reductions keep long redundant clauses
  MaxRuns         \* techniques that are run one after the other

ASSUME SimplifyAssumption ==
  /\ Var \in Nat /\ MaxRuns \in Nat
  /\ Options \subseteq [probehbr : BOOLEAN, subsumelimited : BOOLEAN, kept : BOOLEAN]
  /\ \A F \in Formulas : \A c \in Rng(F) :
       /\ c.lits \subseteq Lits /\ Cardinality(c.lits) > 1 /\ c.red \in BOOLEAN
       /\ \A l \in c.lits : -l \notin c.lits
       /\ \A T \in SUBSET (1..Var) :    \* redundant clauses are implied
            SatFormula(T, {d.lits : d \in {d \in Rng(F) : ~d.red}}) => SatClause(T, c.lits)

VARIABLES
  opts,       \* the options
  models,     \* the models of the formula at the start
  db,         \* the clauses, see Inprocess
  job,        \* the technique that runs and its local state
  runs,       \* techniques run so far
  checked,    \* clauses with the flag 'transred'
  left,       \* clauses with the flag 'subsume'
  probes,     \* the schedule of literals to probe, taken from the end
  propfixed,  \* how many units there were when a literal was last propagated
  lastFixed   \* units at the last garbage collection

vars == <<opts, models, db, job, runs, checked, left, probes, propfixed, lastFixed>>

ModelsOf(F) == {T \in SUBSET (1..Var) : SatFormula(T, F)}

Idle == [name |-> "idle"]

\* A variable starts with the flags 'subsume' and 'ternary' set.
Database(F) ==
  [cl |-> [k \in DOMAIN F |->
             [lits |-> F[k].lits, red |-> F[k].red, hyper |-> FALSE, garbage |-> FALSE,
              watch |-> IF Cardinality(F[k].lits) = 2 THEN F[k].lits ELSE {}]],
   units |-> {}, unsat |-> FALSE, subsume |-> 1..Var, ternary |-> 1..Var, marks |-> 0,
   justified |-> TRUE]

Init ==
  /\ opts \in Options
  /\ \E F \in Formulas : db = Database(F)
  /\ models = ModelsOf(Irredundant(db))
  /\ job = Idle /\ runs = 0 /\ checked = {} /\ left = {} /\ probes = <<>>
  /\ propfixed = [l \in Lits |-> -1] /\ lastFixed = 0

\* A technique starts: it runs at the root level of a formula that is not
\* known to be unsatisfiable and still has clauses.
Starts ==
  /\ job = Idle /\ ~db.unsat /\ Live(db) # {} /\ runs < MaxRuns
  /\ runs' = runs + 1
  /\ UNCHANGED <<opts, models>>

Running(name) ==
  /\ job.name = name /\ ~db.unsat
  /\ UNCHANGED <<opts, models, runs, lastFixed>>

-----------------------------------------------------------------------------
(* Garbage collection.                                                     *)

\* Satisfied clauses are looked for only if there are new units.  The freed
\* places of the clause list are closed by moving the clauses up; here they
\* stay, in the same order.
GarbageCollection ==
  /\ Starts
  /\ lastFixed' = Fixed(db)
  /\ LET F(D) == DeleteGarbage(IF lastFixed < Fixed(D) THEN MarkSatisfied(D, opts.kept) ELSE D)
     IN db' = ByValue(F, db)
  /\ db' # db
  /\ checked' = checked \cap DOMAIN db'.cl
  /\ left' = left \cap DOMAIN db'.cl
  /\ UNCHANGED <<job, probes, propfixed>>

-----------------------------------------------------------------------------
(* Deduplication of binary clauses.                                        *)

OtherLit(c, l) == CHOOSE k \in c.lits : k # l

\* The binary clauses in the watch list of l, the oldest first.
BinaryWatches(D, l) ==
  Ascending({k \in DOMAIN D.cl : l \in D.cl[k].watch})

Unwatch(D, l, k) == [D EXCEPT !.cl[k].watch = @ \ {l}]

\* Clause k is identical to an earlier one, which goes if k is irredundant.
Duplicate(D, l, first, k) ==
  LET gone == IF D.cl[k].red THEN k ELSE first
  IN MarkGarbage(Unwatch(D, l, gone), gone)

\* Look at watch k of l.  Garbage is only skipped if its other literal is not
\* marked negatively: it still resolves to a unit.
VisitBinary(st, l, k) ==
  LET D == st.D
      other == OtherLit(D.cl[k], l)
      same == {j \in st.seen : OtherLit(D.cl[j], l) = other /\ ~D.cl[j].garbage}
  IN IF st.unit # 0 THEN st
     ELSE IF other \in st.marked
     THEN IF D.cl[k].garbage THEN [st EXCEPT !.D = Unwatch(D, l, k)]
          ELSE [st EXCEPT !.D = Duplicate(D, l, Min(same), k), !.seen = @ \cup {k}]
     ELSE IF -other \in st.marked THEN [st EXCEPT !.unit = l]
     ELSE IF D.cl[k].garbage THEN st
     ELSE [st EXCEPT !.marked = @ \cup {other}, !.seen = @ \cup {k}]

\* Deduplicate the watches of l; with a unit they are all dropped.
DedupLit(st, l) ==
  LET Step(x, k) == LET F(y) == VisitBinary(y, l, k) IN ByValue(F, x)
      end == FoldLeft(Step, [D |-> st.D, unit |-> 0, marked |-> {}, seen |-> {}],
                      BinaryWatches(st.D, l))
      Drop(D) == [D EXCEPT !.cl = [k \in DOMAIN D.cl |->
                    [D.cl[k] EXCEPT !.watch = @ \ {l}]]]
  IN IF st.unit # 0 THEN st
     ELSE [D |-> IF end.unit = 0 THEN end.D ELSE Drop(end.D), unit |-> end.unit]

DedupVar(D, v) ==
  LET F(st) == IF st.unit = 0 THEN st.D ELSE RootPropagate(AssignUnit(st.D, st.unit))
      G(st) == DedupLit(st, v)
      H(st) == ByValue(F, ByValue(G, DedupLit(st, -v)))
  IN IF D.unsat \/ ~Active(D, v) THEN D ELSE ByValue(H, [D |-> D, unit |-> 0])

\* mark_duplicated_binary_clauses_as_garbage
Deduplicate ==
  /\ Starts
  /\ LET Step(D, v) == LET F(x) == DedupVar(x, v) IN ByValue(F, D)
     IN db' = FoldLeft(Step, db, Ascending(1..Var))
  /\ UNCHANGED <<job, checked, left, probes, propfixed, lastFixed>>

-----------------------------------------------------------------------------
(* Transitive reduction of the binary implication graph.                   *)

\* A clause is tried once, those from hyper binary resolution never.
Candidates(tried) ==
  {k \in Live(db) : /\ Size(db.cl[k]) = 2 /\ k \notin tried
                    /\ ~(db.cl[k].red /\ db.cl[k].hyper)}

\* When all have been tried they are scheduled again.
TransredBegin ==
  /\ Starts
  /\ LET again == Candidates(checked) = {} IN
     /\ checked' = IF again THEN {} ELSE checked
     /\ Candidates(checked') # {}
     /\ job' = [name |-> "transred", todo |-> Ascending(Candidates(checked'))]
  /\ UNCHANGED <<db, left, probes, propfixed, lastFixed>>

\* What l implies by other binary clauses than c: an irredundant clause may
\* only be removed because of irredundant ones.
Edges(D, c, l) ==
  {OtherLit(D.cl[k], -l) : k \in {k \in Live(D) \ {c} :
     -l \in D.cl[k].watch /\ (D.cl[k].red => D.cl[c].red)}}

\* All literals on paths from src that do not lead through dst.
RECURSIVE Reached(_, _, _, _)
Reached(D, c, dst, R) ==
  LET X == R \cup UNION {Edges(D, c, l) : l \in R \ {dst}}
  IN IF X = R THEN R ELSE Reached(D, c, dst, X)

\* Look for another path between the two ends of the next clause, from the
\* end with more watches.  Breadth first search stops when it reaches the
\* other end, or a literal and its negation; which of the two comes first
\* depends on the order of the watches.
TransredStep ==
  /\ Running("transred") /\ job.todo # <<>>
  /\ LET k == Head(job.todo)
         c == db.cl[k]
     IN /\ checked' = checked \cup {k}
        /\ job' = [job EXCEPT !.todo = Tail(@)]
        /\ IF \E l \in c.lits : ~Active(db, l) THEN db' = db
           ELSE \E l \in c.lits :
             LET src == -l
                 dst == OtherLit(c, l)
                 R == Reached(db, k, dst, {src})
                 failed == \E x \in R \ {dst} : -x \in R \ {dst}
             IN \/ /\ dst \in R
                   /\ db' = MarkGarbage(db, k)
                \/ /\ failed
                   /\ db' = RootPropagate(AssignUnit(db, l))
                \/ /\ dst \notin R /\ ~failed
                   /\ db' = db
  /\ UNCHANGED <<left, probes, propfixed>>

\* Everything was tried, or the limit was hit.
TransredEnd ==
  /\ Running("transred")
  /\ job' = Idle
  /\ UNCHANGED <<db, checked, left, probes, propfixed>>

-----------------------------------------------------------------------------
(* Failed literal probing.  The trail of a probe has for each literal its  *)
(* parent: with hyper binary resolution implications form a tree.          *)

\* How often l occurs in clauses that are binary but for false literals.
Noccs(l) ==
  Cardinality({k \in Live(db) : LET rest == {x \in db.cl[k].lits : Val(db, x) >= 0} IN
                 l \in rest /\ Cardinality(rest) = 2 /\ rest \cap db.units = {}})

\* A literal that occurs negated in binary clauses but not itself.
Roots == {l \in Lits : Noccs(-l) > 0 /\ Noccs(l) = 0}

\* A mutant: a literal is tried again only after two more units.
UntriedTooLate(l) == propfixed[l] + 1 < Fixed(db)

\* There was a new unit since l was last propagated.
Untried(l) == propfixed[l] < Fixed(db)

\* Literals that occur negated more often are tried first.
ByOccurrences(s) == RSort(s, [l \in Lits |-> Noccs(-l)], Cardinality(DOMAIN db.cl) + 1)

GenerateProbes ==
  LET r == {l \in Roots : Untried(l)}
  IN ByOccurrences([i \in 1..Cardinality(r) |->
       LET v == Ascending(VarsOf(r))[i] IN IF v \in r THEN v ELSE -v])

\* Probes left over from the last round: only roots stay, possibly negated.
FlushProbes ==
  LET Rooted == {l \in Lits : l \in Roots \/ -l \in Roots}
      Stays(l) == Active(db, l) /\ l \in Rooted /\ Untried(IF l \in Roots THEN l ELSE -l)
      s == SelectSeq(probes, Stays)
  IN ByOccurrences([i \in DOMAIN s |-> IF s[i] \in Roots THEN s[i] ELSE -s[i]])

ProbeBegin ==
  /\ Starts
  /\ job' = [name |-> "probe", trail |-> <<>>, conflict |-> 0]
  /\ probes' = FlushProbes
  /\ propfixed' = [l \in Lits |-> -1]
  /\ UNCHANGED <<db, checked, left, lastFixed>>

\* The probes from the last one that still makes sense on.
RECURSIVE Usable(_)
Usable(s) ==
  IF s = <<>> \/ (Active(db, Last(s)) /\ Untried(Last(s))) THEN s ELSE Usable(Front(s))

\* next_probe: when the schedule is empty it is filled once.
NextProbes == LET s == Usable(probes) IN IF s # <<>> THEN s ELSE Usable(GenerateProbes)

Assigned(j) == {j.trail[i].lit : i \in DOMAIN j.trail}
True(D, j) == D.units \cup Assigned(j)

ParentOf(j, l) == (CHOOSE e \in Rng(j.trail) : e.lit = l).parent
PlaceOf(j, l) == CHOOSE i \in DOMAIN j.trail : j.trail[i].lit = l

\* Propagate all binary clauses, those of the next literal in the order of
\* its watches.  A conflict does not stop this.
RECURSIVE Propagate2(_, _, _)
Propagate2(D, j, next) ==
  IF next > Len(j.trail) THEN j
  ELSE LET lit == j.trail[next].lit
           Visit(x, k) ==
             LET other == OtherLit(D.cl[k], -lit) IN
             IF other \in True(D, x) THEN x
             ELSE IF -other \in True(D, x) THEN [x EXCEPT !.conflict = k]
             ELSE [x EXCEPT !.trail = Append(@, [lit |-> other, parent |-> lit])]
           Step(x, k) == LET F(y) == Visit(y, k) IN ByValue(F, x)
           G(x) == Propagate2(D, x, next + 1)
       IN ByValue(G, FoldLeft(Step, j, BinaryWatches(D, -lit)))

\* What is on the trail of j has been propagated with so many units.
Propfixed(j) ==
  [l \in Lits |-> IF l \in Assigned(j) THEN Fixed(db) ELSE propfixed[l]]

ProbeDecide ==
  /\ Running("probe") /\ job.trail = <<>>
  /\ \E s \in {NextProbes} :
       /\ s # <<>>
       /\ probes' = Front(s)
       /\ job' = Propagate2(db, [job EXCEPT !.trail = <<[lit |-> Last(s), parent |-> 0]>>], 1)
  /\ propfixed' = Propfixed(job')
  /\ UNCHANGED <<db, checked, left>>

\* A mutant: the later of two literals dominates the other.
DominatorLater(j, a, b) ==
  IF PlaceOf(j, a) > PlaceOf(j, b) THEN a ELSE b

\* The closest literal that implies a and b along the tree.
RECURSIVE Dominator(_, _, _)
Dominator(j, a, b) ==
  IF a = b THEN a
  ELSE IF PlaceOf(j, a) > PlaceOf(j, b) THEN Dominator(j, b, a)
  ELSE IF ParentOf(j, a) = 0 THEN a
  ELSE Dominator(j, a, ParentOf(j, b))

\* The dominator of literals of the trail.
DominatorOf(j, S) ==
  LET Join(l, dom) == IF dom = 0 THEN l ELSE Dominator(j, dom, l)
  IN FoldSet(Join, 0, S)

\* The literals of the trail that make literals of clause c false.
Falsifying(j, c) == {l \in Assigned(j) : -l \in c.lits}

\* A long clause forces lit: derive the binary clause of lit and the negated
\* dominator, unless the clause is binary but for root level literals.  It
\* replaces the long clause if it subsumes it.
HyperBinaryResolve(j, k, lit, dom) ==
  LET c == db.cl[k]
      contained == -dom \in c.lits
      new == NewClause(db, opts.kept, {-dom, lit}, ~contained \/ c.red, ~contained \/ c.red)
  IN IF Cardinality(Falsifying(j, c)) = 1 \/ ~opts.probehbr THEN db
     ELSE IF contained THEN MarkGarbage(new, k) ELSE new

\* The literal a long clause forces: it has no other that is not false.
Forced(k) ==
  {l \in db.cl[k].lits : l \notin True(db, job) /\ \A x \in db.cl[k].lits \ {l} : -x \in True(db, job)}

LongLive == {k \in Live(db) : Size(db.cl[k]) > 2}

ForcingClauses == {k \in LongLive : db.cl[k].lits \cap True(db, job) = {} /\ Forced(k) # {}}

\* A long clause forces a literal or is falsified, in any order; binary
\* clauses come first again.  The watches of a literal are visited to the end
\* even if there is a conflict.
ProbePropagate ==
  /\ Running("probe") /\ job.trail # <<>>
  /\ \E k \in ForcingClauses :
       \E lit \in Forced(k) :
         IF -lit \in True(db, job)
         THEN /\ job.conflict = 0
              /\ job' = [job EXCEPT !.conflict = k]
              /\ db' = db
         ELSE \E dom \in {DominatorOf(job, Falsifying(job, db.cl[k]))} :
              /\ db' = HyperBinaryResolve(job, k, lit, dom)
              /\ job' = Propagate2(db', [job EXCEPT !.trail = Append(@, [lit |-> lit, parent |-> dom])],
                                   Len(job.trail) + 1)
  /\ propfixed' = Propfixed(job')
  /\ UNCHANGED <<checked, left, probes>>

\* No conflict: back to the root level.
ProbeDone ==
  /\ Running("probe") /\ job.trail # <<>> /\ job.conflict = 0
  /\ ForcingClauses = {}
  /\ job' = [job EXCEPT !.trail = <<>>]
  /\ UNCHANGED <<db, checked, left, probes, propfixed>>

\* The literals from l up to the probe, without l.
RECURSIVE Ancestors(_, _)
Ancestors(j, l) ==
  IF ParentOf(j, l) = 0 THEN <<>> ELSE <<ParentOf(j, l)>> \o Ancestors(j, ParentOf(j, l))

\* A conflict: the dominator of the falsified clause is false, and then so
\* are its parents up to the probe.
FailedLiteral ==
  /\ Running("probe") /\ job.conflict # 0
  /\ \E uip \in {DominatorOf(job, Falsifying(job, db.cl[job.conflict]))} :
       LET Step(D, l) ==
             LET F(x) == IF x.unsat \/ Val(x, l) < 0 THEN x
                         ELSE IF Val(x, l) > 0 THEN LearnEmpty(x)
                         ELSE RootPropagate(AssignUnit(x, -l))
             IN ByValue(F, D)
       IN db' = FoldLeft(Step, RootPropagate(AssignUnit(db, -uip)), Ancestors(job, uip))
  /\ job' = [job EXCEPT !.trail = <<>>, !.conflict = 0]
  /\ UNCHANGED <<checked, left, probes, propfixed>>

\* No probe is left, or the limit was hit.
ProbeEnd ==
  /\ Running("probe") /\ job.trail = <<>>
  /\ job' = Idle
  /\ UNCHANGED <<db, checked, left, probes, propfixed>>

-----------------------------------------------------------------------------
(* Forward subsumption and strengthening.                                  *)

\* Clauses with no fixed literal and at least two variables in clauses that
\* were added since the last complete round.
Schedule ==
  {k \in Live(db) : LET c == db.cl[k] IN
     /\ LikelyToBeKept(opts.kept, c)
     /\ \A l \in c.lits : Active(db, l)
     /\ Cardinality(VarsOf(c.lits) \cap db.subsume) >= 2}

\* The smallest first.  Clauses left over from a round that hit its limit are
\* tried before the others are.
SubsumeBegin ==
  /\ Starts
  /\ job' = [name |-> "subsume", connected |-> {}, shrunken |-> {},
             todo |-> RSort(Ascending(Schedule), [k \in Schedule |-> Size(db.cl[k])], Var + 1)]
  /\ left' = IF left \cap Schedule # {} THEN left
             ELSE left \cup {k \in Schedule : Size(db.cl[k]) > 2}
  /\ UNCHANGED <<db, checked, probes, propfixed, lastFixed>>

Flip(c, l) == (c \ {l}) \cup {-l}

\* Only a clause of which all variables are marked can subsume another.
Connect(D, k) == IF VarsOf(D.cl[k].lits) \subseteq D.subsume THEN {k} ELSE {}

\* Clause e subsumes clause k.  A redundant clause that subsumes an
\* irredundant one becomes irredundant.
SubsumeClause(D, e, k) ==
  [MarkGarbage(D, k) EXCEPT !.cl[e].red = @ /\ D.cl[k].red]

\* Clause k is connected and not tried: binary clauses and those that are not
\* left over.
SubsumeConnect ==
  /\ Running("subsume") /\ job.todo # <<>>
  /\ LET k == Head(job.todo) IN
     /\ Size(db.cl[k]) = 2 \/ k \notin left
     /\ job' = [job EXCEPT !.todo = Tail(@), !.connected = @ \cup Connect(db, k)]
  /\ UNCHANGED <<db, checked, left, probes, propfixed>>

\* Clause k is tried and subsumed, strengthened or neither by a connected
\* clause; the order of the occurrences decides which clause is found.
SubsumeTry ==
  /\ Running("subsume") /\ job.todo # <<>>
  /\ LET k == Head(job.todo)
         c == db.cl[k].lits
         Subsuming == {e \in job.connected : db.cl[e].lits \subseteq c}
         Strengthening == {<<e, l>> \in job.connected \X c : -l \in db.cl[e].lits
                             /\ db.cl[e].lits \subseteq Flip(c, l)}
     IN /\ Size(db.cl[k]) > 2 /\ k \in left
        /\ left' = left \ {k}
        /\ \/ \E e \in Subsuming :
                /\ db' = SubsumeClause(db, e, k)
                /\ job' = [job EXCEPT !.todo = Tail(@)]
           \/ \E p \in Strengthening :
                /\ db' = ShrinkClause(db, opts.kept, k, {p[2]})
                /\ job' = [job EXCEPT !.todo = Tail(@), !.shrunken = @ \cup {k},
                                      !.connected = @ \cup Connect(db', k)]
           \/ /\ Subsuming = {} /\ Strengthening = {}
              /\ db' = db
              /\ job' = [job EXCEPT !.todo = Tail(@), !.connected = @ \cup Connect(db, k)]
  /\ UNCHANGED <<checked, probes, propfixed>>

\* After a complete round only the variables of shrunken clauses are marked.
\* Watches are connected again and units propagated.
SubsumeEnd ==
  /\ Running("subsume")
  /\ opts.subsumelimited \/ job.todo = <<>>
  /\ LET D == IF job.todo = <<>> THEN [db EXCEPT !.subsume = {}] ELSE db
         Mark(E, k) == LET F(x) == MarkAdded(x, x.cl[k]) IN ByValue(F, E)
     IN db' = RootPropagate(ConnectWatches(FoldLeft(Mark, D, Ascending(job.shrunken))))
  /\ job' = Idle
  /\ UNCHANGED <<checked, left, probes, propfixed>>

-----------------------------------------------------------------------------
Next ==
  \/ GarbageCollection
  \/ Deduplicate
  \/ TransredBegin \/ TransredStep \/ TransredEnd
  \/ ProbeBegin \/ ProbeDecide \/ ProbePropagate \/ ProbeDone \/ FailedLiteral \/ ProbeEnd
  \/ SubsumeBegin \/ SubsumeConnect \/ SubsumeTry \/ SubsumeEnd

Spec == Init /\ [][Next]_vars

-----------------------------------------------------------------------------
\* Types, and what never happens: a clause keeps at least two literals.
SimplifyTypeOK ==
  /\ job.name \in {"idle", "transred", "probe", "subsume", "vivify", "rounds", "walk", "saved",
                  "lucky", "done"}
  /\ db.units \subseteq Lits /\ ~\E l \in db.units : -l \in db.units
  /\ \A k \in DOMAIN db.cl : LET c == db.cl[k] IN
       /\ c.lits \subseteq Lits /\ Size(c) > 1 /\ ~\E l \in c.lits : -l \in c.lits
       /\ c.watch \subseteq c.lits /\ {c.red, c.hyper, c.garbage} \subseteq BOOLEAN
       /\ (Size(c) = 2 /\ ~c.garbage /\ c.lits \cap db.units = {} =>
             c.watch = c.lits \/ (c.red /\ job.name = "vivify"))
  /\ Rng(probes) \subseteq Lits /\ propfixed \in [Lits -> -1..Var]
  /\ checked \cup left \subseteq DOMAIN db.cl

\* The irredundant clauses and the units have the models of the formula the
\* solver was given, after every step of every technique: an irredundant
\* clause is never removed because of clauses that reductions may drop.
Equivalent == ModelsOf(Irredundant(db)) = models

\* Every derived clause follows by unit propagation from what the proof still
\* has, even if it was derived with binary clauses that are garbage.
Justified == db.justified

\* Along a branch of the tree of a probe each literal implies the next: the
\* parent was assigned before, and every model that makes it true makes the
\* literal true.
ImplicationTree ==
  job.name = "probe" =>
    \A i \in 1..Len(job.trail) : LET e == job.trail[i] IN
      IF e.parent = 0 THEN i = 1
      ELSE /\ \E h \in 1..i - 1 : job.trail[h].lit = e.parent
           /\ \A T \in models : SatLit(T, e.parent) => SatLit(T, e.lit)

\* The proof has an antecedent for every derived clause, and the tree of a probe,
\* from which units and binary clauses are read, is a tree of implications.
DerivationsInv ==
  /\ SimplifyTypeOK
  /\ Justified
  /\ ImplicationTree

\* A literal that is not probed again because no unit was found since it was
\* last propagated has no conflict.  With hyper binary resolution it may have
\* one, by a clause derived meanwhile.
SkippedProbesHold ==
  job.name = "probe" /\ ~opts.probehbr /\ job.trail = <<>> =>
    \A l \in Lits : Active(db, l) /\ ~Untried(l) =>
      ~Watched(db, db.units \cup {l}).conflict

\* Between rounds of subsumption that are run to their end, a clause that
\* subsumes another one has only marked variables: a clause with one that is
\* not marked need not be connected.  It fails if rounds hit their limit: the
\* next one tries only what was left over, but resets the marks.
SubsumersMarked ==
  job = Idle /\ ~db.unsat /\ ~opts.subsumelimited =>
    \A d, c \in Live(db) :
      /\ LikelyToBeKept(opts.kept, db.cl[d]) /\ LikelyToBeKept(opts.kept, db.cl[c])
      /\ \A l \in db.cl[c].lits : Active(db, l)
      /\ d # c /\ Size(db.cl[c]) > 2 /\ db.cl[d].lits \subseteq db.cl[c].lits
      => VarsOf(db.cl[d].lits) \subseteq db.subsume

\* Work that is skipped because nothing changed would have found nothing.
SkipsHold ==
  /\ SkippedProbesHold
  /\ SubsumersMarked
=============================================================================
