------------------------------- MODULE Proof -------------------------------
(***************************************************************************)
(* The clauses of the solver and the proof of what it does with them.      *)
(* Every change of a clause is an event that Proof hands to the builder of *)
(* chains, if there is one, and then to the checkers and to the tracers    *)
(* that write files.                                                       *)
(*                                                                         *)
(* The solver learns, shrinks, weakens, restores and deletes clauses in    *)
(* any order; garbage binary clauses are deleted late, since propagation   *)
(* still uses them.  A checker that refuses a clause ends the program      *)
(* (failed).  A clause is a sequence of literals, a chain one of ids.      *)
(***************************************************************************)
EXTENDS LratBuilder, Checker, LratChecker, Tracers

CONSTANTS
  Modes,       \* who finds chains and which checkers are on
  Rounds,      \* scripts: sequences of [add, assume, constrain]
  Candidates,  \* clauses the solver may try to learn
  MaxSteps,    \* a bound on the solver's steps
  IdBits,      \* the width of a word of the extension stack
  ExternalVar  \* the names of the variables in a binary file

ASSUME ProofAssumption ==
  /\ Modes \subseteq {"external", "internal", "drup"}
  /\ MaxSteps \in Nat /\ IdBits \in Nat \ {0} /\ Var \in Nat /\ ExternalVar \in [1..Var -> Nat \ {0}]
  /\ Candidates \subseteq Seq(Lits)
  /\ Rounds \subseteq Seq([add : Seq(Seq(Lits)), assume : Seq(Lits), constrain : Seq(Lits)])

VARIABLES
  mode,
  todo,       \* what is left of the script
  phase,      \* "input", "solving" or "done"
  db,         \* id -> [lits, redundant, garbage]
  weakened,   \* id -> clause: the extension stack
  nextId,     \* the last id that was given to a clause (clause_id)
  original,   \* [last, reserved]: ids of original clauses (original_id, reserved_ids)
  inputs,     \* the clauses the user added
  proof,      \* [b, l, k, file, failed]
  justified,  \* the clause that was refused was implied by propagation
  steps

vars == <<mode, todo, phase, db, weakened, nextId, original, inputs, proof, justified, steps>>

-----------------------------------------------------------------------------
\* Events.

ProofInit(m) ==
  [b |-> BuilderInit, l |-> LratInit(m = "internal"), k |-> CheckerInit, failed |-> FALSE,
   file |-> [lrat |-> LratFileInit, frat |-> FratInit, veripb |-> VeripbInit,
             idrup |-> IdrupInit, lidrup |-> LidrupInit]]

HasBuilder == mode = "external"
HasLrat == mode # "drup"
HasChecker == mode # "internal"

\* Hand an event to the checkers that are on: each gives [ok, ...].
Checked(p, lrat, checker) ==
  [p EXCEPT !.l = IF HasLrat THEN lrat.s ELSE @,
            !.k = IF HasChecker THEN checker.k ELSE @,
            !.failed = (HasLrat /\ ~lrat.ok) \/ (HasChecker /\ ~checker.ok)]

\* The next event, unless a checker stopped the program.
Then(p, F(_)) == Only({IF v.failed THEN v ELSE F(v) : v \in {p}})

AddOriginalClause(p, id, c, restore) ==
  LET f == p.file
      told == Checked(p, LratOriginal(p.l, id, c, restore),
                      [ok |-> TRUE, k |-> CheckerOriginal(p.k, id, c)])
  IN [told EXCEPT
       !.b = IF HasBuilder THEN BuilderOriginal(@, id, c) ELSE @,
       !.file = [f EXCEPT !.lrat = LratFileOriginal(@, id, restore), !.frat = FratOriginal(@, id),
                          !.veripb = VeripbOriginal(@, id),
                          !.idrup = IdrupOriginal(@, id, c, restore),
                          !.lidrup = LidrupOriginal(@, id, restore)]]

\* The builder's chain for a clause, if there is a builder.
Built(p, id, c) ==
  IF HasBuilder THEN BuilderDerived(p.b, id, c) ELSE [ok |-> TRUE, chain |-> <<>>, b |-> p.b]

AddDerivedClause(p, id, redundant, c, given) ==
  LET Told(built) ==
        LET chain == IF HasBuilder THEN built.chain ELSE given
            f == p.file
            told == Checked([p EXCEPT !.b = built.b], LratDerived(p.l, id, c, chain),
                            CheckerDerived(p.k, id, c))
        IN [told EXCEPT !.failed = @ \/ ~built.ok,
             !.file = [f EXCEPT !.lrat = LratFileDerived(@, id, chain),
                                !.frat = FratDerived(@, id, chain),
                                !.veripb = VeripbDerived(@, id, redundant, chain),
                                !.idrup = IdrupDerived(@, c),
                                !.lidrup = LidrupAdd(@, id, chain)]]
  IN Only({Told(x) : x \in {Built(p, id, c)}})

DeleteClause(p, id, redundant, c) ==
  LET f == p.file
      told == Checked(p, LratDelete(p.l, id, c), CheckerDelete(p.k, id, c))
      known == ~HasBuilder \/ Find(p.b.r, id) # 0
  IN [told EXCEPT
       !.failed = @ \/ ~known,
       !.b = IF HasBuilder /\ known THEN BuilderDelete(@, id) ELSE @,
       !.file = [f EXCEPT !.lrat = LratFileDelete(@, id), !.frat = FratDelete(@, id),
                          !.veripb = VeripbDelete(@, id, redundant),
                          !.idrup = IdrupDelete(@, id, c), !.lidrup = LidrupDelete(@, id)]]

WeakenMinus(p, id, c) ==
  LET f == p.file
      told == LratWeaken(p.l, id, c)
  IN [p EXCEPT !.l = IF HasLrat THEN told.s ELSE @, !.failed = HasLrat /\ ~told.ok,
       !.file = [f EXCEPT !.veripb = VeripbWeaken(@, id), !.idrup = IdrupWeaken(@, id),
                          !.lidrup = LidrupWeaken(@, id)]]

StrengthenEvent(p, id) == [p EXCEPT !.file.veripb = VeripbStrengthen(@, id)]

FinalizeClause(p, id, c) ==
  LET told == LratFinalize(p.l, id, c)
  IN [p EXCEPT !.l = IF HasLrat THEN told.s ELSE @, !.failed = HasLrat /\ ~told.ok,
               !.file.frat = FratFinalize(@, id)]

ReportStatus(p) ==
  LET told == LratReport(p.l)
  IN [p EXCEPT !.l = IF HasLrat THEN told.s ELSE @, !.failed = HasLrat /\ ~told.ok,
               !.file.frat = FratReport(@), !.file.lidrup = LidrupFlush(@)]

\* The builder enters the clause and deletes it at once, the checker too.
AddAssumptionClause(p, id, c, given) ==
  LET Told(built) ==
        LET chain == IF HasBuilder THEN built.chain ELSE given
            Deleted(added) == [CheckerDelete(added.k, id, c) EXCEPT !.ok = @ /\ added.ok]
            checked == Only({Deleted(x) : x \in {CheckerDerived(p.k, id, c)}})
            told == Checked(p, LratAssumptionClause(p.l, id, c, chain), checked)
        IN [told EXCEPT !.failed = @ \/ ~built.ok,
             !.b = IF HasBuilder /\ built.ok THEN BuilderDelete(built.b, id) ELSE @,
             !.file.idrup = IdrupAssumptionClause(@, id, c),
             !.file.lidrup = LidrupAssumptionClause(@, id, chain)]
  IN Only({Told(x) : x \in {Built(p, id, c)}})

ConcludeUnsat(p, type, ids) ==
  LET told == LratConclude(p.l, type, ids)
      Conclude(f, id) == IdrupConclude(f, id)
  IN [p EXCEPT !.l = IF HasLrat THEN told.s ELSE @, !.failed = HasLrat /\ ~told.ok,
               !.file.idrup = FoldLeft(Conclude, @, ids),
               !.file.lidrup = LidrupConclude(@, Rng(ids))]

AddAssumption(p, a) == [p EXCEPT !.l = IF HasLrat THEN LratAssume(@, a) ELSE @]
AddConstraint(p, c) == [p EXCEPT !.l = IF HasLrat THEN LratConstrain(@, c) ELSE @]
SolveQuery(p) == [p EXCEPT !.file.lidrup = LidrupFlush(@)]
ResetAssumptions(p) == [p EXCEPT !.l = IF HasLrat THEN LratResetAssumptions(@) ELSE @]
BeginProof(p, id) ==
  [p EXCEPT !.l = IF HasLrat THEN LratBegin(@, id) ELSE @, !.file.lrat.latest = id]

-----------------------------------------------------------------------------
\* The solver.

Unsat == \E id \in DOMAIN db : db[id].lits = <<>>
Entry(c, redundant) == [lits |-> c, redundant |-> redundant, garbage |-> FALSE]

\* Unit clauses, and the literals they fix.
UnitIds == {id \in DOMAIN db : Len(db[id].lits) = 1}
Fixed == {db[id].lits[1] : id \in UnitIds}
UnitId(l) == CHOOSE id \in UnitIds : db[id].lits = <<l>>

\* What follows from the negation of c by propagation, with the clauses used
\* in the order they were: the chain the solver has for c.
Closure(c) ==
  LET Free(st, id) == {l \in Rng(db[id].lits) : -l \notin st.true}
      Step[n \in 0..Var + 1] ==
        IF n = 0 THEN [true |-> {-l : l \in Rng(c)}, chain |-> <<>>, conflict |-> FALSE]
        ELSE LET F(st) ==
               LET next == {id \in DOMAIN db : Cardinality(Free(st, id)) < 2
                                              /\ Rng(db[id].lits) \cap st.true = {}}
                   false == {id \in next : Free(st, id) = {}}
                   id == Min(IF false # {} THEN false ELSE next)
               IN IF st.conflict \/ next = {} THEN st
                  ELSE [true |-> st.true \cup Free(st, id), chain |-> Append(st.chain, id),
                        conflict |-> false # {}]
             IN Only({F(x) : x \in {Step[n - 1]}})
  IN Step[Var + 1]

\* A step ends with a proof, clauses d, weakened clauses w and the last id,
\* unless a checker refuses it.
Commit(p, d, w, id, ok) ==
  IF p.failed
  THEN /\ proof' = [proof EXCEPT !.failed = TRUE]
       /\ justified' = ok
       /\ UNCHANGED <<db, weakened, nextId>>
  ELSE /\ proof' = p /\ db' = d /\ weakened' = w /\ nextId' = id
       /\ UNCHANGED justified

\* The literals of c that P holds of, without repeated ones, in order.
Select(c, P(_)) == SubSeqAt(c, {i \in 1..Len(c) : P(c[i]) /\ \A j \in 1..i - 1 : c[j] # c[i]})

\* The chain of a clause that loses false literals: units, then the clause.
FlushChain(c, id) ==
  LET False(l) == -l \in Fixed
      lits == Select(c, False)
  IN [i \in 1..Len(lits) + 1 |-> IF i > Len(lits) THEN id ELSE UnitId(-lits[i])]

NotFalse(l) == -l \notin Fixed

\* [p, d, next]: add an original clause under id.  It may be skipped, or else
\* be replaced by one without repeated and false literals.
AddNewOriginalClause(p, d, id, c, restore, next) ==
  LET new == Select(c, NotFalse)
      skipped == Unsat \/ IsTautology(c) \/ Rng(c) \cap Fixed # {}
      replaced == ~skipped /\ Len(new) < Len(c)
      Derive(x) ==
        IF replaced THEN AddDerivedClause(x, next + 1, FALSE, new,
                                          IF mode = "internal" THEN FlushChain(c, id) ELSE <<>>)
        ELSE x
      Delete(x) == IF skipped \/ replaced THEN DeleteClause(x, id, FALSE, c) ELSE x
  IN [p |-> Then(Then(AddOriginalClause(p, id, c, restore), Derive), Delete),
      d |-> IF skipped THEN d
            ELSE IF replaced THEN With(d, next + 1, Entry(new, FALSE)) ELSE With(d, id, Entry(c, FALSE)),
      next |-> IF replaced THEN next + 1 ELSE next]

AddOriginal ==
  /\ phase = "input" /\ ~proof.failed /\ todo # <<>> /\ Head(todo).add # <<>>
  /\ LET c == Head(Head(todo).add)
         reserved == original.last < original.reserved
         id == IF reserved THEN original.last + 1 ELSE nextId + 1
     IN /\ \E x \in {AddNewOriginalClause(proof, db, id, c, FALSE, IF reserved THEN nextId ELSE id)} :
             Commit(x.p, x.d, weakened, x.next, TRUE)
        /\ original' = IF reserved THEN [original EXCEPT !.last = id] ELSE original
        /\ inputs' = inputs \cup {Rng(c)}
        /\ todo' = [todo EXCEPT ![1].add = Tail(@)]
  /\ UNCHANGED <<mode, phase, steps>>

\* Assumptions, a constraint and the query itself.
Query ==
  /\ phase = "input" /\ ~proof.failed /\ todo # <<>> /\ Head(todo).add = <<>>
  /\ LET r == Head(todo)
         assumed == FoldLeft(AddAssumption, proof, r.assume)
     IN proof' = SolveQuery(IF r.constrain = <<>> THEN assumed ELSE AddConstraint(assumed, r.constrain))
  /\ phase' = "solving"
  /\ UNCHANGED <<mode, todo, db, weakened, nextId, original, inputs, justified, steps>>

Solving ==
  /\ phase = "solving" /\ ~proof.failed /\ ~Unsat /\ steps < MaxSteps
  /\ steps' = steps + 1
  /\ UNCHANGED <<mode, todo, phase, original, inputs>>

\* Learn a clause, as analysis and inprocessing do.  Its literals are not
\* fixed; units and the empty clause are irredundant.
Learn(c, redundant) ==
  /\ Solving
  /\ redundant => Len(c) > 1
  /\ \A l \in Rng(c) : l \notin Fixed /\ -l \notin Fixed
  /\ \A id \in DOMAIN db : Rng(db[id].lits) # Rng(c)
  /\ \E cl \in {Closure(c)} :
     \E p \in {AddDerivedClause(proof, nextId + 1, redundant, c,
                                IF mode = "internal" THEN cl.chain ELSE <<>>)} :
       Commit(p, With(db, nextId + 1, Entry(c, redundant)), weakened, nextId + 1, cl.conflict)

\* Replace a clause by a part of it: the new one is added, then the old one is
\* deleted.
Replace(id, c, chain, ok) ==
  LET e == db[id]
      Delete(x) == DeleteClause(x, id, e.redundant, e.lits)
  IN \E p \in {Then(AddDerivedClause(proof, nextId + 1, e.redundant, c,
                                     IF mode = "internal" THEN chain ELSE <<>>), Delete)} :
       Commit(p, With(Without(db, id), nextId + 1, [e EXCEPT !.lits = c]), weakened, nextId + 1, ok)

\* Garbage collection removes false literals of clauses that are not satisfied.
Flush(id) ==
  /\ Solving
  /\ LET c == db[id].lits  left == Select(c, NotFalse) IN
     /\ ~db[id].garbage /\ Rng(c) \cap Fixed = {} /\ Len(left) > 1 /\ Len(left) < Len(c)
     /\ Replace(id, left, FlushChain(c, id), TRUE)

\* Remove literal l of a clause that has three or more.
StrengthenClause(id, l) ==
  /\ Solving
  /\ ~db[id].garbage /\ Len(db[id].lits) > 2 /\ l \in Rng(db[id].lits)
  /\ LET Other(m) == m # l
         left == Select(db[id].lits, Other)
     IN \E cl \in {Closure(left)} : cl.conflict /\ Replace(id, left, cl.chain, TRUE)

\* A clause that is not needed any more is garbage; the deletion of a binary
\* one is traced when it is collected.
MarkGarbageIn(p, d, id) ==
  IF Len(d[id].lits) = 2 THEN [p |-> p, d |-> [d EXCEPT ![id].garbage = TRUE]]
  ELSE [p |-> DeleteClause(p, id, d[id].redundant, d[id].lits), d |-> Without(d, id)]

MarkClauseGarbage(id) ==
  /\ Solving
  /\ LET e == db[id] IN
     /\ ~e.garbage /\ Len(e.lits) > 1
     /\ \/ e.redundant
        \/ Rng(e.lits) \cap Fixed # {}
        \/ \E o \in DOMAIN db \ {id} : ~db[o].redundant /\ ~db[o].garbage
                                       /\ Rng(db[o].lits) \subseteq Rng(e.lits)
  /\ \E x \in {MarkGarbageIn(proof, db, id)} : Commit(x.p, x.d, weakened, nextId, TRUE)

\* Delete the garbage clauses: [p, d].
DeleteGarbageClauses(p, d) ==
  LET ids == Ascending({id \in DOMAIN d : d[id].garbage})
      Step(x, id) == LET F(y) == DeleteClause(y, id, d[id].redundant, d[id].lits) IN Then(x, F)
  IN [p |-> FoldLeft(Step, p, ids), d |-> [id \in DOMAIN d \ Rng(ids) |-> d[id]]]

CollectGarbage ==
  /\ Solving
  /\ \E id \in DOMAIN db : db[id].garbage
  /\ \E x \in {DeleteGarbageClauses(proof, db)} : Commit(x.p, x.d, weakened, nextId, TRUE)

\* An irredundant clause goes to the extension stack.
Weaken(id) ==
  /\ Solving
  /\ ~db[id].garbage /\ ~db[id].redundant /\ Len(db[id].lits) > 1
  /\ LET Garbage(p) == MarkGarbageIn(p, db, id).p
         d == MarkGarbageIn(proof, db, id).d
     IN \E p \in {Then(WeakenMinus(proof, id, db[id].lits), Garbage)} :
          Commit(p, d, With(weakened, id, db[id].lits), nextId, TRUE)

\* A signed word, and an id in the two words it is kept in on the stack.  The
\* upper one is shifted in the wrong direction and always 0.
Word(n) == LET w == n % 2^IdBits IN IF w >= 2^(IdBits - 1) THEN w - 2^IdBits ELSE w
PushId(id) == <<Word(id * 2^IdBits), Word(id)>>

\* The id that restore_clauses reads back, without a sign in two words: it is
\* another one from 2^(IdBits - 1) on.
IdOnStack(id) ==
  (PushId(id)[1] * 2^IdBits + PushId(id)[2]) % 2^(2 * IdBits)

\* A clause comes back under its id.  Garbage binary clauses are deleted
\* before: the clause may be one of them.
Restore(id) ==
  /\ Solving
  /\ \E g \in {DeleteGarbageClauses(proof, db)} :
     \E x \in {AddNewOriginalClause(g.p, g.d, IdOnStack(id), weakened[id], TRUE, nextId)} :
       Commit([x.p EXCEPT !.failed = @ \/ g.p.failed], x.d, Without(weakened, id), x.next, TRUE)

\* A redundant clause becomes irredundant, to subsume an irredundant one.
Promote(id) ==
  /\ Solving
  /\ db[id].redundant /\ ~db[id].garbage
  /\ \E o \in DOMAIN db \ {id} : Rng(db[id].lits) \subseteq Rng(db[o].lits)
  /\ Commit(StrengthenEvent(proof, id), [db EXCEPT ![id].redundant = FALSE], weakened, nextId, TRUE)

-----------------------------------------------------------------------------
\* Finalize every clause and report.
Finalized(p) ==
  LET Step(x, id) == LET F(y) == FinalizeClause(y, id, db[id].lits) IN Then(x, F)
  IN Then(FoldLeft(Step, p, Ascending(DOMAIN db)), ReportStatus)

\* Clauses over the negation of failed assumptions, and for a constraint one
\* more literal, the negation of each of the constraint's in turn.
FailedClauses(c, constraint) ==
  IF constraint = <<>> THEN <<c>>
  ELSE [i \in 1..Len(constraint) |-> Append(c, -Reverse(constraint)[i])]

\* Conclude from the empty clause.
FinishConflict(p) ==
  LET Conclude(x) == ConcludeUnsat(x, "CONFLICT", <<CHOOSE id \in DOMAIN db : db[id].lits = <<>> >>)
  IN Then(p, Conclude)

\* Conclude from the clauses over assumptions and constraint.
FinishFailed(p, cs, type) ==
  LET Told[i \in 0..Len(cs)] ==
        IF i = 0 THEN p
        ELSE Only({IF x.failed THEN x
                   ELSE AddAssumptionClause(x, nextId + i, cs[i],
                          IF mode = "internal" THEN Closure(cs[i]).chain ELSE <<>>) :
                     x \in {Told[i - 1]}})
      Conclude(x) == ConcludeUnsat(x, type, [i \in 1..Len(cs) |-> nextId + i])
  IN Then(Told[Len(cs)], Conclude)

\* The result of the query: unsatisfiable because of the clauses, of the
\* assumptions or of the constraint, or anything else.
Finish(result) ==
  /\ phase = "solving" /\ ~proof.failed
  /\ phase' = "done"
  /\ LET r == Head(todo)
         constraint == IF result = "CONSTRAINT" THEN r.constrain ELSE <<>>
     IN \E f \in {Finalized(proof)} :
        \/ /\ result = "OTHER" /\ ~Unsat
           /\ Commit(f, db, weakened, nextId, TRUE)
        \/ /\ result = "CONFLICT" /\ Unsat
           /\ \E p \in {FinishConflict(f)} : Commit(p, db, weakened, nextId, TRUE)
        \/ /\ result \in {"ASSUMPTIONS", "CONSTRAINT"} /\ ~Unsat
           /\ result = "CONSTRAINT" => r.constrain # <<>>
           /\ \E n \in 0..Len(r.assume) :
                LET cs == FailedClauses([i \in 1..n |-> -r.assume[i]], constraint) IN
                /\ Rng(cs) # {<<>>}
                /\ \A c \in Rng(cs) : ~IsTautology(c) /\ Closure(c).conflict
                /\ \E p \in {FinishFailed(f, cs, result)} :
                     Commit(p, db, weakened, nextId + Len(cs), TRUE)
  /\ UNCHANGED <<mode, todo, original, inputs, steps>>

\* The next call after a query forgets the assumptions.
Reset ==
  /\ phase = "done" /\ ~proof.failed
  /\ phase' = "input"
  /\ todo' = Tail(todo)
  /\ proof' = ResetAssumptions(proof)
  /\ UNCHANGED <<mode, db, weakened, nextId, original, inputs, justified, steps>>

ProofStart ==
  /\ mode \in Modes
  /\ todo \in Rounds
  /\ phase = "input" /\ db = <<>> /\ weakened = <<>> /\ inputs = {}
  /\ \E reserve \in BOOLEAN :
       LET n == IF reserve THEN Len(todo[1].add) ELSE 0 IN
       /\ original = [last |-> 0, reserved |-> n]
       /\ nextId = n
       /\ proof = IF reserve THEN BeginProof(ProofInit(mode), n) ELSE ProofInit(mode)
  /\ justified = FALSE /\ steps = 0

ProofNext ==
  \/ AddOriginal \/ Query \/ CollectGarbage \/ Reset
  \/ \E c \in Candidates, redundant \in BOOLEAN : Learn(c, redundant)
  \/ \E id \in DOMAIN db :
       \/ Flush(id) \/ MarkClauseGarbage(id) \/ Weaken(id) \/ Promote(id)
       \/ \E l \in Lits : StrengthenClause(id, l)
  \/ \E id \in DOMAIN weakened : Restore(id)
  \/ \E result \in {"OTHER", "CONFLICT", "ASSUMPTIONS", "CONSTRAINT"} : Finish(result)

ProofSpec == ProofStart /\ [][ProofNext]_vars

-----------------------------------------------------------------------------
\* The parts of the state have their types and ids are below nextId.
ProofTypeOK ==
  /\ mode \in Modes /\ phase \in {"input", "solving", "done"}
  /\ DOMAIN db \cup DOMAIN weakened \subseteq 1..nextId
  /\ \A id \in DOMAIN db : Rng(db[id].lits) \subseteq Lits
  /\ \A id \in DOMAIN weakened : Rng(weakened[id]) \subseteq Lits
  /\ original.last <= original.reserved /\ steps \in 0..MaxSteps
  /\ {proof.failed, justified, proof.b.inconsistent, proof.k.inconsistent} \subseteq BOOLEAN

Assignments == {S \in SUBSET Lits : \A v \in 1..Var : v \in S <=> -v \notin S}
Models(cs) == {S \in Assignments : \A c \in cs : c \cap S # {}}

\* Whatever the checkers let pass follows from the clauses the user added: in
\* every mode one checker alone keeps an unjustified clause out.
DerivedFollow ==
  \A S \in Models(inputs) :
    /\ \A id \in DOMAIN db : Rng(db[id].lits) \cap S # {}
    /\ \A id \in DOMAIN weakened : Rng(weakened[id]) \cap S # {}

\* No checker refuses a clause that follows by propagation, nor the deletion,
\* restoring, finalizing or conclusion of what the solver has.
JustifiedAccepted == proof.failed => ~justified

\* Chains can be read off the builder's trail: every literal has a reason in
\* use and all that it needs is in front of it, after any deletion; and the
\* trail is complete, so that a clause is refused only if it is not implied.
ChainsInOrder == HasBuilder => Topological(proof.b) /\ Propagates(proof.b)

\* The chain kept for an inconsistent formula refutes it with clauses that
\* are still there.
CachedChainRefutes ==
  HasBuilder /\ proof.b.chain # <<>> => ChainRefutes(proof.l.lits, <<>>, proof.b.chain)

\* Watch lists, reasons and units never hold a clause that was freed.
WatchesIntact ==
  /\ HasBuilder => NoDangling(proof.b.r) /\ BuilderKeeps(proof.b)
  /\ HasChecker => NoDangling(proof.k.r)

\* The tables of the builder and the checkers hold the clauses of the solver;
\* the checker has no units and no clause that was satisfied when it came.
TablesAgree ==
  LET Table(r) == {<<r.id[k], Rng(r.lits[k])>> : k \in Alive(r)}
      Clauses == {<<id, Rng(db[id].lits)>> : id \in DOMAIN db}
  IN /\ HasBuilder => Table(proof.b.r) = Clauses
     /\ HasLrat => {<<id, Rng(proof.l.lits[id])>> : id \in DOMAIN proof.l.lits} = Clauses
                   /\ DOMAIN proof.l.saved = DOMAIN weakened
     /\ HasChecker /\ ~proof.k.inconsistent =>
          \A c \in Clauses \cup Table(proof.k.r) :
            c \in Clauses \cap Table(proof.k.r) \/ c[2] \cap Rng(proof.k.r.trail) # {}

\* The chain builder and the checkers hold the clauses of the solver under the
\* same identifiers, freed clauses are nowhere, and every chain can be read off in
\* order from clauses that are still there.
CheckersInv ==
  /\ ProofTypeOK
  /\ WatchesIntact
  /\ TablesAgree
  /\ ChainsInOrder
  /\ CachedChainRefutes

BagOf(f) == [c \in {Rng(f[id]) : id \in DOMAIN f} |-> Cardinality({id \in DOMAIN f : Rng(f[id]) = c})]

\* A reader of each file knows the clauses of the solver and the weakened
\* ones, and no line names a clause that is not there: with deletions that are
\* put off, batches, and weakened clauses whose deletion is still to come.
FilesReplay ==
  LET f == proof.file
      gone == DOMAIN weakened \ DOMAIN db
      lidrup == LidrupFlush(f.lidrup).view
  IN /\ f.lrat.restored \/ (~f.lrat.view.bad /\ f.lrat.view.active \ f.lrat.delete = DOMAIN db)
     /\ ~f.frat.view.bad /\ f.frat.view.active = DOMAIN db
     /\ ~f.veripb.view.bad /\ f.veripb.view.active = DOMAIN db \cup gone
     /\ f.veripb.view.weak = {id \in DOMAIN db : ~db[id].redundant} \cup gone
     /\ ~f.idrup.bad /\ f.idrup.imported = <<>>
     /\ f.idrup.active = BagOf([id \in DOMAIN db |-> db[id].lits])
     /\ f.idrup.weak = BagOf([id \in gone |-> weakened[id]])
     /\ ~lidrup.bad /\ lidrup.active = DOMAIN db /\ lidrup.weak = gone

\* A binary line is read back as the numbers that were put into it.
BinaryReadable ==
  \A id \in DOMAIN db, format \in {"lrat", "frat", "lidrup"} :
    LET Ext(l) == IF l < 0 THEN -ExternalVar[-l] ELSE ExternalVar[l]
        c == [i \in 1..Len(db[id].lits) |-> Ext(db[id].lits[i])]
        chain == <<id, 100 * id>>
        Code(l) == 2 * VarOf(l) + (IF l < 0 THEN 1 ELSE 0)
        N(inChain, n) == IF format = "lrat" \/ (format = "frat" /\ inChain) THEN 2 * n ELSE n
    IN ReadNumbers(Line(format, id, c, chain)) =
         <<N(FALSE, id)>> \o [i \in 1..Len(c) |-> Code(c[i])] \o <<0>>
         \o (IF format = "frat" THEN <<108>> ELSE <<>>) \o <<N(TRUE, id), N(TRUE, 100 * id), 0>>

\* Every proof file, read from its start, gives the reader what the solver has,
\* line by line and number by number.
FilesInv ==
  /\ FilesReplay
  /\ BinaryReadable
=============================================================================
