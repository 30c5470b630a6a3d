-------------------------------- MODULE Flip --------------------------------
(***************************************************************************)
(* flip () and flippable () on the assignment a search has found, and what *)
(* the search does with a trail whose literals were flipped.               *)
(*                                                                         *)
(* Both calls first propagate the trail again without blocking literals    *)
(* (propergate), until every long clause watches a true literal, and then  *)
(* only look at the clauses that watch the literal to be flipped.  A       *)
(* flipped literal keeps its place on the trail, its level and its reason. *)
(* Blocking literals and saved positions are left out as in Search: which  *)
(* true literal replaces a watch is arbitrary, and so is the order in      *)
(* which the clauses of one watch list are visited.                        *)
(***************************************************************************)
EXTENDS Search

VARIABLES
  propergated, \* literals of the trail propagated without blocking literals
  tainted,     \* Internal::tainted_literal as a variable, or 0
  flips,       \* the assigned variables whose value is not the search's
  answer,      \* of the last flip () or flippable ()
  extended,    \* External::extended
  vals         \* External::vals while it is extended, as the true literals

flipVars == <<propergated, tainted, flips, answer, extended, vals>>

FlipInit ==
  /\ Init
  /\ propergated = 0 /\ tainted = 0 /\ flips = {}
  /\ answer = FALSE /\ extended = FALSE /\ vals = {}

-----------------------------------------------------------------------------
(* propergate *)

\* The false literals whose watches are visited again.
Unpropergated == {-t.trail[k].lit : k \in propergated + 1..Len(t.trail)}

\* The long clauses of which no watch is true: a blocking literal has kept
\* them from being looked at.
Blocked ==
  {i \in DOMAIN db : /\ Long(i) /\ ~db[i].garbage
                     /\ ~Satisfied(t, db[i].watch)
                     /\ db[i].watch \cap Unpropergated # {}}

\* The watch that is visited first.
FirstVisited(i) ==
  CHOOSE l \in db[i].watch \cap Unpropergated :
    \A k \in db[i].watch \cap Unpropergated : Pos(t, l) <= Pos(t, k)

\* True literals to watch instead in the clauses S of d.
Replacements(d, S) ==
  {r \in [S -> TrueLits(t)] : \A i \in S : r[i] \in d[i].lits \ d[i].watch}

\* In the clauses for which r has a replacement it is watched instead of w.
MoveWatches(d, w, r) ==
  [i \in DOMAIN d |->
     IF i \in DOMAIN r THEN [d[i] EXCEPT !.watch = (@ \ {w[i]}) \cup {r[i]}] ELSE d[i]]

\* A mutant: blocking literals are trusted.
NotPropergated == {db}

\* The databases propergate may leave.
Propergate ==
  {MoveWatches(db, [i \in Blocked |-> FirstVisited(i)], r) : r \in Replacements(db, Blocked)}

-----------------------------------------------------------------------------
(* The calls. *)

TrueLit(v) == IF Val(t, v) > 0 THEN v ELSE -v

\* The clauses of d that watch the true literal l beside a false one.
Depending(d, l) ==
  {i \in DOMAIN d : l \in d[i].watch /\ \A k \in d[i].watch \ {l} : Val(t, k) < 0}

\* Binary clauses can not watch another literal, garbage is not left out.
Stuck(d, l) == \E i \in Depending(d, l) : ~Long(i)

\* Garbage is dropped from the watch list.
Dependent(d, l) == {i \in Depending(d, l) : Long(i) /\ ~d[i].garbage}

Movable(d, l) == {i \in Dependent(d, l) : Satisfied(t, d[i].lits \ d[i].watch)}

MayFlip(d, l) == ~Stuck(d, l) /\ Movable(d, l) = Dependent(d, l)

\* The clauses whose watch is replaced: if the call fails those that happen
\* to be visited before one that can not be repaired.
Repaired(d, l) ==
  IF Stuck(d, l) THEN {{}}
  ELSE IF MayFlip(d, l) THEN {Dependent(d, l)}
  ELSE SUBSET Movable(d, l)

FlipLit(v) == [t EXCEPT !.trail[Pos(t, v)].lit = -@]

\* A mutant: the first flipped literal stays the tainted one.
TaintedFirst(v) == IF opts.ilb /\ tainted = 0 THEN v ELSE tainted

\* The flipped literal of the lowest level, with lazy backtracking.
Taint(v) ==
  IF opts.ilb /\ (tainted = 0 \/ LevelOf(t, v) < LevelOf(t, tainted)) THEN v ELSE tainted

\* The state SATISFIED, in which both calls are allowed.
SATISFIED == pc = "done" /\ result = 10

\* Literals assigned at the root level are not active.
Active(v) == Fixed(t, v) = 0

\* Both calls on an inactive literal.
Refuse(v) ==
  /\ SATISFIED /\ ~Active(v)
  /\ answer' = FALSE
  /\ UNCHANGED <<vars, propergated, tainted, flips, extended, vals>>

\* The variables that flip () and flippable () leave alone.
Untouched ==
  UNCHANGED <<apiVars, todo, conflict, unsat, input, unsatConstraint, failed,
              pc, result, fresh, reductions>>

\* A mutant: the extension stays.
KeepExtended == UNCHANGED <<extended, vals>>

ResetExtended == extended' = FALSE /\ vals' = {}

FlipCalled(v) ==
  LET l == TrueLit(v) IN
  /\ SATISFIED /\ Active(v)
  /\ \E d \in Propergate :
       /\ \E S \in Repaired(d, l) : \E r \in Replacements(d, S) :
            db' = MoveWatches(d, [i \in S |-> l], r)
       /\ answer' = MayFlip(d, l)
  /\ propergated' = Len(t.trail)
  /\ t' = IF answer' THEN FlipLit(v) ELSE t
  /\ tainted' = IF answer' THEN Taint(v) ELSE tainted
  /\ flips' = IF ~answer' THEN flips ELSE IF v \in flips THEN flips \ {v} ELSE flips \cup {v}
  /\ IF answer' THEN ResetExtended ELSE UNCHANGED <<extended, vals>>
  /\ Untouched

\* flippable () only changes what is left out here.
FlippableCalled(v) ==
  /\ SATISFIED /\ Active(v)
  /\ \E d \in Propergate : db' = d /\ answer' = MayFlip(d, TrueLit(v))
  /\ propergated' = Len(t.trail)
  /\ UNCHANGED <<t, tainted, flips, extended, vals>>
  /\ Untouched

\* val () extends the assignment when that has not been done.
ValCalled ==
  /\ SATISFIED /\ ~extended
  /\ extended' = TRUE /\ vals' = TrueLits(t)
  /\ UNCHANGED <<vars, propergated, tainted, flips, answer>>

-----------------------------------------------------------------------------
(* The search goes on. *)

\* What the end of backtrack () does.
AfterBacktrack ==
  /\ propergated' = IF Level(t') < Level(t) THEN 0 ELSE propergated
  /\ tainted' = IF tainted # 0 /\ LevelOf(t, tainted) > Level(t') THEN 0 ELSE tainted
  /\ flips' = {v \in flips : LevelOf(t, v) <= Level(t')}

AddNext == Ready /\ input # <<>> /\ input[1].add # <<>>

\* add_new_original_clause leaves the tainted literal's level first.
BacktrackTainted ==
  /\ AddNext /\ tainted # 0
  /\ t' = Backtrack(t, LevelOf(t, tainted) - 1)
  /\ AfterBacktrack
  /\ UNCHANGED <<apiVars, db, todo, conflict, unsat, input, unsatConstraint, failed,
                 pc, result, fresh, reductions, answer, extended, vals>>

\* A step of the search or a call of its user; every call that leaves
\* SATISFIED resets the extension.
SearchStep ==
  /\ AddNext => tainted = 0
  /\ Next
  /\ AfterBacktrack
  /\ IF pc' = "done" THEN UNCHANGED <<extended, vals>> ELSE ResetExtended
  /\ UNCHANGED answer

FlipNext ==
  \/ SearchStep \/ BacktrackTainted \/ ValCalled
  \/ \E v \in Vars : FlipCalled(v) \/ FlippableCalled(v) \/ Refuse(v)

FlipSpec == FlipInit /\ [][FlipNext]_<<vars, flipVars>>

-----------------------------------------------------------------------------
(* Properties. *)

\* The clauses a flip must not falsify: binary clauses count although they are
\* garbage, they are only flushed by the next collection.
WatchedIds == {i \in Ids : ~db[i].garbage \/ ~Long(i)}

\* Would all of them be satisfied if v had the other value?
StaySatisfied(v) ==
  \A i \in WatchedIds : \E l \in db[i].lits :
    IF VarOf(l) = v THEN Val(t, l) < 0 ELSE Val(t, l) > 0

\* Looking at the clauses that watch the literal is enough: flip () and
\* flippable () say yes exactly when the other value satisfies every clause.
FlipAnswers ==
  [][\A v \in Vars :
       FlipCalled(v) \/ FlippableCalled(v) => (answer' <=> StaySatisfied(v))]_<<vars, flipVars>>

FlipTypeOK ==
  /\ propergated \in 0..Len(t.trail) /\ tainted \in {0} \cup Vars /\ flips \subseteq Vars
  /\ \A k \in Positions(t) : t.trail[k].lit \in LitsOf(maxVar)
  /\ \A i \in Ids :
       /\ DOMAIN db[i] = {"lits", "watch", "redundant", "garbage"}
       /\ db[i].lits \subseteq LitsOf(maxVar) /\ \A l \in db[i].lits : -l \notin db[i].lits
       /\ \E a, b \in db[i].lits : a # b /\ db[i].watch = {a, b}
       /\ Long(i) \/ db[i].lits = db[i].watch
  /\ SATISFIED => \A l \in LitsOf(maxVar) : (l \in TrueLits(t)) # (-l \in TrueLits(t))

\* What the assertions of propergate rely on: a binary clause has a true
\* literal, and a long clause without a true watch will be visited.  No
\* propagation, learning, strengthening or addition, on a trail that was not
\* taken back since the last visit, leaves one that will not be.
BlockedAreVisited ==
  SATISFIED => \A i \in Ids :
    \/ Satisfied(t, db[i].watch)
    \/ Long(i) /\ (db[i].garbage \/ db[i].watch \cap Unpropergated # {})

\* However often the assignment is flipped it satisfies the user's clauses, and
\* the values handed out are its values.
FlippedIsModel ==
  SATISFIED =>
    /\ SatFormula(TrueLits(t) \cap Vars, original)
    /\ extended => vals = TrueLits(t)

\* A search never propagates, analyzes or decides on a trail with a flipped
\* literal: its reason and the decision of its level are stale.  It may only
\* return a complete trail again that no clause, assumption or constraint was
\* given for.  When no flipped literal is left the search finds the trail, the
\* watches and the answers as it would without flips.
SearchResumes ==
  IF flips = {} THEN TrailInv /\ PropagationInv /\ AnswersHold
  ELSE /\ pc # "reduce"
       /\ pc = "search" =>
            Searching /\ SatisfiedAll /\ assumptions = <<>> /\ constraint = {} /\ opts.ilb

\* Flips can rely on the watches, every flipped assignment is a model, it is the
\* one that val () tells, and the search can not go wrong on it.
FlipInv ==
  /\ FlipTypeOK
  /\ BlockedAreVisited
  /\ FlippedIsModel
  /\ SearchResumes
=============================================================================
