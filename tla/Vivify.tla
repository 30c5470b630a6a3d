------------------------------- MODULE Vivify -------------------------------
(***************************************************************************)
(* Vivification next to the simplifiers of Simplify: the negations of the  *)
(* literals of a candidate clause are decided one after the other and      *)
(* propagated without that clause.  The first round tries irredundant      *)
(* clauses and watches no others, the second one redundant clauses and     *)
(* watches all.  Decisions that the next candidate would make too are      *)
(* kept, so a trail with reasons outlives the candidate it was made for.   *)
(*                                                                         *)
(* An entry of the trail is [lit, level, reason], where the reason is a    *)
(* clause or 0 for a decision.  The order in which long clauses are        *)
(* visited is left open, and so is the order of candidates of equal size:  *)
(* glue and the place of a watch are not modelled.                         *)
(***************************************************************************)
EXTENDS Simplify

VARIABLE flagged    \* clauses with the flag 'vivify': scheduled and not tried

vivifyVars == <<vars, flagged>>

VivifyInit == Init /\ flagged = {}

-----------------------------------------------------------------------------
(* A round.                                                                *)

\* Only irredundant clauses are watched while those are vivified.
ConnectFor(D, red) ==
  [ConnectWatches(D) EXCEPT !.cl = [k \in DOMAIN D.cl |->
     IF D.cl[k].red /\ ~red THEN [D.cl[k] EXCEPT !.watch = {}] ELSE ConnectWatches(D).cl[k]]]

\* A mutant: redundant clauses propagate too.
ConnectedAll(D, red) == DOMAIN D.cl

\* The clauses that can propagate in such a round.
Connected(D, red) == {k \in DOMAIN D.cl : red \/ ~D.cl[k].red}

\* propagate () with the clauses that are watched.
PropagateFor(D, red) ==
  LET E == RootPropagate([D EXCEPT !.cl = [k \in Connected(D, red) |-> D.cl[k]]])
  IN [E EXCEPT !.cl = D.cl]

ConsiderToVivify(D, red) ==
  {k \in LivesAs(D, red) : LikelyToBeKept(opts.kept, D.cl[k])}

\* The Jeroslow-Wang score of a literal; no clause here has 12 literals.
VivifyNoccs(D, red, l) ==
  MapThenSumSet(LAMBDA k : 2 ^ (12 - Size(D.cl[k])),
                {k \in ConsiderToVivify(D, red) : l \in D.cl[k].lits})

\* Literals of a higher score first, then smaller variables.
MoreNoccs(score, a, b) ==
  score[a] > score[b] \/ (score[a] = score[b]
    /\ (VarOf(a) < VarOf(b) \/ (a = -b /\ a > 0)))

\* The literals S in the order of a round.
SortLits(score, S) ==
  [i \in 1..Cardinality(S) |->
     CHOOSE l \in S : Cardinality({k \in S : MoreNoccs(score, k, l)}) = i - 1]

\* Of identical clauses the first in the clause list stays.
Flush(D, S) == {k \in S : \E j \in S : j < k /\ D.cl[j].lits = D.cl[k].lits}

\* No candidate: c is the candidate, sorted its literals in the order they are
\* decided, next the place of the one to look at, subsume and remove what was
\* found, learned the clause that analysis found, missed the clauses that were
\* candidates while decisions that are still there were made: their watches
\* may be false without having been visited.
NoCandidate ==
  [c |-> 0, sorted |-> <<>>, next |-> 1, subsume |-> FALSE, remove |-> 0, learned |-> {},
   binary |-> FALSE, inst |-> FALSE, conflict |-> 0]

Round(red, todo, score) ==
  NoCandidate @@ [name |-> "vivify", red |-> red, todo |-> todo, score |-> score,
                  trail |-> <<>>, missed |-> {}]

\* Schedule long clauses, remove copies, connect and propagate.
BeginRound(D, red) ==
  LET todo == {k \in ConsiderToVivify(D, red) : Size(D.cl[k]) > 2}
      gone == Flush(D, todo)
      E == [D EXCEPT !.cl = [k \in DOMAIN D.cl |->
              [D.cl[k] EXCEPT !.garbage = @ \/ k \in gone]]]
  IN /\ db' = PropagateFor(ConnectFor(E, red), red)
     /\ job' = Round(red, todo \ gone, [l \in Lits |-> VivifyNoccs(D, red, l)])

VivifyBegin ==
  /\ Starts /\ LivesAs(db, FALSE) # {}
  /\ BeginRound(db, FALSE)
  /\ UNCHANGED <<checked, left, probes, propfixed, lastFixed, flagged>>

Vivifying ==
  /\ Running("vivify")
  /\ UNCHANGED <<checked, left, probes, propfixed>>

-----------------------------------------------------------------------------
(* The trail.                                                              *)

Level(j) == Cardinality({i \in DOMAIN j.trail : j.trail[i].reason = 0})

Decisions(j) == SelectSeq(j.trail, LAMBDA e : e.reason = 0)

\* Without decisions no clause is missed any more.
BackTrack(j, level) ==
  LET t == SelectSeq(j.trail, LAMBDA e : e.level <= level)
  IN [j EXCEPT !.trail = t, !.missed = IF t = <<>> THEN {} ELSE @]

EntryOf(j, l) == CHOOSE e \in Rng(j.trail) : VarOf(e.lit) = VarOf(l)

\* Literals that are true or false by the trail because of a clause.
Implied(j, l) == \E e \in Rng(j.trail) : VarOf(e.lit) = VarOf(l) /\ e.reason # 0

Assume(j, l) ==
  [j EXCEPT !.trail = Append(@, [lit |-> l, level |-> Level(j) + 1, reason |-> 0])]

\* The clauses that force a literal, or are false, but for the candidate.
Forcing(j) ==
  {k \in Connected(db, j.red) \ {j.c} :
     LET c == db.cl[k] IN
     /\ IF Size(c) = 2 THEN \E l \in c.watch : -l \in True(db, j) ELSE ~c.garbage
     /\ c.lits \cap True(db, j) = {}
     /\ \E l \in c.lits : \A x \in c.lits \ {l} : -x \in True(db, j)}

Binaries(S) == {k \in S : Size(db.cl[k]) = 2}

\* Everything was propagated that cannot be missed.
Propagated(j) == Forcing(j) \subseteq j.missed

-----------------------------------------------------------------------------
(* A candidate.                                                            *)

\* Clauses left over from an earlier round come first, then shorter ones, but
\* redundant clauses are sorted by glue before that.
FirstOf(S) ==
  LET T == IF S \cap flagged # {} THEN S \cap flagged ELSE S
  IN IF job.red THEN T ELSE {k \in T : \A h \in T : Size(db.cl[k]) <= Size(db.cl[h])}

\* A mutant: the literal that the candidate itself forces stays.
NotForcedStays(j, k) == j

\* If the candidate is a reason its literal must go.
NotForced(j, k) ==
  LET f == {e \in Rng(j.trail) : e.reason = k}
  IN IF f = {} THEN j ELSE BackTrack(j, (CHOOSE e \in f : TRUE).level - 1)

\* Keep the decisions that the sorted literals would lead to.
Reuse(j, s) ==
  LET d == Decisions(j)
      bad == {i \in DOMAIN d : i <= Len(s) /\ d[i].lit # -s[i]}
  IN IF bad = {} THEN j ELSE BackTrack(j, Min(bad) - 1)

VivifyPick ==
  /\ Vivifying /\ job.c = 0
  /\ \E k \in FirstOf(job.todo) :
       LET c == db.cl[k]
           s == SortLits(job.score, {l \in c.lits : Active(db, l)})
           j == [job EXCEPT !.todo = @ \ {k}]
       IN /\ flagged' = flagged \ {k}
          /\ IF c.garbage \/ c.lits \cap db.units # {}
             THEN db' = MarkGarbage(db, k) /\ job' = j
             ELSE /\ db' = db
                  /\ job' = [Reuse(NotForced(j, k), s) EXCEPT !.c = k, !.sorted = s]

VivifyPropagate ==
  /\ Vivifying /\ job.c # 0 /\ job.conflict = 0 /\ ~job.subsume
  /\ \E k \in IF Binaries(Forcing(job)) # {} THEN Binaries(Forcing(job)) ELSE Forcing(job) :
       LET open == {l \in db.cl[k].lits : -l \notin True(db, job)} IN
       job' = IF open = {} THEN [job EXCEPT !.conflict = k]
              ELSE [job EXCEPT !.trail = Append(@, [lit |-> CHOOSE l \in open : TRUE,
                                                    level |-> Level(job), reason |-> k])]
  /\ UNCHANGED <<db, flagged>>

\* The clauses from which clause k follows with the reasons on the trail, and
\* all their literals.
RECURSIVE Resolved(_, _)
Resolved(j, S) ==
  LET T == S \cup {e.reason : e \in {e \in Rng(j.trail) :
             e.reason # 0 /\ \E k \in S : {e.lit, -e.lit} \cap db.cl[k].lits # {}}}
  IN IF T = S THEN S ELSE Resolved(j, T)

\* The part of the candidate that follows from clause start: the implied
\* literal and the decisions that were used.  Nothing if it were all of it.
Learned(j, start, implied) ==
  LET seen == UNION {db.cl[k].lits : k \in Resolved(j, {start})}
      used == {l \in db.cl[j.c].lits : -l \in Assigned(j) /\ ~Implied(j, l) /\ l \in seen}
      rest == {l \in db.cl[j.c].lits \ implied : Active(db, l)}
  IN IF rest \subseteq used THEN {} ELSE used \cup implied

OnlyBinary(j, start) == \A k \in Resolved(j, {start}) : Size(db.cl[k]) = 2

\* The candidate is subsumed, by the reason of a literal or by a conflict.
Subsumed(j, start, implied) ==
  LET found == [j EXCEPT !.subsume = TRUE, !.conflict = 0]
      back == BackTrack(found, Level(j) - 1)
  IN IF j.red
     THEN [back EXCEPT !.binary = OnlyBinary(j, start),
                       !.learned = IF OnlyBinary(j, start) THEN {} ELSE Learned(j, start, implied)]
     ELSE IF implied = {} THEN back ELSE found

\* Look at the next literal of the candidate.
VivifyLiteral ==
  /\ Vivifying /\ job.c # 0 /\ job.conflict = 0 /\ ~job.subsume
  /\ Propagated(job) /\ job.next <= Len(job.sorted)
  /\ LET l == job.sorted[job.next]
         j == [job EXCEPT !.next = @ + 1]
     IN job' = IF {l, -l} \cap Assigned(job) = {} THEN Assume(j, -l)
               ELSE IF ~Implied(job, l) THEN j
               ELSE IF l \in Assigned(job) THEN Subsumed(j, EntryOf(j, l).reason, {l})
               ELSE [j EXCEPT !.remove = l]
  /\ UNCHANGED <<db, flagged>>

VivifyConflict ==
  /\ Vivifying /\ job.conflict # 0
  /\ job' = IF job.inst
            THEN [BackTrack(job, Level(job) - 1) EXCEPT
                    !.remove = job.sorted[Len(job.sorted)], !.conflict = 0]
            ELSE Subsumed(job, job.conflict, {})
  /\ UNCHANGED <<db, flagged>>

Tried == job.next > Len(job.sorted) /\ Propagated(job)

\* Decide the last literal itself: if that fails it can be removed.
VivifyInstantiate ==
  /\ Vivifying /\ job.c # 0 /\ job.conflict = 0 /\ ~job.subsume /\ ~job.inst /\ Tried
  /\ LET l == job.sorted[Len(job.sorted)] IN
     /\ job.remove # l
     /\ job' = [Assume(BackTrack(job, Level(job) - 1), l) EXCEPT !.inst = TRUE]
  /\ UNCHANGED <<db, flagged>>

-----------------------------------------------------------------------------
(* The outcome.                                                            *)

\* Where to go back to so that a clause can be watched: two literals that are
\* not false, or a true one assigned before all false ones.
WatchLevel(j, c) ==
  LET False == {l \in c : -l \in Assigned(j)}
      rest == c \ False
      top == {l \in False : \A x \in False : PlaceOf(j, -x) <= PlaceOf(j, -l)}
      second == {l \in False \ top : \A x \in False \ top : PlaceOf(j, -x) <= PlaceOf(j, -l)}
      LevelOf(S) == EntryOf(j, CHOOSE l \in S : TRUE).level
  IN IF Cardinality(rest) > 1 THEN Level(j)
     ELSE IF rest = {} THEN LevelOf(second) - 1
     ELSE IF rest \subseteq Assigned(j) /\ LevelOf(rest) <= LevelOf(top) THEN Level(j)
     ELSE LevelOf(top) - 1

\* Replace the candidate by the clause lits.
Strengthen(lits) ==
  IF Cardinality(lits) = 1
  THEN /\ db' = MarkGarbage(PropagateFor(AssignUnit(db, CHOOSE l \in lits : TRUE), job.red), job.c)
       /\ job' = NoCandidate @@ BackTrack(job, 0)
  ELSE /\ db' = MarkGarbage(NewClause(db, opts.kept, lits, db.cl[job.c].red, FALSE), job.c)
       /\ job' = NoCandidate @@ BackTrack(job, WatchLevel(job, lits))

\* A candidate that stays has been ignored by the decisions made for it.
Keep ==
  /\ db' = db
  /\ job' = NoCandidate @@ [job EXCEPT !.missed = IF job.trail = <<>> THEN {} ELSE @ \cup {job.c}]

VivifySubsumed ==
  /\ Vivifying /\ job.subsume
  /\ IF job.red /\ ~job.binary
     THEN IF job.learned # {} THEN Strengthen(job.learned) ELSE Keep
     ELSE /\ db' = MarkGarbage(db, job.c)
          /\ job' = NoCandidate @@ job
  /\ UNCHANGED flagged

\* Literals that are implied to be false are removed too.
VivifyRest ==
  /\ Vivifying /\ job.c # 0 /\ job.conflict = 0 /\ ~job.subsume /\ Tried
  /\ job.inst \/ job.remove = job.sorted[Len(job.sorted)]
  /\ IF job.remove = 0 THEN Keep
     ELSE Strengthen({l \in Rng(job.sorted) \ {job.remove} : ~Implied(job, l)})
  /\ UNCHANGED flagged

\* All clauses are watched again and all units propagated.
Reconnect(D) == RootPropagate(ConnectWatches(D))

\* All candidates were tried, or a limit was hit.  Those that are left are
\* flagged unless some of them already were.  The redundant round follows
\* unless the solver terminates.
VivifyEnd ==
  /\ Vivifying /\ job.c = 0
  /\ flagged' = IF job.todo \cap flagged # {} THEN flagged ELSE flagged \cup job.todo
  /\ \E D \in {Reconnect(db)} :
       \/ db' = D /\ job' = Idle
       \/ ~job.red /\ ~D.unsat /\ BeginRound(D, TRUE)

-----------------------------------------------------------------------------
VivifyNext ==
  \/ Next /\ flagged' = flagged \cap DOMAIN db'.cl
  \/ VivifyBegin \/ VivifyPick \/ VivifyLiteral \/ VivifyPropagate \/ VivifyConflict
  \/ VivifyInstantiate \/ VivifySubsumed \/ VivifyRest \/ VivifyEnd

VivifySpec == VivifyInit /\ [][VivifyNext]_vivifyVars

-----------------------------------------------------------------------------
\* The trail that candidates hand on stays sound: what follows a decision is
\* forced by a clause that is watched in this round, still in the database
\* and not the candidate, and whose other literals were false before.
ReusedTrail ==
  job.name = "vivify" =>
    \A i \in DOMAIN job.trail :
      LET e == job.trail[i]
          before == db.units \cup {job.trail[h].lit : h \in 1..i - 1}
      IN /\ e.level = Cardinality({h \in 1..i : job.trail[h].reason = 0})
         /\ {e.lit, -e.lit} \cap before = {}
         /\ e.reason # 0 =>
              /\ e.reason \in (Live(db) \cap Connected(db, job.red)) \ {job.c}
              /\ e.lit \in db.cl[e.reason].lits
              /\ \A l \in db.cl[e.reason].lits \ {e.lit} : -l \in before

\* When no technique runs, propagation at the root level is complete for all
\* clauses, those that vivification did not watch included.
RootComplete ==
  job = Idle /\ ~db.unsat =>
    LET F == {db.cl[k].lits : k \in Live(db)}
    IN Closure(F, db.units) = db.units /\ ~Conflicting(F, db.units)

\* Vivification propagates over part of the clauses on a trail that it hands on
\* from candidate to candidate, and nothing at the root is missed by that.
VivifyInv ==
  /\ ReusedTrail
  /\ RootComplete
=============================================================================
