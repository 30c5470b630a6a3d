------------------------------- MODULE Decide -------------------------------
(***************************************************************************)
(* What the search decides next.  Unassigned variables are found through a *)
(* doubly linked queue in the order of the last bump (VMTF) or, in stable  *)
(* mode, through a binary heap ordered by score (EVSIDS); the phase comes  *)
(* from the saved, forced, target or initial phases.  Conflicts bump       *)
(* variables, backtracking gives them back to queue and heap, rephasing    *)
(* resets phases and shuffles, and compaction renames the variables that   *)
(* are left.                                                               *)
(*                                                                         *)
(* The clauses are left out: propagation assigns any literal, any          *)
(* propagation may run into a conflict, and analysis bumps any of the      *)
(* variables assigned above the root.  Scores are numbers of the smallest  *)
(* double that is told from 0, so that rescaling loses what is below.      *)
(***************************************************************************)
EXTENDS Trail, SequencesExt

CONSTANTS
  MaxVar,       \* a bound on the variables
  Options,      \* option records
  One,          \* the score 1.0
  ScoreLimit,   \* scores above it are rescaled
  MaxRephased,  \* a bound on the number of times phases are reset
  MaxCompacts,  \* a bound on the compactions
  Implied,      \* literals that propagation may find
  Eliminable,   \* variables that inprocessing may take out
  Forcible      \* literals the user forces a phase with

ASSUME DecideAssumption ==
  /\ {MaxVar, MaxRephased, MaxCompacts} \subseteq Nat
  /\ One \in Nat /\ One > 3 /\ ScoreLimit \in Nat /\ ScoreLimit > MaxVar * One /\ MaxVar > 2
  /\ Forcible \cup Implied \subseteq LitsOf(MaxVar)
  /\ \A o \in Options :
       /\ o.phase \in {1, -1} /\ o.target \in 0..2 /\ o.conflicts \in Nat
       /\ {o.reverse, o.score, o.stabilize, o.stabilizeonly, o.forcephase, o.walk,
           o.walknonstable, o.shufflerandom, o.restartreusetrail, o.rephase, o.compact} \subseteq BOOLEAN

VARIABLES
  opts,
  maxVar,      \* internal variables are 1..maxVar
  e2i,         \* external variable -> internal literal, 0 if it has none
  inactive,    \* variables that were eliminated, substituted or found pure
  q,           \* the queue: [first, last, unassigned, bumped, stamp, prev, next, btab]
  s,           \* the scores: [heap, stab, inc]
  t,           \* the trail
  phases,      \* [saved, forced, target, best], 0 if not set
  assigned,    \* [target, best, until]: sizes of the conflict-free trails
  stable,      \* in stable mode
  since,       \* the conflict at which the mode was switched
  reluctant,   \* [u, v, countdown, trigger]
  conflicts,
  rephased,    \* [type, at, count]: the last reset, its conflict, resets per mode
  compacts

vars == <<opts, maxVar, e2i, inactive, q, s, t, phases, assigned, stable, since, reluctant,
          conflicts, rephased, compacts>>

Vars == 1..maxVar
Sign(l) == IF l < 0 THEN -1 ELSE 1
Assigned(tr, v) == Val(tr, v) # 0

\* Op repeated along a sequence, from a.
Fold(Op(_, _), a, seq) ==
  LET fold[i \in 0..Len(seq)] ==
        IF i = 0 THEN a ELSE ByValue(LAMBDA b : Op(b, seq[i]), fold[i - 1])
  IN fold[Len(seq)]
Times(n) == [k \in 1..n |-> k]

-----------------------------------------------------------------------------
(* The queue.                                                              *)

Dequeue(d, v) ==
  LET p == d.prev[v]
      n == d.next[v]
      a == IF p # 0 THEN [d EXCEPT !.next[p] = n] ELSE [d EXCEPT !.first = n]
  IN IF n # 0 THEN [a EXCEPT !.prev[n] = p] ELSE [a EXCEPT !.last = p]

Enqueue(d, v) ==
  LET a == IF d.last # 0 THEN [d EXCEPT !.next[d.last] = v] ELSE [d EXCEPT !.first = v]
  IN [a EXCEPT !.prev[v] = d.last, !.next[v] = 0, !.last = v]

\* A mutant: the time stamp is not updated.
UpdatePointerOnly(d, v) == [d EXCEPT !.unassigned = v]

UpdateQueueUnassigned(d, v) == [d EXCEPT !.unassigned = v, !.bumped = d.btab[v]]

\* A new variable goes to the end, or with 'reverse' to the front.
InitEnqueue(d, v) ==
  LET front == [d EXCEPT !.prev[v] = 0, !.next[v] = d.first, !.first = v,
                  !.last = IF d.first = 0 THEN v ELSE @,
                  !.btab[v] = IF d.first = 0 THEN 0 ELSE d.btab[d.first] - 1]
      back == [Enqueue(d, v) EXCEPT !.btab[v] = d.stamp + 1, !.stamp = @ + 1]
  IN IF ~opts.reverse THEN UpdateQueueUnassigned(back, v)
     ELSE LET a == IF d.first = 0 THEN front ELSE [front EXCEPT !.prev[d.first] = v]
          IN IF a.unassigned = 0 THEN UpdateQueueUnassigned(a, a.last) ELSE a

\* A bumped variable moves to the end; it is assigned.
BumpQueue(d, v) ==
  IF d.next[v] = 0 THEN d
  ELSE [Enqueue(Dequeue(d, v), v) EXCEPT !.btab[v] = d.stamp + 1, !.stamp = @ + 1]

\* next_decision_variable_on_queue: from queue.unassigned towards the front.
SearchQueue(d, tr) ==
  LET Step(v, k) == IF Assigned(tr, v) THEN d.prev[v] ELSE v
      v == Fold(Step, d.unassigned, Times(maxVar))
  IN IF v = d.unassigned THEN d ELSE UpdateQueueUnassigned(d, v)

\* The queue from the end to the front.
Backwards(d) ==
  Fold(LAMBDA a, k : IF a = <<>> THEN (IF d.last = 0 THEN a ELSE << d.last >>)
                     ELSE IF d.prev[Last(a)] = 0 THEN a ELSE Append(a, d.prev[Last(a)]),
       <<>>, Times(maxVar + 1))

\* shuffle_queue: a random order of all variables or the reverse of the queue;
\* the time stamps end with queue.bumped.
ShuffleQueue(d, order) ==
  LET a == Fold(Enqueue, [d EXCEPT !.first = 0, !.last = 0], order)
      n == Len(order)
      stamps == [v \in DOMAIN d.btab |->
                   IF v \in Rng(order)
                   THEN d.bumped - n + CHOOSE k \in 1..n : order[k] = v ELSE d.btab[v]]
  IN [a EXCEPT !.btab = stamps, !.unassigned = a.last]

-----------------------------------------------------------------------------
(* The heap.                                                               *)

ScoreSmaller(h, a, b) ==
  h.stab[a] < h.stab[b] \/ (h.stab[a] = h.stab[b] /\ a > b)

OnHeap(h, v) == v \in Rng(h.heap)

Exchange(h, i, j) == [h EXCEPT !.heap = [@ EXCEPT ![i] = h.heap[j], ![j] = h.heap[i]]]

Index(h, v) == CHOOSE i \in DOMAIN h.heap : h.heap[i] = v

Up(h, v) ==
  Fold(LAMBDA a, k : LET i == Index(a, v) IN
         IF i > 1 /\ ScoreSmaller(a, a.heap[i \div 2], v) THEN Exchange(a, i, i \div 2) ELSE a,
       h, Times(Len(h.heap)))

Down(h, v) ==
  Fold(LAMBDA a, k :
         LET i == Index(a, v)
             children == {j \in {2 * i, 2 * i + 1} : j <= Len(a.heap)}
             c == CHOOSE j \in children : \A m \in children :
                    m = j \/ ScoreSmaller(a, a.heap[m], a.heap[j])
         IN IF children # {} /\ ScoreSmaller(a, v, a.heap[c]) THEN Exchange(a, i, c) ELSE a,
       h, Times(Len(h.heap)))

HeapUpdate(h, v) == Down(Up(h, v), v)
PushBack(h, v) == HeapUpdate([h EXCEPT !.heap = Append(@, v)], v)

PopFront(h) ==
  LET n == Len(h.heap)
      a == [h EXCEPT !.heap = SubSeq([@ EXCEPT ![1] = h.heap[n]], 1, n - 1)]
  IN IF n > 2 THEN Down(a, h.heap[n]) ELSE a

\* next_decision_variable_with_best_score: assigned ones are removed.
PopAssigned(h, tr) ==
  Fold(LAMBDA a, k : IF a.heap # <<>> /\ Assigned(tr, a.heap[1]) THEN PopFront(a) ELSE a,
       h, Times(Len(h.heap)))

\* All scores and the increment are divided by the largest of them.
Rescale(h) ==
  LET divider == Max({h.inc} \cup {h.stab[v] : v \in Vars}) IN
  [h EXCEPT !.stab = [v \in DOMAIN @ |-> (@[v] * One) \div divider],
            !.inc = (@ * One) \div divider]

BumpScore(h, v) ==
  LET a == IF h.stab[v] + h.inc > ScoreLimit THEN Rescale(h) ELSE h
      b == [a EXCEPT !.stab[v] = @ + a.inc]
  IN IF OnHeap(b, v) THEN HeapUpdate(b, v) ELSE b

\* bump_variable_score_inc, with a score factor of one half.
BumpScoreInc(h) ==
  LET a == IF 2 * h.inc > ScoreLimit THEN Rescale(h) ELSE h IN [a EXCEPT !.inc = 2 * @]

\* shuffle_scores: in the new order, or the order the heap gives, scores grow.
ShuffleScores(h, order) ==
  LET a == [h EXCEPT !.heap = <<>>, !.inc = 0] IN
  Fold(LAMBDA b, v : PushBack([b EXCEPT !.stab[v] = b.inc, !.inc = @ + One], v), a, order)

\* The heap from the best to the worst.
ByScore(h) ==
  Fold(LAMBDA a, k : [h |-> PopFront(a.h), out |-> Append(a.out, a.h.heap[1])],
       [h |-> h, out |-> <<>>], Times(Len(h.heap))).out

-----------------------------------------------------------------------------
(* The state changes the steps share.                                      *)

UseScores == opts.score /\ stable

\* init_vars for one variable, in the allocated tables.
NewVariable(d, v) ==
  [q |-> InitEnqueue(d.q, v), s |-> PushBack(d.s, v)]

\* A mutant: the queue is not told.
UnassignHeapOnly(d, v) ==
  [q |-> d.q, s |-> IF OnHeap(d.s, v) THEN d.s ELSE PushBack(d.s, v)]

\* unassign: the variable is pushed on the heap and the queue searched from
\* it if it was bumped later than queue.unassigned.
Unassign(d, v) ==
  [q |-> IF d.q.bumped < d.q.btab[v] THEN UpdateQueueUnassigned(d.q, v) ELSE d.q,
   s |-> IF OnHeap(d.s, v) THEN d.s ELSE PushBack(d.s, v)]

\* update_target_and_best.
Reset == rephased.type # "none" /\ conflicts > rephased.at

UpdateTargetAndBest(until) ==
  LET target == IF Reset THEN 0 ELSE assigned.target
      best == IF Reset /\ rephased.type = "best" THEN 0 ELSE assigned.best
  IN [phases |-> [phases EXCEPT !.target = IF until > target THEN phases.saved ELSE @,
                                !.best = IF until > best THEN phases.saved ELSE @],
      assigned |-> [target |-> Max({target, until}), best |-> Max({best, until}),
                    until |-> until],
      rephased |-> IF Reset THEN [rephased EXCEPT !.type = "none"] ELSE rephased]

\* What backtracking to level new leaves of the phases.
OnBacktrack(new) ==
  IF new < Level(t) THEN UpdateTargetAndBest(assigned.until)
  ELSE [phases |-> phases, assigned |-> assigned, rephased |-> rephased]

\* What backtracking from t to tr gives back to the queue d and the heap h.
Undo(d, h, tr) ==
  LET Step(a, k) == LET v == VarOf(t.trail[k].lit) IN
                    IF Assigned(tr, v) THEN a ELSE Unassign(a, v)
  IN Fold(Step, [q |-> d, s |-> h], Times(Len(t.trail)))

SaveAssign(tr, l, lev) ==
  [tr EXCEPT !.trail = Append(@, [lit |-> l, level |-> lev, reason |-> NoReason])]

\* A mutant: no phase is saved.
NotSaved(p, l) == p

Saved(p, l) == [p EXCEPT !.saved[VarOf(l)] = Sign(l)]

\* propagate () is complete.
Done == t.propagated = Len(t.trail) /\ assigned.until = Len(t.trail)
Propagating == t.propagated < Len(t.trail)

-----------------------------------------------------------------------------
Zero == [v \in 1..MaxVar |-> 0]

DecideInit ==
  /\ opts \in Options
  /\ maxVar = MaxVar
  /\ LET d == Fold(NewVariable,
                   [q |-> [first |-> 0, last |-> 0, unassigned |-> 0, bumped |-> 0,
                           stamp |-> 0, prev |-> Zero, next |-> Zero, btab |-> Zero],
                    s |-> [heap |-> <<>>, stab |-> Zero, inc |-> One]], Times(maxVar))
     IN q = d.q /\ s = d.s
  /\ e2i = [v \in 1..MaxVar |-> IF v <= maxVar THEN v ELSE 0]
  /\ inactive = {} /\ t = EmptyTrail
  /\ phases = [saved |-> [v \in 1..MaxVar |-> opts.phase],
               forced |-> Zero, target |-> Zero, best |-> Zero]
  /\ assigned = [target |-> 0, best |-> 0, until |-> 0]
  /\ stable = (opts.stabilize /\ opts.stabilizeonly)
  /\ since = 0 /\ reluctant = [u |-> 1, v |-> 1, countdown |-> 1, trigger |-> FALSE]
  /\ conflicts = 0 /\ compacts = 0
  /\ rephased = [type |-> "none", at |-> 0, count |-> [m \in BOOLEAN |-> 0]]

\* A variable without internal literal is used: a new internal variable.
NewVar(e) ==
  /\ e2i[e] = 0 /\ maxVar < MaxVar
  /\ maxVar' = maxVar + 1
  /\ e2i' = [e2i EXCEPT ![e] = maxVar + 1]
  /\ LET d == NewVariable([q |-> q, s |-> s], maxVar + 1) IN q' = d.q /\ s' = d.s
  /\ UNCHANGED <<opts, inactive, t, phases, assigned, stable, since, reluctant, conflicts,
                 rephased, compacts>>

\* phase () and unphase (), between solves.
Phase(l) ==
  /\ t = EmptyTrail /\ conflicts = 0 /\ VarOf(l) \in Vars
  /\ phases' \in {[phases EXCEPT !.forced[VarOf(l)] = Sign(l)],
                  [phases EXCEPT !.forced[VarOf(l)] = 0]}
  /\ UNCHANGED <<opts, maxVar, e2i, inactive, q, s, t, assigned, stable, since, reluctant,
                 conflicts, rephased, compacts>>

\* The first unit of the root level, as if a unit clause was added.
AddUnit(l) ==
  /\ Level(t) = 0 /\ t.trail = <<>> /\ VarOf(l) \notin inactive
  /\ t' = SaveAssign(t, l, 0) /\ phases' = Saved(phases, l)
  /\ UNCHANGED <<opts, maxVar, e2i, inactive, q, s, assigned, stable, since, reluctant,
                 conflicts, rephased, compacts>>

\* Propagation assigns a literal of this or of the root level.
Propagate(l) ==
  /\ Propagating /\ ~Assigned(t, l) /\ VarOf(l) \notin inactive
  /\ \E lev \in {0, Level(t)} : t' = SaveAssign(t, l, lev)
  /\ phases' = Saved(phases, l)
  /\ UNCHANGED <<opts, maxVar, e2i, inactive, q, s, assigned, stable, since, reluctant,
                 conflicts, rephased, compacts>>

PropagateDone ==
  /\ ~Done
  /\ t' = [t EXCEPT !.propagated = Len(t.trail)]
  /\ assigned' = [assigned EXCEPT !.until = Len(t.trail)]
  /\ UNCHANGED <<opts, maxVar, e2i, inactive, q, s, phases, stable, since, reluctant,
                 conflicts, rephased, compacts>>

\* The greatest power of two that divides u, which is u & -u.
LowestBit(u) == Max({2 ^ k : k \in {j \in 0..u : u % 2 ^ j = 0 /\ 2 ^ j <= u}})

\* Reluctant::tick, with a period of 1 and no limit.
Tick(r) ==
  LET n == IF LowestBit(r.u) = r.v THEN [u |-> r.u + 1, v |-> 1] ELSE [u |-> r.u, v |-> 2 * r.v] IN
  IF r.trigger THEN r
  ELSE IF r.countdown > 1 THEN [r EXCEPT !.countdown = @ - 1]
  ELSE [u |-> n.u, v |-> n.v, countdown |-> n.v, trigger |-> TRUE]

\* A conflict on the current level: the conflict-free trail is that below the
\* last decision, the analyzed variables are bumped, in queue order unless
\* scores are used, the search backtracks and flips one of their literals.
Conflict ==
  /\ Propagating /\ Level(t) > 0 /\ conflicts < opts.conflicts
  /\ conflicts' = conflicts + 1
  /\ \E B \in SUBSET {VarOf(l) : l \in {k \in TrueLits(t) : LevelOf(t, k) > 0}} :
     \E order \in {o \in SetToSeqs(B) :
                   UseScores \/ \A i \in 1..Len(o) - 1 : q.btab[o[i]] < q.btab[o[i + 1]]} :
     \E new \in 0..Level(t) - 1, v \in B :
       LET d == IF UseScores THEN q ELSE Fold(BumpQueue, q, order)
           h == IF UseScores THEN BumpScoreInc(Fold(BumpScore, s, order)) ELSE s
           down == Backtrack(t, new)
           u == Undo(d, h, down)
           flip == -(Val(t, v) * v)
           p == UpdateTargetAndBest(t.control[Level(t)].trail)
       IN /\ LevelOf(t, v) = Level(t)
          /\ q' = u.q /\ s' = u.s
          /\ t' = SaveAssign(down, flip, new)
          /\ phases' = Saved(p.phases, flip) /\ assigned' = p.assigned /\ rephased' = p.rephased
  /\ reluctant' = IF stable THEN Tick(reluctant) ELSE reluctant
  /\ UNCHANGED <<opts, maxVar, e2i, inactive, stable, since, compacts>>

-----------------------------------------------------------------------------
(* Decisions and restarts.                                                 *)

CanDecide == Done /\ \E v \in Vars : ~Assigned(t, v)

NextVariable(d, h) == IF UseScores THEN h.heap[1] ELSE d.unassigned

DecidePhase(v) ==
  LET tried ==
        << phases.forced[v], IF opts.forcephase THEN opts.phase ELSE 0,
           IF opts.target = 2 \/ (stable /\ opts.target = 1) THEN phases.target[v] ELSE 0,
           phases.saved[v], opts.phase >>
  IN tried[Min({i \in 1..5 : tried[i] # 0})]

\* The queue is searched, or the heap popped, as far as needed.
Searched(d, h) ==
  IF UseScores THEN q' = d /\ s' = PopAssigned(h, t) ELSE q' = SearchQueue(d, t) /\ s' = h

TakeDecision ==
  /\ CanDecide /\ ~(stable /\ reluctant.trigger /\ Level(t) >= 2)
  /\ Searched(q, s)
  /\ LET v == NextVariable(q', s') IN
       /\ t' = AssumeDecision(t, DecidePhase(v) * v)
       /\ phases' = Saved(phases, DecidePhase(v) * v)
  /\ UNCHANGED <<opts, maxVar, e2i, inactive, assigned, stable, since, reluctant, conflicts,
                 rephased, compacts>>

\* stabilizing () switches the mode; its limit is a number of conflicts.
Stabilize ==
  /\ CanDecide /\ Level(t) >= 2 /\ conflicts > since
  /\ opts.stabilize /\ ~(stable /\ opts.stabilizeonly)
  /\ stable' = ~stable /\ since' = conflicts
  /\ UNCHANGED <<opts, maxVar, e2i, inactive, q, s, t, phases, assigned, reluctant,
                 conflicts, rephased, compacts>>

\* Levels whose decision would be taken again before the next one are kept.
ReuseTrail(next) ==
  LET Keeps(i) == LET v == VarOf(t.control[i].decision) IN
        IF UseScores THEN ~ScoreSmaller(s, v, next) ELSE q.btab[v] >= q.btab[next]
  IN IF ~opts.restartreusetrail THEN 0
     ELSE Max({i \in 0..Level(t) : \A j \in 1..i : Keeps(j)})

Restart ==
  /\ CanDecide /\ Level(t) >= 2
  /\ stable => reluctant.trigger
  /\ reluctant' = IF stable THEN [reluctant EXCEPT !.trigger = FALSE] ELSE reluctant
  /\ LET d == IF opts.restartreusetrail /\ ~UseScores THEN SearchQueue(q, t) ELSE q
         h == IF opts.restartreusetrail /\ UseScores THEN PopAssigned(s, t) ELSE s
         new == ReuseTrail(NextVariable(d, h))
         u == Undo(d, h, Backtrack(t, new))
         p == OnBacktrack(new)
     IN /\ t' = Backtrack(t, new) /\ q' = u.q /\ s' = u.s
        /\ phases' = p.phases /\ assigned' = p.assigned /\ rephased' = p.rephased
  /\ UNCHANGED <<opts, maxVar, e2i, inactive, stable, since, conflicts, compacts>>

-----------------------------------------------------------------------------
(* Rephasing.                                                              *)

\* Which reset is next.
Schedule(count) ==
  LET single == ~opts.stabilize \/ opts.stabilizeonly
      At(seq, n) == seq[(n % Len(seq)) + 1]
      After(start, seq) ==
        IF count < Len(start) THEN start[count + 1] ELSE At(seq, count - Len(start))
  IN IF single /\ ~opts.walk
     THEN At(<<"inverted", "best", "flipping", "best", "random", "best", "original", "best">>, count)
     ELSE IF single
     THEN At(<<"inverted", "best", "walk", "flipping", "best", "walk",
               "random", "best", "walk", "original", "best", "walk">>, count)
     ELSE IF stable /\ ~opts.walk
     THEN After(<<"original", "inverted">>, <<"best", "original", "best", "inverted">>)
     ELSE IF stable
     THEN After(<<"original", "inverted">>,
                <<"best", "walk", "original", "best", "walk", "inverted">>)
     ELSE IF ~opts.walk \/ ~opts.walknonstable
     THEN After(<<"flipping">>, <<"random", "best", "flipping", "best">>)
     ELSE After(<<"flipping">>, <<"random", "best", "walk", "flipping", "best", "walk">>)

\* The saved phases a reset may leave; local search may leave any.
NewPhases(type, best) ==
  LET All(f(_)) == {[v \in 1..MaxVar |-> IF v \in Vars THEN f(v) ELSE phases.saved[v]]} IN
  CASE type = "original" -> All(LAMBDA v : opts.phase)
    [] type = "inverted" -> All(LAMBDA v : -opts.phase)
    [] type = "flipping" -> All(LAMBDA v : -phases.saved[v])
    [] type = "best" -> All(LAMBDA v : IF best[v] # 0 THEN best[v] ELSE phases.saved[v])
    [] OTHER -> UNION {All(LAMBDA v : f[v]) : f \in [Vars -> {1, -1}]}

\* Backtrack (which updates target and best), clear the target, reset, shuffle.
Rephase ==
  LET n == rephased.count[stable]
      u == Undo(q, s, Backtrack(t, 0))
      p == OnBacktrack(0)
  IN
  /\ CanDecide /\ opts.rephase /\ ~opts.forcephase /\ n < MaxRephased /\ conflicts > rephased.at
  /\ t' = Backtrack(t, 0)
  /\ \E saved \in NewPhases(Schedule(n), p.phases.best) :
       phases' = [p.phases EXCEPT !.saved = saved,
                    !.target = [v \in 1..MaxVar |-> IF v \in Vars THEN 0 ELSE @[v]]]
  /\ assigned' = [p.assigned EXCEPT !.target = 0]
  /\ rephased' = [type |-> Schedule(n), at |-> conflicts, count |-> [rephased.count EXCEPT ![stable] = @ + 1]]
  /\ IF stable
     THEN \E order \in (IF opts.shufflerandom THEN SetToSeqs(Vars) ELSE {ByScore(u.s)}) :
            s' = ShuffleScores(u.s, order) /\ q' = u.q
     ELSE \E order \in (IF opts.shufflerandom THEN SetToSeqs(Vars) ELSE {Backwards(u.q)}) :
            q' = ShuffleQueue(u.q, order) /\ s' = u.s
  /\ UNCHANGED <<opts, maxVar, e2i, inactive, stable, since, reluctant, conflicts, compacts>>

-----------------------------------------------------------------------------
(* Compaction.                                                             *)

\* Inprocessing takes a variable out at the root level.
Eliminate(v) ==
  /\ Done /\ opts.compact /\ Level(t) = 0 /\ compacts < MaxCompacts
  /\ v \notin inactive /\ ~Assigned(t, v)
  /\ inactive' = inactive \cup {v}
  /\ UNCHANGED <<opts, maxVar, e2i, q, s, t, phases, assigned, stable, since, reluctant,
                 conflicts, rephased, compacts>>

FixedVars == {v \in Vars : Assigned(t, v)}
FirstFixed == IF FixedVars = {} THEN 0 ELSE Min(FixedVars)

\* Mapper: variables that stay are moved down, in order; others go to 0.
MapIdx ==
  LET stay == {w \in Vars : (w \notin inactive /\ ~Assigned(t, w)) \/ w = FirstFixed} IN
  [v \in Vars |-> IF v \in stay THEN Cardinality({w \in stay : w <= v}) ELSE 0]

\* A mutant: all fixed literals have the sign of the first.
MapLitUnsigned(m, l) ==
  IF l = 0 THEN 0
  ELSE IF m[VarOf(l)] # 0 THEN Sign(l) * m[VarOf(l)]
  ELSE IF Assigned(t, l) THEN m[FirstFixed] ELSE 0

\* Literals of fixed variables become literals of the first of them.
MapLit(m, l) ==
  IF l = 0 THEN 0
  ELSE IF m[VarOf(l)] # 0 THEN Sign(l) * m[VarOf(l)]
  ELSE IF Assigned(t, l)
  THEN (IF Val(t, l) = Val(t, FirstFixed) THEN 1 ELSE -1) * m[FirstFixed]
  ELSE 0

\* map_vector: the entries above the last one are allocated anew as init.
MapVector(m, f, init) ==
  [v \in 1..MaxVar |-> IF v \in Rng(m) THEN f[CHOOSE w \in Vars : m[w] = v] ELSE init]

\* The names of the variables in seq that stay and are not fixed.
MapSeq(m, seq) ==
  Fold(LAMBDA a, v : IF m[v] # 0 /\ v # FirstFixed THEN Append(a, m[v]) ELSE a, <<>>, seq)

\* The queue keeps its order; it is searched from the end again, but
\* queue.bumped is kept.
MapQueue(m, d) ==
  ByValue(LAMBDA order :
    LET n == Len(order)
        At(k) == IF k \in 1..n THEN order[k] ELSE 0
        Links(delta) == [v \in 1..MaxVar |->
          IF v \in Rng(order) THEN At((CHOOSE k \in 1..n : order[k] = v) + delta) ELSE 0]
    IN [first |-> At(1), last |-> At(n), unassigned |-> At(n), bumped |-> d.bumped,
        stamp |-> d.stamp, prev |-> Links(-1), next |-> Links(1), btab |-> MapVector(m, d.btab, 0)],
    Reverse(MapSeq(m, Backwards(d))))

\* The heap is emptied and filled again under the new names.
MapScores(m, h) ==
  Fold(PushBack, [heap |-> <<>>, stab |-> MapVector(m, h.stab, 0), inc |-> h.inc],
       MapSeq(m, ByScore(h)))

Compact ==
  /\ CanDecide /\ opts.compact /\ Level(t) = 0 /\ compacts < MaxCompacts
  /\ inactive \cup FixedVars # {}
  /\ compacts' = compacts + 1
  /\ \E m \in {MapIdx} :
       LET n == Max({0} \cup Rng(m))
           target == MapVector(m, phases.target, 0)
           best == MapVector(m, phases.best, 0)
       IN /\ maxVar' = n /\ inactive' = {}
          /\ e2i' = [e \in DOMAIN e2i |-> MapLit(m, e2i[e])]
          /\ q' = MapQueue(m, q) /\ s' = MapScores(m, s)
          /\ t' = IF FirstFixed = 0 THEN EmptyTrail
                  ELSE [SaveAssign(EmptyTrail, Val(t, FirstFixed) * m[FirstFixed], 0)
                          EXCEPT !.propagated = 1]
          /\ phases' = [saved |-> MapVector(m, phases.saved, opts.phase),
                        forced |-> MapVector(m, phases.forced, 0),
                        target |-> target, best |-> best]
          /\ assigned' = [target |-> Cardinality({v \in 1..n : target[v] # 0}),
                          best |-> Cardinality({v \in 1..n : best[v] # 0}), until |-> 0]
  /\ UNCHANGED <<opts, stable, since, reluctant, conflicts, rephased>>

DecideNext ==
  \/ \E e \in DOMAIN e2i : NewVar(e)
  \/ \E l \in Forcible : Phase(l)
  \/ \E l \in Implied \cap LitsOf(maxVar) : AddUnit(l) \/ Propagate(l)
  \/ PropagateDone \/ Conflict \/ TakeDecision \/ Stabilize \/ Restart \/ Rephase
  \/ \E v \in Vars \cap Eliminable : Eliminate(v)
  \/ Compact

DecideSpec == DecideInit /\ [][DecideNext]_vars

-----------------------------------------------------------------------------
DecideTypeOK ==
  /\ opts \in Options /\ maxVar \in 0..MaxVar /\ inactive \subseteq Vars
  /\ {q.first, q.last, q.unassigned} \subseteq 0..maxVar
  /\ Rng(s.heap) \subseteq Vars /\ \A v \in Vars : s.stab[v] \in 0..ScoreLimit
  /\ s.inc \in 1..ScoreLimit
  /\ assigned.until <= maxVar /\ assigned.target <= maxVar /\ assigned.best <= maxVar
  /\ {l \in Rng(e2i) : VarOf(l) \notin 0..maxVar} = {}

\* Walking the links from either end meets the same variables, in the order
\* of their time stamps: moving to the end, putting new variables first,
\* shuffling and compaction keep links, anchors and stamps together.
QueueWellFormed ==
  LET b == Backwards(q) IN
  /\ b # <<>> => q.first = Last(b) /\ q.next[q.last] = 0 /\ q.prev[q.first] = 0
  /\ \A k \in 1..Len(b) - 1 : q.next[b[k + 1]] = b[k] /\ q.btab[b[k + 1]] < q.btab[b[k]]
  /\ IsInjective(b)

\* Every unassigned variable is found from queue.unassigned, and is on the
\* heap: neither the walk nor the pops run out while one is left.
UnassignedFound ==
  LET b == Backwards(q) IN
  \A v \in Vars : ~Assigned(t, v) =>
    /\ v \in Rng(s.heap)
    /\ \E k \in DOMAIN b : b[k] = v /\ \E j \in 1..k : b[j] = q.unassigned

\* No child has a higher score than its parent, also after rescaling, and no
\* variable is on the heap twice.
HeapOrdered ==
  /\ \A i \in 2..Len(s.heap) : s.stab[s.heap[i]] <= s.stab[s.heap[i \div 2]]
  /\ IsInjective(s.heap)

\* The decision is the unassigned variable bumped last or, with scores, one of
\* the highest score.
DecisionIsBest ==
  [][Level(t') > Level(t) =>
       LET d == VarOf(Last(t'.control).decision) IN
       \A v \in Vars : ~Assigned(t, v) =>
         IF UseScores THEN s.stab[v] <= s.stab[d] ELSE q.btab[v] <= q.btab[d]]_vars

\* The last resort of decide_phase, which its comment calls defensive, is not
\* needed: a saved phase is always set.
SavedPhaseSet == \A v \in Vars : phases.saved[v] # 0

\* The two decision orders and the phases stay usable through bumping, rescaling,
\* shuffling, backtracking and compaction: links, stamps and heap agree, and a
\* variable that is not assigned is found by both.
DecideInv ==
  /\ DecideTypeOK
  /\ QueueWellFormed
  /\ UnassignedFound
  /\ HeapOrdered
  /\ SavedPhaseSet

\* The target phases taken when the search goes back contain the values the
\* trail had below the conflict.
TargetIsTrail ==
  [][conflicts' > conflicts /\ phases'.target # phases.target =>
       \A k \in 1..assigned'.until :
         LET e == t.trail[k] IN
         e.level > 0 => phases'.target[VarOf(e.lit)] = Sign(e.lit)]_vars

\* Compaction renames: external variables keep their root values and their
\* saved and forced phases, and active ones stay apart.
CompactionRenames ==
  [][compacts' > compacts =>
       /\ \A e \in DOMAIN e2i : e2i[e] # 0 /\ Assigned(t, e2i[e]) =>
            Val(t', e2i'[e]) = Val(t, e2i[e])
       /\ \A e \in DOMAIN e2i : VarOf(e2i[e]) \in Vars \ (inactive \cup FixedVars) =>
            /\ e2i'[e] \in 1..maxVar' /\ ~Assigned(t', e2i'[e])
            /\ phases'.saved[e2i'[e]] = phases.saved[e2i[e]]
            /\ phases'.forced[e2i'[e]] = phases.forced[e2i[e]]
            /\ \A f \in DOMAIN e2i \ {e} : e2i'[f] # e2i'[e]]_vars
=============================================================================
