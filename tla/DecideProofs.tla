---------------------------- MODULE DecideProofs ----------------------------
(***************************************************************************)
(* The decision orders stay usable, for every number of variables, every   *)
(* set of options and any number of conflicts, restarts, resets of phases  *)
(* and compactions: queue, heap and trail agree on what is left to decide, *)
(* a decision is the best by the order in use, target phases are those of  *)
(* the trail, and compaction only renames.                                 *)
(***************************************************************************)
EXTENDS Decide, TrailProofs

-----------------------------------------------------------------------------
(* What the folds of the model compute, stage by stage.                    *)

\* What holds at every stage of an iteration if each step leads from one stage
\* to the next.
LEMMA StagesStay ==
  ASSUME NEW n \in Nat, NEW D, NEW G, G[0] \in D[0],
         \A i \in 1..n : G[i - 1] \in D[i - 1] => G[i] \in D[i]
  PROVE  \A i \in 0..n : G[i] \in D[i]
<1> DEFINE S == {i \in Nat : i <= n => G[i] \in D[i]}
<1>1. 0 \in S
  OBVIOUS
<1>2. ASSUME NEW i \in Nat, i \in S PROVE i + 1 \in S
  <2> SUFFICES ASSUME i + 1 <= n PROVE G[i + 1] \in D[i + 1]
    OBVIOUS
  <2>1. i + 1 \in 1..n /\ (i + 1) - 1 = i /\ G[i] \in D[i]
    BY <1>2
  <2> QED
    BY <2>1
<1>3. \A i \in Nat : i \in S
  <2> HIDE DEF S
  <2> QED
    BY <1>1, <1>2, NatSetInduction
<1> QED
  BY <1>3

\* The steps h lead from one stage in D to the next; f repeats them from a.
Leads(h, n, D) == \A i \in 1..n : \A x \in D[i - 1] : h[i][x] \in D[i]
Repeats(f, n, D, a, h) ==
  /\ DOMAIN f = 0..n /\ f = [i \in 0..n |-> f[i]] /\ f[0] = a
  /\ \A i \in 1..n : f[i - 1] \in D[i - 1] /\ f[i] = h[i][f[i - 1]]

\* An iteration through the stages D exists.
LEMMA StagesExist ==
  ASSUME NEW n, n \in Nat, NEW D, NEW a, a \in D[0], NEW h, Leads(h, n, D)
  PROVE  \E f : Repeats(f, n, D, a, h)
<1> USE DEF Leads, Repeats
<1> DEFINE X == UNION {D[i] : i \in 0..n}
           k == [p \in X \X (1..n) |-> IF p[1] \in D[p[2] - 1] THEN h[p[2]][p[1]] ELSE a]
<1>1. a \in X /\ \A i \in 0..n : D[i] \subseteq X
  OBVIOUS
<1>2. \A x \in X, i \in 1..n : k[<<x, i>>] = IF x \in D[i - 1] THEN h[i][x] ELSE a
  <2> HIDE DEF X
  <2> QED
    OBVIOUS
<1>3. \A x \in X, i \in 1..n : k[<<x, i>>] \in X
  <2> SUFFICES ASSUME NEW x \in X, NEW i \in 1..n PROVE k[<<x, i>>] \in X
    OBVIOUS
  <2>1. i \in 0..n /\ (x \in D[i - 1] => h[i][x] \in D[i])
    OBVIOUS
  <2> HIDE DEF X, k
  <2> QED
    BY <1>1, <1>2, <2>1
<1> HIDE DEF X, k
<1>4. PICK f \in [0..n -> X] : Iterates(f, n, a, k)
  BY <1>1, <1>3, IterationExists
<1>5. f[0] = a /\ \A i \in 1..n : f[i - 1] \in X /\ f[i] = k[<<f[i - 1], i>>]
  <2>1. \A i \in 1..n : i - 1 \in 0..n
    OBVIOUS
  <2> QED
    BY <1>4, <2>1 DEF Iterates
<1>6. ASSUME NEW i \in 1..n, f[i - 1] \in D[i - 1] PROVE f[i] \in D[i]
  <2>1. f[i] = h[i][f[i - 1]]
    BY <1>2, <1>5, <1>6
  <2> QED
    BY <1>6, <2>1
<1>7. \A i \in 0..n : f[i] \in D[i]
  BY <1>5, <1>6, StagesStay
<1>8. \A i \in 1..n : f[i - 1] \in D[i - 1] /\ f[i] = h[i][f[i - 1]]
  <2>1. \A i \in 1..n : i - 1 \in 0..n
    OBVIOUS
  <2> QED
    BY <1>2, <1>5, <1>7, <2>1
<1> QED
  BY <1>4, <1>5, <1>8

\* The numbers from 1 to n.
LEMMA TimesFacts ==
  ASSUME NEW n \in Nat
  PROVE  Len(Times(n)) = n /\ Times(n) \in Seq(1..n) /\ \A i \in 1..n : Times(n)[i] = i
<1>1. Times(n) \in [1..n -> 1..n]
  BY DEF Times
<1> QED
  BY <1>1, FunctionIsSeq DEF Times

\* A variable pushed with a score above those before it.
PushAsBest(b, v) == PushBack([b EXCEPT !.stab[v] = b.inc, !.inc = @ + One], v)

\* The walk of the queue towards the front.
LEMMA SearchStages ==
  ASSUME NEW d, NEW tr, NEW D, maxVar \in Nat, d.unassigned \in D[0],
         \A i \in 1..maxVar : \A x \in D[i - 1] :
           (IF Assigned(tr, x) THEN d.prev[x] ELSE x) \in D[i]
  PROVE  \E v \in D[maxVar] : SearchQueue(d, tr) = IF v = d.unassigned THEN d ELSE UpdateQueueUnassigned(d, v)
<1> DEFINE Op(x, j) == (IF Assigned(tr, x) THEN d.prev[x] ELSE x)
           n == maxVar
           sq == Times(maxVar)
           a == d.unassigned
           R(f, i) == IF i = 0 THEN a ELSE ByValue(LAMBDA b : Op(b, sq[i]), f[i - 1])
           F(f) == [i \in 0..Len(sq) |-> R(f, i)]
           g == CHOOSE f : f = F(f)
<1>1. n \in Nat /\ Len(sq) = n /\ \A i \in 1..n : sq[i] = i
  BY TimesFacts
<1>2. SearchQueue(d, tr) = IF g[Len(sq)] = d.unassigned THEN d ELSE UpdateQueueUnassigned(d, g[Len(sq)])
  BY DEF SearchQueue, Fold
<1>3. a \in D[0] /\ \A i \in 1..n : \A x \in D[i - 1] : Op(x, sq[i]) \in D[i]
  BY <1>1
<1> HIDE DEF Op, n, sq, a
<1> DEFINE k == [i \in 1..n |-> [x \in D[i - 1] |-> Op(x, sq[i])]]
<1>4. PICK f : Repeats(f, n, D, a, k)
  <2>1. Leads(k, n, D) /\ n \in Nat
    BY <1>1, <1>3 DEF Leads
  <2> HIDE DEF k
  <2> QED
    BY <1>3, <2>1, StagesExist
<1>5. \A i \in 1..n : f[i] = ByValue(LAMBDA b : Op(b, sq[i]), f[i - 1])
  <2>1. \A i \in 1..n : f[i] = Op(f[i - 1], sq[i])
    BY <1>4 DEF Repeats
  <2> QED
    BY <2>1 DEF ByValue
<1> HIDE DEF k
<1>6. f = F(f)
  <2>1. DOMAIN f = 0..n /\ f[0] = a /\ f = [i \in 0..n |-> f[i]]
    BY <1>4 DEF Repeats
  <2>2. ASSUME NEW i \in 0..n PROVE R(f, i) = f[i]
    <3>1. i # 0 => i \in 1..n
      BY ONLY <1>1, i \in 0..n
    <3> QED
      BY <1>5, <2>1, <3>1
  <2> HIDE DEF R
  <2> QED
    BY <1>1, <2>1, <2>2
<1>7. g = F(g)
  <2> HIDE DEF F
  <2> QED
    BY <1>6
<1>8. g[0] = a /\ \A i \in 1..n : g[i] = Op(g[i - 1], sq[i])
  <2>1. \A i \in 0..n : g[i] = R(g, i)
    <3> HIDE DEF g, R
    <3> QED
      BY <1>1, <1>7
  <2> HIDE DEF g
  <2> QED
    BY <1>1, <2>1 DEF ByValue
<1> HIDE DEF g
<1>9. g[n] \in D[n]
  <2>1. g[0] \in D[0] /\ \A i \in 1..n : g[i - 1] \in D[i - 1] => g[i] \in D[i]
    BY <1>3, <1>8
  <2>2. \A i \in 0..n : g[i] \in D[i]
    BY <1>1, <2>1, StagesStay, ZenonT(60)
  <2> QED
    BY <1>1, <2>2
<1> QED
  BY <1>1, <1>2, <1>9 DEF n

\* The queue read from the end.
LEMMA BackwardsStages ==
  ASSUME NEW d, NEW D, maxVar + 1 \in Nat, <<>> \in D[0],
         \A i \in 1..maxVar + 1 : \A x \in D[i - 1] :
           (IF x = <<>> THEN (IF d.last = 0 THEN x ELSE << d.last >>)
            ELSE IF d.prev[Last(x)] = 0 THEN x ELSE Append(x, d.prev[Last(x)])) \in D[i]
  PROVE  Backwards(d) \in D[maxVar + 1]
<1> DEFINE Op(x, j) == (IF x = <<>> THEN (IF d.last = 0 THEN x ELSE << d.last >>)
            ELSE IF d.prev[Last(x)] = 0 THEN x ELSE Append(x, d.prev[Last(x)]))
           n == maxVar + 1
           sq == Times(maxVar + 1)
           a == <<>>
           R(f, i) == IF i = 0 THEN a ELSE ByValue(LAMBDA b : Op(b, sq[i]), f[i - 1])
           F(f) == [i \in 0..Len(sq) |-> R(f, i)]
           g == CHOOSE f : f = F(f)
<1>1. n \in Nat /\ Len(sq) = n /\ \A i \in 1..n : sq[i] = i
  BY TimesFacts
<1>2. Backwards(d) = g[Len(sq)]
  BY DEF Backwards, Fold
<1>3. a \in D[0] /\ \A i \in 1..n : \A x \in D[i - 1] : Op(x, sq[i]) \in D[i]
  BY <1>1
<1> HIDE DEF Op, n, sq, a
<1> DEFINE k == [i \in 1..n |-> [x \in D[i - 1] |-> Op(x, sq[i])]]
<1>4. PICK f : Repeats(f, n, D, a, k)
  <2>1. Leads(k, n, D) /\ n \in Nat
    BY <1>1, <1>3 DEF Leads
  <2> HIDE DEF k
  <2> QED
    BY <1>3, <2>1, StagesExist
<1>5. \A i \in 1..n : f[i] = ByValue(LAMBDA b : Op(b, sq[i]), f[i - 1])
  <2>1. \A i \in 1..n : f[i] = Op(f[i - 1], sq[i])
    BY <1>4 DEF Repeats
  <2> QED
    BY <2>1 DEF ByValue
<1> HIDE DEF k
<1>6. f = F(f)
  <2>1. DOMAIN f = 0..n /\ f[0] = a /\ f = [i \in 0..n |-> f[i]]
    BY <1>4 DEF Repeats
  <2>2. ASSUME NEW i \in 0..n PROVE R(f, i) = f[i]
    <3>1. i # 0 => i \in 1..n
      BY ONLY <1>1, i \in 0..n
    <3> QED
      BY <1>5, <2>1, <3>1
  <2> HIDE DEF R
  <2> QED
    BY <1>1, <2>1, <2>2
<1>7. g = F(g)
  <2> HIDE DEF F
  <2> QED
    BY <1>6
<1>8. g[0] = a /\ \A i \in 1..n : g[i] = Op(g[i - 1], sq[i])
  <2>1. \A i \in 0..n : g[i] = R(g, i)
    <3> HIDE DEF g, R
    <3> QED
      BY <1>1, <1>7
  <2> HIDE DEF g
  <2> QED
    BY <1>1, <2>1 DEF ByValue
<1> HIDE DEF g
<1>9. g[n] \in D[n]
  <2>1. g[0] \in D[0] /\ \A i \in 1..n : g[i - 1] \in D[i - 1] => g[i] \in D[i]
    BY <1>3, <1>8
  <2>2. \A i \in 0..n : g[i] \in D[i]
    BY <1>1, <2>1, StagesStay, ZenonT(60)
  <2> QED
    BY <1>1, <2>2
<1> QED
  BY <1>1, <1>2, <1>9 DEF n

\* The time stamps an order gives.
StampsOf(d, order) ==
  LET n == Len(order) IN
  [v \in DOMAIN d.btab |->
     IF v \in Rng(order) THEN d.bumped - n + CHOOSE k \in 1..n : order[k] = v ELSE d.btab[v]]
Restamped(d, order, a) == [a EXCEPT !.btab = StampsOf(d, order), !.unassigned = a.last]

\* Variables enqueued in a new order.
LEMMA ShuffleStages ==
  ASSUME NEW d, NEW order, NEW D, Len(order) \in Nat, [d EXCEPT !.first = 0, !.last = 0] \in D[0],
         \A i \in 1..Len(order) : \A x \in D[i - 1] :
           Enqueue(x, order[i]) \in D[i]
  PROVE  \E a \in D[Len(order)] : ShuffleQueue(d, order) = Restamped(d, order, a)
<1> DEFINE Op(x, j) == Enqueue(x, j)
           n == Len(order)
           sq == order
           a == [d EXCEPT !.first = 0, !.last = 0]
           R(f, i) == IF i = 0 THEN a ELSE ByValue(LAMBDA b : Op(b, sq[i]), f[i - 1])
           F(f) == [i \in 0..Len(sq) |-> R(f, i)]
           g == CHOOSE f : f = F(f)
<1>1. n \in Nat /\ Len(sq) = n
  OBVIOUS
<1>2. ShuffleQueue(d, order) = Restamped(d, order, g[Len(sq)])
  BY DEF ShuffleQueue, Fold, Restamped, StampsOf
<1>3. a \in D[0] /\ \A i \in 1..n : \A x \in D[i - 1] : Op(x, sq[i]) \in D[i]
  BY <1>1
<1> HIDE DEF Op, n, sq, a
<1> DEFINE k == [i \in 1..n |-> [x \in D[i - 1] |-> Op(x, sq[i])]]
<1>4. PICK f : Repeats(f, n, D, a, k)
  <2>1. Leads(k, n, D) /\ n \in Nat
    BY <1>1, <1>3 DEF Leads
  <2> HIDE DEF k
  <2> QED
    BY <1>3, <2>1, StagesExist
<1>5. \A i \in 1..n : f[i] = ByValue(LAMBDA b : Op(b, sq[i]), f[i - 1])
  <2>1. \A i \in 1..n : f[i] = Op(f[i - 1], sq[i])
    BY <1>4 DEF Repeats
  <2> QED
    BY <2>1 DEF ByValue
<1> HIDE DEF k
<1>6. f = F(f)
  <2>1. DOMAIN f = 0..n /\ f[0] = a /\ f = [i \in 0..n |-> f[i]]
    BY <1>4 DEF Repeats
  <2>2. ASSUME NEW i \in 0..n PROVE R(f, i) = f[i]
    <3>1. i # 0 => i \in 1..n
      BY ONLY <1>1, i \in 0..n
    <3> QED
      BY <1>5, <2>1, <3>1
  <2> HIDE DEF R
  <2> QED
    BY <1>1, <2>1, <2>2
<1>7. g = F(g)
  <2> HIDE DEF F
  <2> QED
    BY <1>6
<1>8. g[0] = a /\ \A i \in 1..n : g[i] = Op(g[i - 1], sq[i])
  <2>1. \A i \in 0..n : g[i] = R(g, i)
    <3> HIDE DEF g, R
    <3> QED
      BY <1>1, <1>7
  <2> HIDE DEF g
  <2> QED
    BY <1>1, <2>1 DEF ByValue
<1> HIDE DEF g
<1>9. g[n] \in D[n]
  <2>1. g[0] \in D[0] /\ \A i \in 1..n : g[i - 1] \in D[i - 1] => g[i] \in D[i]
    BY <1>3, <1>8
  <2>2. \A i \in 0..n : g[i] \in D[i]
    BY <1>1, <2>1, StagesStay, ZenonT(60)
  <2> QED
    BY <1>1, <2>2
<1> QED
  BY <1>1, <1>2, <1>9 DEF n

\* Variables bumped in the queue one after the other.
LEMMA BumpQueueStages ==
  ASSUME NEW d, NEW order, NEW D, Len(order) \in Nat, d \in D[0],
         \A i \in 1..Len(order) : \A x \in D[i - 1] :
           BumpQueue(x, order[i]) \in D[i]
  PROVE  Fold(BumpQueue, d, order) \in D[Len(order)]
<1> DEFINE Op(x, j) == BumpQueue(x, j)
           n == Len(order)
           sq == order
           a == d
           R(f, i) == IF i = 0 THEN a ELSE ByValue(LAMBDA b : Op(b, sq[i]), f[i - 1])
           F(f) == [i \in 0..Len(sq) |-> R(f, i)]
           g == CHOOSE f : f = F(f)
<1>1. n \in Nat /\ Len(sq) = n
  OBVIOUS
<1>2. Fold(BumpQueue, d, order) = g[Len(sq)]
  BY DEF Fold
<1>3. a \in D[0] /\ \A i \in 1..n : \A x \in D[i - 1] : Op(x, sq[i]) \in D[i]
  BY <1>1
<1> HIDE DEF Op, n, sq, a
<1> DEFINE k == [i \in 1..n |-> [x \in D[i - 1] |-> Op(x, sq[i])]]
<1>4. PICK f : Repeats(f, n, D, a, k)
  <2>1. Leads(k, n, D) /\ n \in Nat
    BY <1>1, <1>3 DEF Leads
  <2> HIDE DEF k
  <2> QED
    BY <1>3, <2>1, StagesExist
<1>5. \A i \in 1..n : f[i] = ByValue(LAMBDA b : Op(b, sq[i]), f[i - 1])
  <2>1. \A i \in 1..n : f[i] = Op(f[i - 1], sq[i])
    BY <1>4 DEF Repeats
  <2> QED
    BY <2>1 DEF ByValue
<1> HIDE DEF k
<1>6. f = F(f)
  <2>1. DOMAIN f = 0..n /\ f[0] = a /\ f = [i \in 0..n |-> f[i]]
    BY <1>4 DEF Repeats
  <2>2. ASSUME NEW i \in 0..n PROVE R(f, i) = f[i]
    <3>1. i # 0 => i \in 1..n
      BY ONLY <1>1, i \in 0..n
    <3> QED
      BY <1>5, <2>1, <3>1
  <2> HIDE DEF R
  <2> QED
    BY <1>1, <2>1, <2>2
<1>7. g = F(g)
  <2> HIDE DEF F
  <2> QED
    BY <1>6
<1>8. g[0] = a /\ \A i \in 1..n : g[i] = Op(g[i - 1], sq[i])
  <2>1. \A i \in 0..n : g[i] = R(g, i)
    <3> HIDE DEF g, R
    <3> QED
      BY <1>1, <1>7
  <2> HIDE DEF g
  <2> QED
    BY <1>1, <2>1 DEF ByValue
<1> HIDE DEF g
<1>9. g[n] \in D[n]
  <2>1. g[0] \in D[0] /\ \A i \in 1..n : g[i - 1] \in D[i - 1] => g[i] \in D[i]
    BY <1>3, <1>8
  <2>2. \A i \in 0..n : g[i] \in D[i]
    BY <1>1, <2>1, StagesStay, ZenonT(60)
  <2> QED
    BY <1>1, <2>2
<1> QED
  BY <1>1, <1>2, <1>9 DEF n

\* A variable moved up in the heap.
LEMMA UpStages ==
  ASSUME NEW h, NEW v, NEW D, Len(h.heap) \in Nat, h \in D[0],
         \A i \in 1..Len(h.heap) : \A x \in D[i - 1] :
           (LET at == Index(x, v) IN
            IF at > 1 /\ ScoreSmaller(x, x.heap[at \div 2], v) THEN Exchange(x, at, at \div 2) ELSE x) \in D[i]
  PROVE  Up(h, v) \in D[Len(h.heap)]
<1> DEFINE Op(x, j) == (LET at == Index(x, v) IN
            IF at > 1 /\ ScoreSmaller(x, x.heap[at \div 2], v) THEN Exchange(x, at, at \div 2) ELSE x)
           n == Len(h.heap)
           sq == Times(Len(h.heap))
           a == h
           R(f, i) == IF i = 0 THEN a ELSE ByValue(LAMBDA b : Op(b, sq[i]), f[i - 1])
           F(f) == [i \in 0..Len(sq) |-> R(f, i)]
           g == CHOOSE f : f = F(f)
<1>1. n \in Nat /\ Len(sq) = n /\ \A i \in 1..n : sq[i] = i
  BY TimesFacts
<1>2. Up(h, v) = g[Len(sq)]
  BY DEF Up, Fold
<1>3. a \in D[0] /\ \A i \in 1..n : \A x \in D[i - 1] : Op(x, sq[i]) \in D[i]
  BY <1>1
<1> HIDE DEF Op, n, sq, a
<1> DEFINE k == [i \in 1..n |-> [x \in D[i - 1] |-> Op(x, sq[i])]]
<1>4. PICK f : Repeats(f, n, D, a, k)
  <2>1. Leads(k, n, D) /\ n \in Nat
    BY <1>1, <1>3 DEF Leads
  <2> HIDE DEF k
  <2> QED
    BY <1>3, <2>1, StagesExist
<1>5. \A i \in 1..n : f[i] = ByValue(LAMBDA b : Op(b, sq[i]), f[i - 1])
  <2>1. \A i \in 1..n : f[i] = Op(f[i - 1], sq[i])
    BY <1>4 DEF Repeats
  <2> QED
    BY <2>1 DEF ByValue
<1> HIDE DEF k
<1>6. f = F(f)
  <2>1. DOMAIN f = 0..n /\ f[0] = a /\ f = [i \in 0..n |-> f[i]]
    BY <1>4 DEF Repeats
  <2>2. ASSUME NEW i \in 0..n PROVE R(f, i) = f[i]
    <3>1. i # 0 => i \in 1..n
      BY ONLY <1>1, i \in 0..n
    <3> QED
      BY <1>5, <2>1, <3>1
  <2> HIDE DEF R
  <2> QED
    BY <1>1, <2>1, <2>2
<1>7. g = F(g)
  <2> HIDE DEF F
  <2> QED
    BY <1>6
<1>8. g[0] = a /\ \A i \in 1..n : g[i] = Op(g[i - 1], sq[i])
  <2>1. \A i \in 0..n : g[i] = R(g, i)
    <3> HIDE DEF g, R
    <3> QED
      BY <1>1, <1>7
  <2> HIDE DEF g
  <2> QED
    BY <1>1, <2>1 DEF ByValue
<1> HIDE DEF g
<1>9. g[n] \in D[n]
  <2>1. g[0] \in D[0] /\ \A i \in 1..n : g[i - 1] \in D[i - 1] => g[i] \in D[i]
    BY <1>3, <1>8
  <2>2. \A i \in 0..n : g[i] \in D[i]
    BY <1>1, <2>1, StagesStay, ZenonT(60)
  <2> QED
    BY <1>1, <2>2
<1> QED
  BY <1>1, <1>2, <1>9 DEF n

\* A variable moved down in the heap.
LEMMA DownStages ==
  ASSUME NEW h, NEW v, NEW D, Len(h.heap) \in Nat, h \in D[0],
         \A i \in 1..Len(h.heap) : \A x \in D[i - 1] :
           (LET at == Index(x, v)
                children == {c \in {2 * at, 2 * at + 1} : c <= Len(x.heap)}
                best == CHOOSE c \in children : \A m \in children :
                       m = c \/ ScoreSmaller(x, x.heap[m], x.heap[c])
            IN IF children # {} /\ ScoreSmaller(x, v, x.heap[best]) THEN Exchange(x, at, best) ELSE x) \in D[i]
  PROVE  Down(h, v) \in D[Len(h.heap)]
<1> DEFINE Op(x, j) == (LET at == Index(x, v)
                children == {c \in {2 * at, 2 * at + 1} : c <= Len(x.heap)}
                best == CHOOSE c \in children : \A m \in children :
                       m = c \/ ScoreSmaller(x, x.heap[m], x.heap[c])
            IN IF children # {} /\ ScoreSmaller(x, v, x.heap[best]) THEN Exchange(x, at, best) ELSE x)
           n == Len(h.heap)
           sq == Times(Len(h.heap))
           a == h
           R(f, i) == IF i = 0 THEN a ELSE ByValue(LAMBDA b : Op(b, sq[i]), f[i - 1])
           F(f) == [i \in 0..Len(sq) |-> R(f, i)]
           g == CHOOSE f : f = F(f)
<1>1. n \in Nat /\ Len(sq) = n /\ \A i \in 1..n : sq[i] = i
  BY TimesFacts
<1>2. Down(h, v) = g[Len(sq)]
  BY DEF Down, Fold
<1>3. a \in D[0] /\ \A i \in 1..n : \A x \in D[i - 1] : Op(x, sq[i]) \in D[i]
  BY <1>1
<1> HIDE DEF Op, n, sq, a
<1> DEFINE k == [i \in 1..n |-> [x \in D[i - 1] |-> Op(x, sq[i])]]
<1>4. PICK f : Repeats(f, n, D, a, k)
  <2>1. Leads(k, n, D) /\ n \in Nat
    BY <1>1, <1>3 DEF Leads
  <2> HIDE DEF k
  <2> QED
    BY <1>3, <2>1, StagesExist
<1>5. \A i \in 1..n : f[i] = ByValue(LAMBDA b : Op(b, sq[i]), f[i - 1])
  <2>1. \A i \in 1..n : f[i] = Op(f[i - 1], sq[i])
    BY <1>4 DEF Repeats
  <2> QED
    BY <2>1 DEF ByValue
<1> HIDE DEF k
<1>6. f = F(f)
  <2>1. DOMAIN f = 0..n /\ f[0] = a /\ f = [i \in 0..n |-> f[i]]
    BY <1>4 DEF Repeats
  <2>2. ASSUME NEW i \in 0..n PROVE R(f, i) = f[i]
    <3>1. i # 0 => i \in 1..n
      BY ONLY <1>1, i \in 0..n
    <3> QED
      BY <1>5, <2>1, <3>1
  <2> HIDE DEF R
  <2> QED
    BY <1>1, <2>1, <2>2
<1>7. g = F(g)
  <2> HIDE DEF F
  <2> QED
    BY <1>6
<1>8. g[0] = a /\ \A i \in 1..n : g[i] = Op(g[i - 1], sq[i])
  <2>1. \A i \in 0..n : g[i] = R(g, i)
    <3> HIDE DEF g, R
    <3> QED
      BY <1>1, <1>7
  <2> HIDE DEF g
  <2> QED
    BY <1>1, <2>1 DEF ByValue
<1> HIDE DEF g
<1>9. g[n] \in D[n]
  <2>1. g[0] \in D[0] /\ \A i \in 1..n : g[i - 1] \in D[i - 1] => g[i] \in D[i]
    BY <1>3, <1>8
  <2>2. \A i \in 0..n : g[i] \in D[i]
    BY <1>1, <2>1, StagesStay, ZenonT(60)
  <2> QED
    BY <1>1, <2>2
<1> QED
  BY <1>1, <1>2, <1>9 DEF n

\* Assigned variables popped from the heap.
LEMMA PopStages ==
  ASSUME NEW h, NEW tr, NEW D, Len(h.heap) \in Nat, h \in D[0],
         \A i \in 1..Len(h.heap) : \A x \in D[i - 1] :
           (IF x.heap # <<>> /\ Assigned(tr, x.heap[1]) THEN PopFront(x) ELSE x) \in D[i]
  PROVE  PopAssigned(h, tr) \in D[Len(h.heap)]
<1> DEFINE Op(x, j) == (IF x.heap # <<>> /\ Assigned(tr, x.heap[1]) THEN PopFront(x) ELSE x)
           n == Len(h.heap)
           sq == Times(Len(h.heap))
           a == h
           R(f, i) == IF i = 0 THEN a ELSE ByValue(LAMBDA b : Op(b, sq[i]), f[i - 1])
           F(f) == [i \in 0..Len(sq) |-> R(f, i)]
           g == CHOOSE f : f = F(f)
<1>1. n \in Nat /\ Len(sq) = n /\ \A i \in 1..n : sq[i] = i
  BY TimesFacts
<1>2. PopAssigned(h, tr) = g[Len(sq)]
  BY DEF PopAssigned, Fold
<1>3. a \in D[0] /\ \A i \in 1..n : \A x \in D[i - 1] : Op(x, sq[i]) \in D[i]
  BY <1>1
<1> HIDE DEF Op, n, sq, a
<1> DEFINE k == [i \in 1..n |-> [x \in D[i - 1] |-> Op(x, sq[i])]]
<1>4. PICK f : Repeats(f, n, D, a, k)
  <2>1. Leads(k, n, D) /\ n \in Nat
    BY <1>1, <1>3 DEF Leads
  <2> HIDE DEF k
  <2> QED
    BY <1>3, <2>1, StagesExist
<1>5. \A i \in 1..n : f[i] = ByValue(LAMBDA b : Op(b, sq[i]), f[i - 1])
  <2>1. \A i \in 1..n : f[i] = Op(f[i - 1], sq[i])
    BY <1>4 DEF Repeats
  <2> QED
    BY <2>1 DEF ByValue
<1> HIDE DEF k
<1>6. f = F(f)
  <2>1. DOMAIN f = 0..n /\ f[0] = a /\ f = [i \in 0..n |-> f[i]]
    BY <1>4 DEF Repeats
  <2>2. ASSUME NEW i \in 0..n PROVE R(f, i) = f[i]
    <3>1. i # 0 => i \in 1..n
      BY ONLY <1>1, i \in 0..n
    <3> QED
      BY <1>5, <2>1, <3>1
  <2> HIDE DEF R
  <2> QED
    BY <1>1, <2>1, <2>2
<1>7. g = F(g)
  <2> HIDE DEF F
  <2> QED
    BY <1>6
<1>8. g[0] = a /\ \A i \in 1..n : g[i] = Op(g[i - 1], sq[i])
  <2>1. \A i \in 0..n : g[i] = R(g, i)
    <3> HIDE DEF g, R
    <3> QED
      BY <1>1, <1>7
  <2> HIDE DEF g
  <2> QED
    BY <1>1, <2>1 DEF ByValue
<1> HIDE DEF g
<1>9. g[n] \in D[n]
  <2>1. g[0] \in D[0] /\ \A i \in 1..n : g[i - 1] \in D[i - 1] => g[i] \in D[i]
    BY <1>3, <1>8
  <2>2. \A i \in 0..n : g[i] \in D[i]
    BY <1>1, <2>1, StagesStay, ZenonT(60)
  <2> QED
    BY <1>1, <2>2
<1> QED
  BY <1>1, <1>2, <1>9 DEF n

\* Variables pushed on the heap with new scores.
LEMMA ShuffleScoreStages ==
  ASSUME NEW h, NEW order, NEW D, Len(order) \in Nat, [h EXCEPT !.heap = <<>>, !.inc = 0] \in D[0],
         \A i \in 1..Len(order) : \A x \in D[i - 1] :
           PushAsBest(x, order[i]) \in D[i]
  PROVE  ShuffleScores(h, order) \in D[Len(order)]
<1> DEFINE Op(x, j) == PushAsBest(x, j)
           n == Len(order)
           sq == order
           a == [h EXCEPT !.heap = <<>>, !.inc = 0]
           R(f, i) == IF i = 0 THEN a ELSE ByValue(LAMBDA b : Op(b, sq[i]), f[i - 1])
           F(f) == [i \in 0..Len(sq) |-> R(f, i)]
           g == CHOOSE f : f = F(f)
<1>1. n \in Nat /\ Len(sq) = n
  OBVIOUS
<1>2. ShuffleScores(h, order) = g[Len(sq)]
  BY DEF ShuffleScores, Fold, PushAsBest
<1>3. a \in D[0] /\ \A i \in 1..n : \A x \in D[i - 1] : Op(x, sq[i]) \in D[i]
  BY <1>1
<1> HIDE DEF Op, n, sq, a
<1> DEFINE k == [i \in 1..n |-> [x \in D[i - 1] |-> Op(x, sq[i])]]
<1>4. PICK f : Repeats(f, n, D, a, k)
  <2>1. Leads(k, n, D) /\ n \in Nat
    BY <1>1, <1>3 DEF Leads
  <2> HIDE DEF k
  <2> QED
    BY <1>3, <2>1, StagesExist
<1>5. \A i \in 1..n : f[i] = ByValue(LAMBDA b : Op(b, sq[i]), f[i - 1])
  <2>1. \A i \in 1..n : f[i] = Op(f[i - 1], sq[i])
    BY <1>4 DEF Repeats
  <2> QED
    BY <2>1 DEF ByValue
<1> HIDE DEF k
<1>6. f = F(f)
  <2>1. DOMAIN f = 0..n /\ f[0] = a /\ f = [i \in 0..n |-> f[i]]
    BY <1>4 DEF Repeats
  <2>2. ASSUME NEW i \in 0..n PROVE R(f, i) = f[i]
    <3>1. i # 0 => i \in 1..n
      BY ONLY <1>1, i \in 0..n
    <3> QED
      BY <1>5, <2>1, <3>1
  <2> HIDE DEF R
  <2> QED
    BY <1>1, <2>1, <2>2
<1>7. g = F(g)
  <2> HIDE DEF F
  <2> QED
    BY <1>6
<1>8. g[0] = a /\ \A i \in 1..n : g[i] = Op(g[i - 1], sq[i])
  <2>1. \A i \in 0..n : g[i] = R(g, i)
    <3> HIDE DEF g, R
    <3> QED
      BY <1>1, <1>7
  <2> HIDE DEF g
  <2> QED
    BY <1>1, <2>1 DEF ByValue
<1> HIDE DEF g
<1>9. g[n] \in D[n]
  <2>1. g[0] \in D[0] /\ \A i \in 1..n : g[i - 1] \in D[i - 1] => g[i] \in D[i]
    BY <1>3, <1>8
  <2>2. \A i \in 0..n : g[i] \in D[i]
    BY <1>1, <2>1, StagesStay, ZenonT(60)
  <2> QED
    BY <1>1, <2>2
<1> QED
  BY <1>1, <1>2, <1>9 DEF n

\* The scores of variables bumped one after the other.
LEMMA BumpScoreStages ==
  ASSUME NEW h, NEW order, NEW D, Len(order) \in Nat, h \in D[0],
         \A i \in 1..Len(order) : \A x \in D[i - 1] :
           BumpScore(x, order[i]) \in D[i]
  PROVE  Fold(BumpScore, h, order) \in D[Len(order)]
<1> DEFINE Op(x, j) == BumpScore(x, j)
           n == Len(order)
           sq == order
           a == h
           R(f, i) == IF i = 0 THEN a ELSE ByValue(LAMBDA b : Op(b, sq[i]), f[i - 1])
           F(f) == [i \in 0..Len(sq) |-> R(f, i)]
           g == CHOOSE f : f = F(f)
<1>1. n \in Nat /\ Len(sq) = n
  OBVIOUS
<1>2. Fold(BumpScore, h, order) = g[Len(sq)]
  BY DEF Fold
<1>3. a \in D[0] /\ \A i \in 1..n : \A x \in D[i - 1] : Op(x, sq[i]) \in D[i]
  BY <1>1
<1> HIDE DEF Op, n, sq, a
<1> DEFINE k == [i \in 1..n |-> [x \in D[i - 1] |-> Op(x, sq[i])]]
<1>4. PICK f : Repeats(f, n, D, a, k)
  <2>1. Leads(k, n, D) /\ n \in Nat
    BY <1>1, <1>3 DEF Leads
  <2> HIDE DEF k
  <2> QED
    BY <1>3, <2>1, StagesExist
<1>5. \A i \in 1..n : f[i] = ByValue(LAMBDA b : Op(b, sq[i]), f[i - 1])
  <2>1. \A i \in 1..n : f[i] = Op(f[i - 1], sq[i])
    BY <1>4 DEF Repeats
  <2> QED
    BY <2>1 DEF ByValue
<1> HIDE DEF k
<1>6. f = F(f)
  <2>1. DOMAIN f = 0..n /\ f[0] = a /\ f = [i \in 0..n |-> f[i]]
    BY <1>4 DEF Repeats
  <2>2. ASSUME NEW i \in 0..n PROVE R(f, i) = f[i]
    <3>1. i # 0 => i \in 1..n
      BY ONLY <1>1, i \in 0..n
    <3> QED
      BY <1>5, <2>1, <3>1
  <2> HIDE DEF R
  <2> QED
    BY <1>1, <2>1, <2>2
<1>7. g = F(g)
  <2> HIDE DEF F
  <2> QED
    BY <1>6
<1>8. g[0] = a /\ \A i \in 1..n : g[i] = Op(g[i - 1], sq[i])
  <2>1. \A i \in 0..n : g[i] = R(g, i)
    <3> HIDE DEF g, R
    <3> QED
      BY <1>1, <1>7
  <2> HIDE DEF g
  <2> QED
    BY <1>1, <2>1 DEF ByValue
<1> HIDE DEF g
<1>9. g[n] \in D[n]
  <2>1. g[0] \in D[0] /\ \A i \in 1..n : g[i - 1] \in D[i - 1] => g[i] \in D[i]
    BY <1>3, <1>8
  <2>2. \A i \in 0..n : g[i] \in D[i]
    BY <1>1, <2>1, StagesStay, ZenonT(60)
  <2> QED
    BY <1>1, <2>2
<1> QED
  BY <1>1, <1>2, <1>9 DEF n

\* The heap popped until it is empty.
LEMMA ByScoreStages ==
  ASSUME NEW h, NEW D, Len(h.heap) \in Nat, [h |-> h, out |-> <<>>] \in D[0],
         \A i \in 1..Len(h.heap) : \A x \in D[i - 1] :
           [h |-> PopFront(x.h), out |-> Append(x.out, x.h.heap[1])] \in D[i]
  PROVE  \E x \in D[Len(h.heap)] : ByScore(h) = x.out
<1> DEFINE Op(x, j) == [h |-> PopFront(x.h), out |-> Append(x.out, x.h.heap[1])]
           n == Len(h.heap)
           sq == Times(Len(h.heap))
           a == [h |-> h, out |-> <<>>]
           R(f, i) == IF i = 0 THEN a ELSE ByValue(LAMBDA b : Op(b, sq[i]), f[i - 1])
           F(f) == [i \in 0..Len(sq) |-> R(f, i)]
           g == CHOOSE f : f = F(f)
<1>1. n \in Nat /\ Len(sq) = n /\ \A i \in 1..n : sq[i] = i
  BY TimesFacts
<1>2. ByScore(h) = g[Len(sq)].out
  BY DEF ByScore, Fold
<1>3. a \in D[0] /\ \A i \in 1..n : \A x \in D[i - 1] : Op(x, sq[i]) \in D[i]
  BY <1>1
<1> HIDE DEF Op, n, sq, a
<1> DEFINE k == [i \in 1..n |-> [x \in D[i - 1] |-> Op(x, sq[i])]]
<1>4. PICK f : Repeats(f, n, D, a, k)
  <2>1. Leads(k, n, D) /\ n \in Nat
    BY <1>1, <1>3 DEF Leads
  <2> HIDE DEF k
  <2> QED
    BY <1>3, <2>1, StagesExist
<1>5. \A i \in 1..n : f[i] = ByValue(LAMBDA b : Op(b, sq[i]), f[i - 1])
  <2>1. \A i \in 1..n : f[i] = Op(f[i - 1], sq[i])
    BY <1>4 DEF Repeats
  <2> QED
    BY <2>1 DEF ByValue
<1> HIDE DEF k
<1>6. f = F(f)
  <2>1. DOMAIN f = 0..n /\ f[0] = a /\ f = [i \in 0..n |-> f[i]]
    BY <1>4 DEF Repeats
  <2>2. ASSUME NEW i \in 0..n PROVE R(f, i) = f[i]
    <3>1. i # 0 => i \in 1..n
      BY ONLY <1>1, i \in 0..n
    <3> QED
      BY <1>5, <2>1, <3>1
  <2> HIDE DEF R
  <2> QED
    BY <1>1, <2>1, <2>2
<1>7. g = F(g)
  <2> HIDE DEF F
  <2> QED
    BY <1>6
<1>8. g[0] = a /\ \A i \in 1..n : g[i] = Op(g[i - 1], sq[i])
  <2>1. \A i \in 0..n : g[i] = R(g, i)
    <3> HIDE DEF g, R
    <3> QED
      BY <1>1, <1>7
  <2> HIDE DEF g
  <2> QED
    BY <1>1, <2>1 DEF ByValue
<1> HIDE DEF g
<1>9. g[n] \in D[n]
  <2>1. g[0] \in D[0] /\ \A i \in 1..n : g[i - 1] \in D[i - 1] => g[i] \in D[i]
    BY <1>3, <1>8
  <2>2. \A i \in 0..n : g[i] \in D[i]
    BY <1>1, <2>1, StagesStay, ZenonT(60)
  <2> QED
    BY <1>1, <2>2
<1> QED
  BY <1>1, <1>2, <1>9 DEF n

\* Variables given back one after the other.
LEMMA UndoStages ==
  ASSUME NEW d, NEW h, NEW tr, NEW D, Len(t.trail) \in Nat, [q |-> d, s |-> h] \in D[0],
         \A i \in 1..Len(t.trail) : \A x \in D[i - 1] :
           (LET v == VarOf(t.trail[i].lit) IN IF Assigned(tr, v) THEN x ELSE Unassign(x, v)) \in D[i]
  PROVE  Undo(d, h, tr) \in D[Len(t.trail)]
<1> DEFINE Op(x, j) == (LET v == VarOf(t.trail[j].lit) IN IF Assigned(tr, v) THEN x ELSE Unassign(x, v))
           n == Len(t.trail)
           sq == Times(Len(t.trail))
           a == [q |-> d, s |-> h]
           R(f, i) == IF i = 0 THEN a ELSE ByValue(LAMBDA b : Op(b, sq[i]), f[i - 1])
           F(f) == [i \in 0..Len(sq) |-> R(f, i)]
           g == CHOOSE f : f = F(f)
<1>1. n \in Nat /\ Len(sq) = n /\ \A i \in 1..n : sq[i] = i
  BY TimesFacts
<1>2. Undo(d, h, tr) = g[Len(sq)]
  BY DEF Undo, Fold
<1>3. a \in D[0] /\ \A i \in 1..n : \A x \in D[i - 1] : Op(x, sq[i]) \in D[i]
  BY <1>1
<1> HIDE DEF Op, n, sq, a
<1> DEFINE k == [i \in 1..n |-> [x \in D[i - 1] |-> Op(x, sq[i])]]
<1>4. PICK f : Repeats(f, n, D, a, k)
  <2>1. Leads(k, n, D) /\ n \in Nat
    BY <1>1, <1>3 DEF Leads
  <2> HIDE DEF k
  <2> QED
    BY <1>3, <2>1, StagesExist
<1>5. \A i \in 1..n : f[i] = ByValue(LAMBDA b : Op(b, sq[i]), f[i - 1])
  <2>1. \A i \in 1..n : f[i] = Op(f[i - 1], sq[i])
    BY <1>4 DEF Repeats
  <2> QED
    BY <2>1 DEF ByValue
<1> HIDE DEF k
<1>6. f = F(f)
  <2>1. DOMAIN f = 0..n /\ f[0] = a /\ f = [i \in 0..n |-> f[i]]
    BY <1>4 DEF Repeats
  <2>2. ASSUME NEW i \in 0..n PROVE R(f, i) = f[i]
    <3>1. i # 0 => i \in 1..n
      BY ONLY <1>1, i \in 0..n
    <3> QED
      BY <1>5, <2>1, <3>1
  <2> HIDE DEF R
  <2> QED
    BY <1>1, <2>1, <2>2
<1>7. g = F(g)
  <2> HIDE DEF F
  <2> QED
    BY <1>6
<1>8. g[0] = a /\ \A i \in 1..n : g[i] = Op(g[i - 1], sq[i])
  <2>1. \A i \in 0..n : g[i] = R(g, i)
    <3> HIDE DEF g, R
    <3> QED
      BY <1>1, <1>7
  <2> HIDE DEF g
  <2> QED
    BY <1>1, <2>1 DEF ByValue
<1> HIDE DEF g
<1>9. g[n] \in D[n]
  <2>1. g[0] \in D[0] /\ \A i \in 1..n : g[i - 1] \in D[i - 1] => g[i] \in D[i]
    BY <1>3, <1>8
  <2>2. \A i \in 0..n : g[i] \in D[i]
    BY <1>1, <2>1, StagesStay, ZenonT(60)
  <2> QED
    BY <1>1, <2>2
<1> QED
  BY <1>1, <1>2, <1>9 DEF n

\* The new names of the variables that stay, in order.
LEMMA MapSeqStages ==
  ASSUME NEW m, NEW seq, NEW D, Len(seq) \in Nat, <<>> \in D[0],
         \A i \in 1..Len(seq) : \A x \in D[i - 1] :
           (IF m[seq[i]] # 0 /\ seq[i] # FirstFixed THEN Append(x, m[seq[i]]) ELSE x) \in D[i]
  PROVE  MapSeq(m, seq) \in D[Len(seq)]
<1> DEFINE Op(x, j) == (IF m[j] # 0 /\ j # FirstFixed THEN Append(x, m[j]) ELSE x)
           n == Len(seq)
           sq == seq
           a == <<>>
           R(f, i) == IF i = 0 THEN a ELSE ByValue(LAMBDA b : Op(b, sq[i]), f[i - 1])
           F(f) == [i \in 0..Len(sq) |-> R(f, i)]
           g == CHOOSE f : f = F(f)
<1>1. n \in Nat /\ Len(sq) = n
  OBVIOUS
<1>2. MapSeq(m, seq) = g[Len(sq)]
  BY DEF MapSeq, Fold
<1>3. a \in D[0] /\ \A i \in 1..n : \A x \in D[i - 1] : Op(x, sq[i]) \in D[i]
  BY <1>1
<1> HIDE DEF Op, n, sq, a
<1> DEFINE k == [i \in 1..n |-> [x \in D[i - 1] |-> Op(x, sq[i])]]
<1>4. PICK f : Repeats(f, n, D, a, k)
  <2>1. Leads(k, n, D) /\ n \in Nat
    BY <1>1, <1>3 DEF Leads
  <2> HIDE DEF k
  <2> QED
    BY <1>3, <2>1, StagesExist
<1>5. \A i \in 1..n : f[i] = ByValue(LAMBDA b : Op(b, sq[i]), f[i - 1])
  <2>1. \A i \in 1..n : f[i] = Op(f[i - 1], sq[i])
    BY <1>4 DEF Repeats
  <2> QED
    BY <2>1 DEF ByValue
<1> HIDE DEF k
<1>6. f = F(f)
  <2>1. DOMAIN f = 0..n /\ f[0] = a /\ f = [i \in 0..n |-> f[i]]
    BY <1>4 DEF Repeats
  <2>2. ASSUME NEW i \in 0..n PROVE R(f, i) = f[i]
    <3>1. i # 0 => i \in 1..n
      BY ONLY <1>1, i \in 0..n
    <3> QED
      BY <1>5, <2>1, <3>1
  <2> HIDE DEF R
  <2> QED
    BY <1>1, <2>1, <2>2
<1>7. g = F(g)
  <2> HIDE DEF F
  <2> QED
    BY <1>6
<1>8. g[0] = a /\ \A i \in 1..n : g[i] = Op(g[i - 1], sq[i])
  <2>1. \A i \in 0..n : g[i] = R(g, i)
    <3> HIDE DEF g, R
    <3> QED
      BY <1>1, <1>7
  <2> HIDE DEF g
  <2> QED
    BY <1>1, <2>1 DEF ByValue
<1> HIDE DEF g
<1>9. g[n] \in D[n]
  <2>1. g[0] \in D[0] /\ \A i \in 1..n : g[i - 1] \in D[i - 1] => g[i] \in D[i]
    BY <1>3, <1>8
  <2>2. \A i \in 0..n : g[i] \in D[i]
    BY <1>1, <2>1, StagesStay, ZenonT(60)
  <2> QED
    BY <1>1, <2>2
<1> QED
  BY <1>1, <1>2, <1>9 DEF n

\* Variables pushed on the heap one after the other.
LEMMA PushStages ==
  ASSUME NEW h, NEW order, NEW D, Len(order) \in Nat, h \in D[0],
         \A i \in 1..Len(order) : \A x \in D[i - 1] :
           PushBack(x, order[i]) \in D[i]
  PROVE  Fold(PushBack, h, order) \in D[Len(order)]
<1> DEFINE Op(x, j) == PushBack(x, j)
           n == Len(order)
           sq == order
           a == h
           R(f, i) == IF i = 0 THEN a ELSE ByValue(LAMBDA b : Op(b, sq[i]), f[i - 1])
           F(f) == [i \in 0..Len(sq) |-> R(f, i)]
           g == CHOOSE f : f = F(f)
<1>1. n \in Nat /\ Len(sq) = n
  OBVIOUS
<1>2. Fold(PushBack, h, order) = g[Len(sq)]
  BY DEF Fold
<1>3. a \in D[0] /\ \A i \in 1..n : \A x \in D[i - 1] : Op(x, sq[i]) \in D[i]
  BY <1>1
<1> HIDE DEF Op, n, sq, a
<1> DEFINE k == [i \in 1..n |-> [x \in D[i - 1] |-> Op(x, sq[i])]]
<1>4. PICK f : Repeats(f, n, D, a, k)
  <2>1. Leads(k, n, D) /\ n \in Nat
    BY <1>1, <1>3 DEF Leads
  <2> HIDE DEF k
  <2> QED
    BY <1>3, <2>1, StagesExist
<1>5. \A i \in 1..n : f[i] = ByValue(LAMBDA b : Op(b, sq[i]), f[i - 1])
  <2>1. \A i \in 1..n : f[i] = Op(f[i - 1], sq[i])
    BY <1>4 DEF Repeats
  <2> QED
    BY <2>1 DEF ByValue
<1> HIDE DEF k
<1>6. f = F(f)
  <2>1. DOMAIN f = 0..n /\ f[0] = a /\ f = [i \in 0..n |-> f[i]]
    BY <1>4 DEF Repeats
  <2>2. ASSUME NEW i \in 0..n PROVE R(f, i) = f[i]
    <3>1. i # 0 => i \in 1..n
      BY ONLY <1>1, i \in 0..n
    <3> QED
      BY <1>5, <2>1, <3>1
  <2> HIDE DEF R
  <2> QED
    BY <1>1, <2>1, <2>2
<1>7. g = F(g)
  <2> HIDE DEF F
  <2> QED
    BY <1>6
<1>8. g[0] = a /\ \A i \in 1..n : g[i] = Op(g[i - 1], sq[i])
  <2>1. \A i \in 0..n : g[i] = R(g, i)
    <3> HIDE DEF g, R
    <3> QED
      BY <1>1, <1>7
  <2> HIDE DEF g
  <2> QED
    BY <1>1, <2>1 DEF ByValue
<1> HIDE DEF g
<1>9. g[n] \in D[n]
  <2>1. g[0] \in D[0] /\ \A i \in 1..n : g[i - 1] \in D[i - 1] => g[i] \in D[i]
    BY <1>3, <1>8
  <2>2. \A i \in 0..n : g[i] \in D[i]
    BY <1>1, <2>1, StagesStay, ZenonT(60)
  <2> QED
    BY <1>1, <2>2
<1> QED
  BY <1>1, <1>2, <1>9 DEF n

\* Variables added one after the other.
LEMMA NewVariableStages ==
  ASSUME NEW d, NEW D, maxVar \in Nat, d \in D[0],
         \A i \in 1..maxVar : \A x \in D[i - 1] :
           NewVariable(x, i) \in D[i]
  PROVE  Fold(NewVariable, d, Times(maxVar)) \in D[maxVar]
<1> DEFINE Op(x, j) == NewVariable(x, j)
           n == maxVar
           sq == Times(maxVar)
           a == d
           R(f, i) == IF i = 0 THEN a ELSE ByValue(LAMBDA b : Op(b, sq[i]), f[i - 1])
           F(f) == [i \in 0..Len(sq) |-> R(f, i)]
           g == CHOOSE f : f = F(f)
<1>1. n \in Nat /\ Len(sq) = n /\ \A i \in 1..n : sq[i] = i
  BY TimesFacts
<1>2. Fold(NewVariable, d, Times(maxVar)) = g[Len(sq)]
  BY DEF Fold
<1>3. a \in D[0] /\ \A i \in 1..n : \A x \in D[i - 1] : Op(x, sq[i]) \in D[i]
  BY <1>1
<1> HIDE DEF Op, n, sq, a
<1> DEFINE k == [i \in 1..n |-> [x \in D[i - 1] |-> Op(x, sq[i])]]
<1>4. PICK f : Repeats(f, n, D, a, k)
  <2>1. Leads(k, n, D) /\ n \in Nat
    BY <1>1, <1>3 DEF Leads
  <2> HIDE DEF k
  <2> QED
    BY <1>3, <2>1, StagesExist
<1>5. \A i \in 1..n : f[i] = ByValue(LAMBDA b : Op(b, sq[i]), f[i - 1])
  <2>1. \A i \in 1..n : f[i] = Op(f[i - 1], sq[i])
    BY <1>4 DEF Repeats
  <2> QED
    BY <2>1 DEF ByValue
<1> HIDE DEF k
<1>6. f = F(f)
  <2>1. DOMAIN f = 0..n /\ f[0] = a /\ f = [i \in 0..n |-> f[i]]
    BY <1>4 DEF Repeats
  <2>2. ASSUME NEW i \in 0..n PROVE R(f, i) = f[i]
    <3>1. i # 0 => i \in 1..n
      BY ONLY <1>1, i \in 0..n
    <3> QED
      BY <1>5, <2>1, <3>1
  <2> HIDE DEF R
  <2> QED
    BY <1>1, <2>1, <2>2
<1>7. g = F(g)
  <2> HIDE DEF F
  <2> QED
    BY <1>6
<1>8. g[0] = a /\ \A i \in 1..n : g[i] = Op(g[i - 1], sq[i])
  <2>1. \A i \in 0..n : g[i] = R(g, i)
    <3> HIDE DEF g, R
    <3> QED
      BY <1>1, <1>7
  <2> HIDE DEF g
  <2> QED
    BY <1>1, <2>1 DEF ByValue
<1> HIDE DEF g
<1>9. g[n] \in D[n]
  <2>1. g[0] \in D[0] /\ \A i \in 1..n : g[i - 1] \in D[i - 1] => g[i] \in D[i]
    BY <1>3, <1>8
  <2>2. \A i \in 0..n : g[i] \in D[i]
    BY <1>1, <2>1, StagesStay, ZenonT(60)
  <2> QED
    BY <1>1, <2>2
<1> QED
  BY <1>1, <1>2, <1>9 DEF n

-----------------------------------------------------------------------------
(* The queue: links in the order of the time stamps.                       *)

\* The variables there may be.
Idx == 1..MaxVar

\* The types of a queue.
Queues == [first : Nat, last : Nat, unassigned : Nat, bumped : Int, stamp : Nat,
           prev : [Idx -> Nat], next : [Idx -> Nat], btab : [Idx -> Int]]

\* The variables in E are told apart by their keys.
Keyed(E, key) ==
  E \subseteq Idx /\ key \in [Idx -> Int] /\ \A v, w \in E : key[v] = key[w] => v = w

\* x is the first or last of E by key, 0 if there is none.
IsFirst(E, key, x) == IF E = {} THEN x = 0 ELSE x \in E /\ \A w \in E : key[x] <= key[w]
IsLast(E, key, x) == IF E = {} THEN x = 0 ELSE x \in E /\ \A w \in E : key[w] <= key[x]

\* x is next to v in E by key, 0 if there is none.
IsPrev(E, key, v, x) ==
  \/ x = 0 /\ \A w \in E : key[v] <= key[w]
  \/ x \in E /\ key[x] < key[v] /\ \A w \in E : key[w] <= key[x] \/ key[v] <= key[w]
IsNext(E, key, v, x) ==
  \/ x = 0 /\ \A w \in E : key[w] <= key[v]
  \/ x \in E /\ key[v] < key[x] /\ \A w \in E : key[w] <= key[v] \/ key[x] <= key[w]

\* The links of d join the variables of E in the order of their keys.
Linked(d, E, key) ==
  /\ d \in Queues /\ Keyed(E, key)
  /\ IsFirst(E, key, d.first) /\ IsLast(E, key, d.last)
  /\ \A v \in E : IsPrev(E, key, v, d.prev[v]) /\ IsNext(E, key, v, d.next[v])

\* What a link operation keeps of d in e.
SameStamps(d, e) ==
  e.btab = d.btab /\ e.stamp = d.stamp /\ e.unassigned = d.unassigned /\ e.bumped = d.bumped

\* Only keys of queued variables matter, and only links and anchors.
LEMMA SameLinks ==
  ASSUME NEW d, NEW E, NEW key, Linked(d, E, key),
         NEW e \in Queues, e.first = d.first, e.last = d.last, e.prev = d.prev, e.next = d.next,
         NEW new \in [Idx -> Int], \A v \in E : new[v] = key[v]
  PROVE  Linked(e, E, new)
<1>1. Keyed(E, new)
  BY DEF Linked, Keyed
<1>2. IsFirst(E, new, e.first) /\ IsLast(E, new, e.last)
  BY DEF Linked, Keyed, IsFirst, IsLast
<1>3. ASSUME NEW v \in E PROVE IsPrev(E, new, v, e.prev[v]) /\ IsNext(E, new, v, e.next[v])
  <2>1. IsPrev(E, key, v, d.prev[v]) /\ IsNext(E, key, v, d.next[v])
    BY DEF Linked
  <2> QED
    BY <2>1 DEF IsPrev, IsNext
<1> QED
  BY <1>1, <1>2, <1>3 DEF Linked

\* A variable with the greatest key goes to the end.
LEMMA EnqueueLinks ==
  ASSUME NEW d, NEW E, NEW key, Linked(d, E, key), NEW v \in Idx, v \notin E,
         \A w \in E : key[w] < key[v]
  PROVE  Linked(Enqueue(d, v), E \cup {v}, key) /\ SameStamps(d, Enqueue(d, v))
<1> DEFINE e == Enqueue(d, v)
           l == d.last
           link == IF l # 0 THEN [d.next EXCEPT ![l] = v] ELSE d.next
<1>1. /\ d \in Queues /\ Keyed(E, key) /\ IsFirst(E, key, d.first) /\ IsLast(E, key, l)
      /\ \A w \in E : IsPrev(E, key, w, d.prev[w]) /\ IsNext(E, key, w, d.next[w])
  BY DEF Linked
<1>2. /\ E \subseteq Idx /\ key \in [Idx -> Int] /\ \A w \in Idx : w \in Nat /\ w # 0
      /\ \A w \in Idx : key[w] \in Int
  BY <1>1 DEF Keyed, Idx
<1>3. link \in [Idx -> Nat] /\ l \in Nat
  BY <1>1, <1>2 DEF Queues
<1>4. /\ e \in Queues /\ SameStamps(d, e) /\ e.last = v
      /\ e.first = (IF l # 0 THEN d.first ELSE v)
      /\ e.prev = [d.prev EXCEPT ![v] = l] /\ e.next = [link EXCEPT ![v] = 0]
  <2>1. CASE l # 0
    BY <2>1, <1>1, <1>2, <1>3 DEF Queues, Enqueue, SameStamps
  <2>2. CASE l = 0
    BY <2>2, <1>1, <1>2, <1>3 DEF Queues, Enqueue, SameStamps
  <2> QED
    BY <2>1, <2>2
<1>5. /\ (l = 0) = (E = {})
      /\ l # 0 => l \in E /\ \A w \in E : key[w] <= key[l]
  BY <1>1, <1>2 DEF IsLast
<1> HIDE DEF l, e
<1>6. /\ e.prev[v] = l /\ e.next[v] = 0
      /\ \A w \in E : e.prev[w] = d.prev[w] /\ e.next[w] = IF w = l THEN v ELSE d.next[w]
  <2>1. d.prev \in [Idx -> Nat] /\ d.next \in [Idx -> Nat]
    BY <1>1 DEF Queues
  <2>2. \A w \in E : link[w] = IF w = l THEN v ELSE d.next[w]
    BY <1>2, <1>5, <2>1
  <2> HIDE DEF link
  <2> QED
    BY <1>2, <1>3, <1>4, <2>1, <2>2
<1> HIDE DEF link
<1>7. Keyed(E \cup {v}, key)
  BY <1>1, <1>2 DEF Keyed
<1>8. IsFirst(E \cup {v}, key, e.first) /\ IsLast(E \cup {v}, key, e.last)
  BY <1>1, <1>2, <1>4, <1>5 DEF IsFirst, IsLast
<1>9. IsPrev(E \cup {v}, key, v, e.prev[v]) /\ IsNext(E \cup {v}, key, v, e.next[v])
  BY <1>2, <1>5, <1>6 DEF IsPrev, IsNext
<1>10. ASSUME NEW w \in E
       PROVE  IsPrev(E \cup {v}, key, w, e.prev[w]) /\ IsNext(E \cup {v}, key, w, e.next[w])
  <2>1. IsPrev(E, key, w, d.prev[w]) /\ IsNext(E, key, w, d.next[w])
    BY <1>1
  <2>2. IsPrev(E \cup {v}, key, w, e.prev[w])
    BY <1>2, <1>6, <2>1 DEF IsPrev
  <2>3. CASE w = l
    <3>1. e.next[w] = v /\ \A x \in E : key[x] <= key[w]
      BY <1>5, <1>6, <2>3
    <3>2. IsNext(E \cup {v}, key, w, e.next[w])
      BY <1>2, <3>1 DEF IsNext
    <3> QED
      BY <2>2, <3>2
  <2>4. CASE w # l
    <3>1. e.next[w] = d.next[w] /\ l \in E /\ key[w] < key[l]
      BY <1>1, <1>2, <1>5, <1>6, <2>4 DEF Keyed
    <3>2. IsNext(E \cup {v}, key, w, e.next[w])
      BY <1>2, <2>1, <3>1 DEF IsNext
    <3> QED
      BY <2>2, <3>2
  <2> QED
    BY <2>3, <2>4
<1> QED
  BY <1>4, <1>7, <1>8, <1>9, <1>10 DEF Linked, e

\* A variable is taken out.
LEMMA DequeueLinks ==
  ASSUME NEW d, NEW E, NEW key, Linked(d, E, key), NEW v \in E
  PROVE  Linked(Dequeue(d, v), E \ {v}, key) /\ SameStamps(d, Dequeue(d, v))
<1> DEFINE e == Dequeue(d, v)
           p == d.prev[v]
           n == d.next[v]
           F == E \ {v}
<1>1. /\ d \in Queues /\ Keyed(E, key) /\ IsFirst(E, key, d.first) /\ IsLast(E, key, d.last)
      /\ \A w \in E : IsPrev(E, key, w, d.prev[w]) /\ IsNext(E, key, w, d.next[w])
  BY DEF Linked
<1>2. /\ E \subseteq Idx /\ key \in [Idx -> Int] /\ \A w \in Idx : w \in Nat /\ w # 0
      /\ \A w \in Idx : key[w] \in Int
      /\ \A x, y \in E : key[x] = key[y] => x = y
  BY <1>1 DEF Keyed, Idx
<1>3. IsPrev(E, key, v, p) /\ IsNext(E, key, v, n) /\ p \in Nat /\ n \in Nat
  BY <1>1, <1>2 DEF Queues
<1>4. (p # 0 => p \in F) /\ (n # 0 => n \in F)
  BY <1>2, <1>3 DEF IsPrev, IsNext
<1>5. /\ e \in Queues /\ SameStamps(d, e)
      /\ e.first = (IF p # 0 THEN d.first ELSE n) /\ e.last = (IF n # 0 THEN d.last ELSE p)
      /\ e.next = (IF p # 0 THEN [d.next EXCEPT ![p] = n] ELSE d.next)
      /\ e.prev = (IF n # 0 THEN [d.prev EXCEPT ![n] = p] ELSE d.prev)
  <2> DEFINE a == IF p # 0 THEN [d EXCEPT !.next[p] = n] ELSE [d EXCEPT !.first = n]
  <2>1. e = IF n # 0 THEN [a EXCEPT !.prev[n] = p] ELSE [a EXCEPT !.last = p]
    BY DEF Dequeue
  <2> HIDE DEF p, n, e
  <2>2. (p # 0 => p \in Idx) /\ (n # 0 => n \in Idx)
    BY <1>2, <1>4
  <2>3. /\ a \in Queues /\ SameStamps(d, a) /\ a.last = d.last /\ a.prev = d.prev
        /\ a.first = (IF p # 0 THEN d.first ELSE n)
        /\ a.next = (IF p # 0 THEN [d.next EXCEPT ![p] = n] ELSE d.next)
    <3>1. CASE p # 0
      BY <3>1, <2>2, <1>1, <1>3 DEF Queues, SameStamps
    <3>2. CASE p = 0
      BY <3>2, <1>1, <1>3 DEF Queues, SameStamps
    <3> QED
      BY <3>1, <3>2
  <2> HIDE DEF a
  <2>4. CASE n # 0
    <3>1. /\ e \in Queues /\ SameStamps(a, e) /\ e.first = a.first /\ e.last = a.last
          /\ e.next = a.next /\ e.prev = [a.prev EXCEPT ![n] = p]
      BY <2>4, <2>1, <2>2, <2>3, <1>3 DEF Queues, SameStamps
    <3> QED
      BY <2>3, <2>4, <3>1 DEF SameStamps
  <2>5. CASE n = 0
    <3>1. /\ e \in Queues /\ SameStamps(a, e) /\ e.first = a.first /\ e.last = p
          /\ e.next = a.next /\ e.prev = a.prev
      BY <2>5, <2>1, <2>3, <1>3 DEF Queues, SameStamps
    <3> QED
      BY <2>3, <2>5, <3>1 DEF SameStamps
  <2> QED
    BY <2>4, <2>5
<1>6. \A w \in E : /\ e.next[w] = IF w = p THEN n ELSE d.next[w]
                   /\ e.prev[w] = IF w = n THEN p ELSE d.prev[w]
  <2>1. d.prev \in [Idx -> Nat] /\ d.next \in [Idx -> Nat]
    BY <1>1 DEF Queues
  <2> HIDE DEF e, p, n
  <2> QED
    BY <1>2, <1>4, <1>5, <2>1
<1> HIDE DEF e, p, n
<1>7. Keyed(F, key)
  BY <1>1 DEF Keyed
<1>8. IsFirst(F, key, e.first)
  <2>1. CASE p # 0
    BY <2>1, <1>1, <1>2, <1>3, <1>4, <1>5 DEF IsFirst, IsPrev
  <2>2. CASE p = 0 /\ n # 0
    BY <2>2, <1>1, <1>2, <1>3, <1>4, <1>5 DEF IsNext, IsPrev, IsFirst
  <2>3. CASE p = 0 /\ n = 0
    <3>1. \A w \in E : w = v
      BY <2>3, <1>2, <1>3, <1>4 DEF IsNext, IsPrev
    <3> QED
      BY <2>3, <3>1, <1>5 DEF IsFirst
  <2> QED
    BY <2>1, <2>2, <2>3
<1>9. IsLast(F, key, e.last)
  <2>1. CASE n # 0
    BY <2>1, <1>1, <1>2, <1>3, <1>4, <1>5 DEF IsLast, IsNext
  <2>2. CASE n = 0 /\ p # 0
    BY <2>2, <1>1, <1>2, <1>3, <1>4, <1>5 DEF IsNext, IsPrev, IsLast
  <2>3. CASE p = 0 /\ n = 0
    <3>1. \A w \in E : w = v
      BY <2>3, <1>2, <1>3, <1>4 DEF IsNext, IsPrev
    <3> QED
      BY <2>3, <3>1, <1>5 DEF IsLast
  <2> QED
    BY <2>1, <2>2, <2>3
<1>10. ASSUME NEW w \in F PROVE IsPrev(F, key, w, e.prev[w])
  <2>1. IsPrev(E, key, w, d.prev[w])
    BY <1>1
  <2>2. CASE w = n
    <3>1. e.prev[w] = p /\ n # 0 /\ key[v] < key[w] /\ \A x \in E : key[x] <= key[v] \/ key[w] <= key[x]
      BY <2>2, <1>2, <1>3, <1>4, <1>6 DEF IsNext
    <3> QED
      BY <3>1, <1>2, <1>3, <1>4 DEF IsPrev
  <2>3. CASE w # n
    <3>1. e.prev[w] = d.prev[w]
      BY <2>3, <1>6
    <3>2. d.prev[w] # v
      <4> SUFFICES ASSUME d.prev[w] = v PROVE FALSE
        OBVIOUS
      <4>1. key[v] < key[w] /\ \A x \in E : key[x] <= key[v] \/ key[w] <= key[x]
        BY <2>1, <1>2 DEF IsPrev
      <4>2. n # 0 /\ n \in E /\ key[v] < key[n] /\ key[n] <= key[w]
        BY <4>1, <1>2, <1>3, <1>4 DEF IsNext
      <4>3. key[w] <= key[n]
        BY <4>1, <4>2, <1>2
      <4> QED
        BY <4>2, <4>3, <2>3, <1>2
    <3> QED
      BY <2>1, <3>1, <3>2, <1>2 DEF IsPrev
  <2> QED
    BY <2>2, <2>3
<1>11. ASSUME NEW w \in F PROVE IsNext(F, key, w, e.next[w])
  <2>1. IsNext(E, key, w, d.next[w])
    BY <1>1
  <2>2. CASE w = p
    <3>1. e.next[w] = n /\ p # 0 /\ key[w] < key[v] /\ \A x \in E : key[x] <= key[w] \/ key[v] <= key[x]
      BY <2>2, <1>2, <1>3, <1>4, <1>6 DEF IsPrev
    <3> QED
      BY <3>1, <1>2, <1>3, <1>4 DEF IsNext
  <2>3. CASE w # p
    <3>1. e.next[w] = d.next[w]
      BY <2>3, <1>6
    <3>2. d.next[w] # v
      <4> SUFFICES ASSUME d.next[w] = v PROVE FALSE
        OBVIOUS
      <4>1. key[w] < key[v] /\ \A x \in E : key[x] <= key[w] \/ key[v] <= key[x]
        BY <2>1, <1>2 DEF IsNext
      <4>2. p # 0 /\ p \in E /\ key[p] < key[v] /\ key[w] <= key[p]
        BY <4>1, <1>2, <1>3, <1>4 DEF IsPrev
      <4>3. key[p] <= key[w]
        BY <4>1, <4>2, <1>2
      <4> QED
        BY <4>2, <4>3, <2>3, <1>2
    <3> QED
      BY <2>1, <3>1, <3>2, <1>2 DEF IsNext
  <2> QED
    BY <2>2, <2>3
<1> QED
  BY <1>5, <1>7, <1>8, <1>9, <1>10, <1>11 DEF Linked, e

\* The queue d joins E, and every variable of U is found from the pointer: what
\* comes after the pointer was bumped later than queue.bumped, U was not.
QueueOK(d, E, U) ==
  /\ Linked(d, E, d.btab)
  /\ d.bumped <= d.stamp /\ \A v \in E : d.btab[v] <= d.stamp
  /\ U \subseteq E
  /\ IF E = {} THEN d.unassigned = 0 ELSE d.unassigned \in E
  /\ \A w \in E : d.btab[w] > d.btab[d.unassigned] => d.btab[w] > d.bumped
  /\ \A u \in U : d.btab[u] <= d.bumped

\* Not all variables were bumped after the last search.
Grounded(d, E) == E = {} \/ \E w \in E : d.btab[w] <= d.bumped

\* The types of what a queue consists of.
LEMMA QueueTypes ==
  ASSUME NEW d, NEW E, NEW U, QueueOK(d, E, U)
  PROVE  /\ d \in Queues /\ E \subseteq Idx /\ U \subseteq E
         /\ d.btab \in [Idx -> Int] /\ d.bumped \in Int /\ d.stamp \in Nat
         /\ d.prev \in [Idx -> Nat] /\ d.next \in [Idx -> Nat]
         /\ d.first \in Nat /\ d.last \in Nat /\ d.unassigned \in Nat
         /\ \A v \in Idx : v \in Nat /\ v # 0 /\ d.btab[v] \in Int
         /\ \A v, w \in E : d.btab[v] = d.btab[w] => v = w
<1>1. d \in Queues /\ Keyed(E, d.btab) /\ U \subseteq E
  BY DEF QueueOK, Linked
<1>2. E \subseteq Idx /\ \A v, w \in E : d.btab[v] = d.btab[w] => v = w
  BY <1>1 DEF Keyed
<1>3. /\ d.btab \in [Idx -> Int] /\ d.bumped \in Int /\ d.stamp \in Nat
      /\ d.prev \in [Idx -> Nat] /\ d.next \in [Idx -> Nat]
      /\ d.first \in Nat /\ d.last \in Nat /\ d.unassigned \in Nat
  BY <1>1 DEF Queues
<1>4. \A v \in Idx : v \in Nat /\ v # 0
  BY DEF Idx
<1> QED
  BY <1>1, <1>2, <1>3, <1>4

\* The next time stamp goes to v.
Stamped(b, v, x) == [b EXCEPT !.btab[v] = x, !.stamp = @ + 1]

\* Stamping changes nothing else.
LEMMA StampFacts ==
  ASSUME NEW b \in Queues, NEW v \in Idx, NEW x \in Int
  PROVE  LET c == Stamped(b, v, x) IN
         /\ c \in Queues /\ c.first = b.first /\ c.last = b.last /\ c.prev = b.prev /\ c.next = b.next
         /\ c.btab = [b.btab EXCEPT ![v] = x] /\ c.stamp = b.stamp + 1
         /\ c.unassigned = b.unassigned /\ c.bumped = b.bumped
<1> DEFINE new == [b.btab EXCEPT ![v] = x]
           e == [b EXCEPT !.btab = new, !.stamp = b.stamp + 1]
<1>1. b.stamp \in Nat /\ b.btab \in [Idx -> Int] /\ new \in [Idx -> Int] /\ b.stamp + 1 \in Nat
  BY DEF Queues
<1>2. Stamped(b, v, x) = e
  BY DEF Stamped
<1> HIDE DEF new
<1>3. e \in Queues
  BY <1>1 DEF Queues
<1>4. /\ e.first = b.first /\ e.last = b.last /\ e.prev = b.prev /\ e.next = b.next
      /\ e.btab = new /\ e.stamp = b.stamp + 1
      /\ e.unassigned = b.unassigned /\ e.bumped = b.bumped
  BY DEF Queues
<1> HIDE DEF e
<1> QED
  BY <1>2, <1>3, <1>4 DEF new

\* Pointing at an unassigned variable that is not before the others.
LEMMA PointerMoves ==
  ASSUME NEW d, NEW E, NEW U, QueueOK(d, E, U), NEW v \in E, NEW V, V \subseteq E,
         \A u \in V : d.btab[u] <= d.btab[v]
  PROVE  LET e == UpdateQueueUnassigned(d, v) IN
         /\ QueueOK(e, E, V) /\ Grounded(e, E)
         /\ e.unassigned = v /\ e.btab = d.btab
<1> DEFINE e == UpdateQueueUnassigned(d, v)
<1>1. /\ d \in Queues /\ E \subseteq Idx /\ d.btab \in [Idx -> Int] /\ d.btab[v] \in Int
      /\ v \in Nat /\ \A w \in E : d.btab[w] \in Int
  BY QueueTypes
<1>2. /\ e \in Queues /\ e.first = d.first /\ e.last = d.last /\ e.prev = d.prev /\ e.next = d.next
      /\ e.btab = d.btab /\ e.stamp = d.stamp /\ e.unassigned = v /\ e.bumped = d.btab[v]
  BY <1>1 DEF Queues, UpdateQueueUnassigned
<1> HIDE DEF e
<1>3. Linked(e, E, e.btab)
  <2>1. Linked(d, E, d.btab)
    BY DEF QueueOK
  <2> QED
    BY <1>1, <1>2, <2>1, SameLinks
<1>4. d.bumped <= d.stamp /\ \A w \in E : d.btab[w] <= d.stamp
  BY DEF QueueOK
<1>5. QueueOK(e, E, V)
  BY <1>1, <1>2, <1>3, <1>4 DEF QueueOK
<1>6. Grounded(e, E)
  BY <1>1, <1>2 DEF Grounded
<1> QED
  BY <1>2, <1>5, <1>6 DEF e

\* A variable becomes unassigned.
LEMMA UnassignQueue ==
  ASSUME NEW d, NEW E, NEW U, QueueOK(d, E, U), NEW v \in E
  PROVE  LET e == IF d.bumped < d.btab[v] THEN UpdateQueueUnassigned(d, v) ELSE d
         IN  /\ QueueOK(e, E, U \cup {v})
             /\ e.btab = d.btab /\ (Grounded(d, E) => Grounded(e, E))
<1>1. /\ U \subseteq E /\ E \subseteq Idx /\ d.bumped \in Int /\ d.btab[v] \in Int
      /\ \A w \in E : d.btab[w] \in Int
  BY QueueTypes
<1>2. \A u \in U : d.btab[u] <= d.bumped
  BY DEF QueueOK
<1>3. CASE d.bumped < d.btab[v]
  <2>1. \A u \in U \cup {v} : d.btab[u] <= d.btab[v]
    BY <1>1, <1>2, <1>3
  <2> QED
    BY <1>1, <1>3, <2>1, PointerMoves
<1>4. CASE ~(d.bumped < d.btab[v])
  <2>1. \A u \in U \cup {v} : d.btab[u] <= d.bumped
    BY <1>1, <1>2, <1>4
  <2> QED
    BY <1>1, <1>4, <2>1 DEF QueueOK
<1> QED
  BY <1>3, <1>4

\* Bumping an assigned variable.
LEMMA BumpQueueFacts ==
  ASSUME NEW d, NEW E, NEW U, QueueOK(d, E, U), NEW v \in E, v \notin U
  PROVE  QueueOK(BumpQueue(d, v), E, U)
<1>1. CASE d.next[v] = 0
  BY <1>1 DEF BumpQueue
<1>2. CASE d.next[v] # 0
  <2> DEFINE a == Dequeue(d, v)
             key == [d.btab EXCEPT ![v] = d.stamp + 1]
             b == Enqueue(a, v)
             e == Stamped(b, v, d.stamp + 1)
  <2>1. /\ d \in Queues /\ E \subseteq Idx /\ U \subseteq E /\ d.btab \in [Idx -> Int]
        /\ d.bumped \in Int /\ d.stamp \in Nat /\ v \in Idx /\ \A w \in E : d.btab[w] \in Int
    BY QueueTypes
  <2>2. /\ Linked(d, E, d.btab) /\ d.bumped <= d.stamp /\ \A w \in E : d.btab[w] <= d.stamp
        /\ d.unassigned \in E
        /\ \A w \in E : d.btab[w] > d.btab[d.unassigned] => d.btab[w] > d.bumped
        /\ \A u \in U : d.btab[u] <= d.bumped
    BY DEF QueueOK
  <2>3. /\ Linked(a, E \ {v}, d.btab) /\ SameStamps(d, a)
    BY <2>2, DequeueLinks
  <2>4. /\ key \in [Idx -> Int] /\ key[v] = d.stamp + 1 /\ \A w \in E \ {v} : key[w] = d.btab[w]
        /\ \A w \in E : key[w] \in Int
    BY <2>1
  <2> HIDE DEF key, a
  <2>5. a \in Queues
    BY <2>3 DEF Linked
  <2>6. Linked(a, E \ {v}, key)
    BY <2>3, <2>4, <2>5, SameLinks
  <2>7. \A w \in E \ {v} : key[w] < key[v]
    BY <2>1, <2>2, <2>4
  <2>8. Linked(b, (E \ {v}) \cup {v}, key) /\ SameStamps(a, b)
    BY <2>1, <2>6, <2>7, EnqueueLinks
  <2> HIDE DEF b
  <2>9. b \in Queues
    BY <2>8 DEF Linked
  <2>10. /\ e \in Queues /\ e.first = b.first /\ e.last = b.last /\ e.prev = b.prev /\ e.next = b.next
         /\ e.btab = key /\ e.stamp = d.stamp + 1 /\ e.unassigned = d.unassigned
         /\ e.bumped = d.bumped
    <3>1. b.btab = d.btab /\ b.stamp = d.stamp /\ b.unassigned = d.unassigned /\ b.bumped = d.bumped
      BY <2>3, <2>8 DEF SameStamps
    <3>2. d.stamp + 1 \in Int
      BY <2>1
    <3> QED
      BY <2>1, <2>9, <3>1, <3>2, StampFacts DEF key
  <2>11. BumpQueue(d, v) = e
    BY <1>2 DEF BumpQueue, Stamped, b, a
  <2> HIDE DEF e
  <2>12. (E \ {v}) \cup {v} = E
    OBVIOUS
  <2>13. Linked(e, E, e.btab)
    <3>1. Linked(b, E, key)
      BY <2>8, <2>12
    <3> QED
      BY <2>4, <2>10, <3>1, SameLinks
  <2>14. \A w \in E : e.btab[w] > e.btab[e.unassigned] => e.btab[w] > e.bumped
    <3> SUFFICES ASSUME NEW w \in E, key[w] > key[d.unassigned] PROVE key[w] > d.bumped
      BY <2>10
    <3>1. CASE w = v
      BY <3>1, <2>1, <2>2, <2>4
    <3>2. CASE w # v
      <4>1. d.unassigned # v
        BY <2>4, <2>7, <3>2
      <4> QED
        BY <2>2, <2>4, <3>2, <4>1
    <3> QED
      BY <3>1, <3>2
  <2>15. /\ e.bumped <= e.stamp /\ \A w \in E : e.btab[w] <= e.stamp
    BY <2>1, <2>2, <2>4, <2>10
  <2>16. \A u \in U : e.btab[u] <= e.bumped
    BY <2>1, <2>2, <2>4, <2>10
  <2> QED
    BY <2>1, <2>2, <2>10, <2>11, <2>13, <2>14, <2>15, <2>16 DEF QueueOK
<1> QED
  BY <1>1, <1>2

\* A new variable is queued at either end.
LEMMA InitEnqueueFacts ==
  ASSUME NEW d, NEW E, NEW U, QueueOK(d, E, U), Grounded(d, E), NEW v \in Idx, v \notin E,
         opts.reverse \in BOOLEAN
  PROVE  LET e == InitEnqueue(d, v)
         IN  QueueOK(e, E \cup {v}, U \cup {v}) /\ Grounded(e, E \cup {v})
<1>1. /\ d \in Queues /\ E \subseteq Idx /\ U \subseteq E /\ d.btab \in [Idx -> Int]
      /\ d.prev \in [Idx -> Nat] /\ d.next \in [Idx -> Nat] /\ d.first \in Nat /\ d.last \in Nat
      /\ d.bumped \in Int /\ d.stamp \in Nat /\ \A w \in Idx : d.btab[w] \in Int
      /\ \A w \in Idx : w \in Nat /\ w # 0
      /\ \A w, x \in E : d.btab[w] = d.btab[x] => w = x
  BY QueueTypes
<1>2. /\ Linked(d, E, d.btab) /\ d.bumped <= d.stamp /\ \A w \in E : d.btab[w] <= d.stamp
      /\ IF E = {} THEN d.unassigned = 0 ELSE d.unassigned \in E
      /\ \A w \in E : d.btab[w] > d.btab[d.unassigned] => d.btab[w] > d.bumped
      /\ \A u \in U : d.btab[u] <= d.bumped
  BY DEF QueueOK
<1>3. CASE ~opts.reverse
  <2> DEFINE a == Enqueue(d, v)
             key == [d.btab EXCEPT ![v] = d.stamp + 1]
             e == Stamped(a, v, d.stamp + 1)
  <2>1. /\ key \in [Idx -> Int] /\ key[v] = d.stamp + 1 /\ \A w \in E : key[w] = d.btab[w]
    BY <1>1
  <2> HIDE DEF key
  <2>2. Linked(d, E, key)
    BY <1>1, <1>2, <2>1, SameLinks
  <2>3. Linked(a, E \cup {v}, key) /\ SameStamps(d, a)
    BY <1>1, <1>2, <2>1, <2>2, EnqueueLinks
  <2> HIDE DEF a
  <2>4. a \in Queues
    BY <2>3 DEF Linked
  <2>5. /\ e \in Queues /\ e.first = a.first /\ e.last = a.last /\ e.prev = a.prev /\ e.next = a.next
        /\ e.btab = key /\ e.stamp = d.stamp + 1 /\ e.unassigned = d.unassigned
        /\ e.bumped = d.bumped
    <3>1. a.btab = d.btab /\ a.stamp = d.stamp /\ a.unassigned = d.unassigned /\ a.bumped = d.bumped
      BY <2>3 DEF SameStamps
    <3>2. d.stamp + 1 \in Int
      BY <1>1
    <3> QED
      BY <1>1, <2>4, <3>1, <3>2, StampFacts DEF key
  <2>6. InitEnqueue(d, v) = UpdateQueueUnassigned(e, v)
    BY <1>3 DEF InitEnqueue, Stamped, a
  <2> HIDE DEF e
  <2> DEFINE f == UpdateQueueUnassigned(e, v)
  <2>7. /\ f \in Queues /\ f.first = e.first /\ f.last = e.last /\ f.prev = e.prev /\ f.next = e.next
        /\ f.btab = key /\ f.stamp = d.stamp + 1 /\ f.unassigned = v /\ f.bumped = d.stamp + 1
    BY <1>1, <2>1, <2>5 DEF Queues, UpdateQueueUnassigned
  <2> HIDE DEF f
  <2>8. Linked(f, E \cup {v}, f.btab)
    BY <2>1, <2>3, <2>5, <2>7, SameLinks
  <2>9. QueueOK(f, E \cup {v}, U \cup {v})
    <3>1. \A w \in E \cup {v} : key[w] <= d.stamp + 1
      BY <1>1, <1>2, <2>1
    <3>2. v \in E \cup {v} /\ E \cup {v} # {} /\ U \cup {v} \subseteq E \cup {v}
      BY <1>1
    <3>3. \A w \in E \cup {v} : ~(key[w] > key[v])
      BY <1>1, <1>2, <2>1
    <3> QED
      BY <1>1, <2>7, <2>8, <3>1, <3>2, <3>3 DEF QueueOK
  <2>10. Grounded(f, E \cup {v})
    BY <1>1, <2>1, <2>7 DEF Grounded
  <2> QED
    BY <2>6, <2>9, <2>10 DEF f
<1>4. CASE opts.reverse
  <2> DEFINE low == IF d.first = 0 THEN 0 ELSE d.btab[d.first] - 1
             key == [d.btab EXCEPT ![v] = low]
             front == [d EXCEPT !.prev[v] = 0, !.next[v] = d.first, !.first = v,
                         !.last = IF d.first = 0 THEN v ELSE @,
                         !.btab[v] = IF d.first = 0 THEN 0 ELSE d.btab[d.first] - 1]
             a == IF d.first = 0 THEN front ELSE [front EXCEPT !.prev[d.first] = v]
  <2>1. /\ (d.first = 0) = (E = {})
        /\ E # {} => d.first \in E /\ \A w \in E : d.btab[d.first] <= d.btab[w]
        /\ IsLast(E, d.btab, d.last)
        /\ \A w \in E : IsPrev(E, d.btab, w, d.prev[w]) /\ IsNext(E, d.btab, w, d.next[w])
    BY <1>1, <1>2 DEF Linked, IsFirst
  <2>2. low \in Int /\ \A w \in E : low < d.btab[w]
    BY <1>1, <2>1
  <2>3. /\ key \in [Idx -> Int] /\ key[v] = low /\ \A w \in E : key[w] = d.btab[w]
    BY <1>1, <2>2
  <2>4. /\ a \in Queues /\ a.first = v /\ a.last = (IF d.first = 0 THEN v ELSE d.last)
        /\ a.prev[v] = 0 /\ \A w \in E : a.prev[w] = IF w = d.first THEN v ELSE d.prev[w]
        /\ a.next[v] = d.first /\ \A w \in E : a.next[w] = d.next[w]
        /\ a.btab = key /\ a.stamp = d.stamp /\ a.unassigned = d.unassigned /\ a.bumped = d.bumped
    <3>1. /\ front \in Queues /\ front.first = v /\ front.last = (IF d.first = 0 THEN v ELSE d.last)
          /\ front.prev = [d.prev EXCEPT ![v] = 0] /\ front.next = [d.next EXCEPT ![v] = d.first]
          /\ front.btab = key /\ front.stamp = d.stamp /\ front.unassigned = d.unassigned
          /\ front.bumped = d.bumped
      BY <1>1, <2>2, <2>3 DEF Queues
    <3> HIDE DEF front, key
    <3>2. /\ a \in Queues /\ a.first = v /\ a.last = (IF d.first = 0 THEN v ELSE d.last)
          /\ a.prev = (IF d.first = 0 THEN front.prev ELSE [front.prev EXCEPT ![d.first] = v])
          /\ a.next = front.next
          /\ a.btab = key /\ a.stamp = d.stamp /\ a.unassigned = d.unassigned /\ a.bumped = d.bumped
      <4>1. CASE d.first = 0
        BY <3>1, <4>1
      <4>2. CASE d.first # 0
        <5>1. d.first \in Idx /\ v \in Nat
          BY <1>1, <2>1, <4>2
        <5> QED
          BY <3>1, <4>2, <5>1 DEF Queues
      <4> QED
        BY <4>1, <4>2
    <3> HIDE DEF a
    <3> QED
      BY <1>1, <2>1, <3>1, <3>2
  <2>5. InitEnqueue(d, v) = IF a.unassigned = 0 THEN UpdateQueueUnassigned(a, a.last) ELSE a
    BY <1>4 DEF InitEnqueue
  <2> HIDE DEF a, key, low
  <2>6. Linked(a, E \cup {v}, key)
    <3>1. Keyed(E \cup {v}, key)
      BY <1>1, <2>2, <2>3 DEF Keyed
    <3>2. IsFirst(E \cup {v}, key, a.first) /\ IsLast(E \cup {v}, key, a.last)
      BY <1>1, <2>1, <2>2, <2>3, <2>4 DEF IsFirst, IsLast
    <3>3. IsPrev(E \cup {v}, key, v, a.prev[v]) /\ IsNext(E \cup {v}, key, v, a.next[v])
      BY <1>1, <2>1, <2>2, <2>3, <2>4 DEF IsPrev, IsNext
    <3>4. ASSUME NEW w \in E
          PROVE  IsPrev(E \cup {v}, key, w, a.prev[w]) /\ IsNext(E \cup {v}, key, w, a.next[w])
      <4>1. IsPrev(E, d.btab, w, d.prev[w]) /\ IsNext(E, d.btab, w, d.next[w])
        BY <2>1
      <4>2. IsNext(E \cup {v}, key, w, a.next[w])
        BY <1>1, <2>2, <2>3, <2>4, <4>1 DEF IsNext
      <4>3. CASE w = d.first
        <5>1. IsPrev(E \cup {v}, key, w, a.prev[w])
          BY <1>1, <2>1, <2>2, <2>3, <2>4, <4>3 DEF IsPrev
        <5> QED
          BY <4>2, <5>1
      <4>4. CASE w # d.first
        <5>1. d.prev[w] # 0
          BY <1>1, <2>1, <4>1, <4>4 DEF IsPrev
        <5>2. IsPrev(E \cup {v}, key, w, a.prev[w])
          BY <1>1, <2>1, <2>2, <2>3, <2>4, <4>1, <4>4, <5>1 DEF IsPrev
        <5> QED
          BY <4>2, <5>2
      <4> QED
        BY <4>3, <4>4
    <3> QED
      BY <2>4, <3>1, <3>2, <3>3, <3>4 DEF Linked
  <2>7. CASE E = {}
    <3>1. a.last = v /\ InitEnqueue(d, v) = UpdateQueueUnassigned(a, v)
      BY <1>2, <2>1, <2>4, <2>5, <2>7
    <3> DEFINE f == UpdateQueueUnassigned(a, v)
    <3>2. /\ f \in Queues /\ f.first = a.first /\ f.last = a.last /\ f.prev = a.prev /\ f.next = a.next
          /\ f.btab = key /\ f.stamp = d.stamp /\ f.unassigned = v /\ f.bumped = low
      BY <1>1, <2>2, <2>3, <2>4 DEF Queues, UpdateQueueUnassigned
    <3> HIDE DEF f
    <3>3. Linked(f, E \cup {v}, f.btab)
      BY <2>3, <2>6, <3>2, SameLinks
    <3>4. 0 <= d.stamp
      BY <1>1
    <3> QED
      BY <1>1, <2>1, <2>2, <2>3, <2>7, <3>1, <3>2, <3>3, <3>4 DEF QueueOK, Grounded, low, f
  <2>8. CASE E # {}
    <3>1. InitEnqueue(d, v) = a
      BY <1>1, <1>2, <2>4, <2>5, <2>8
    <3>2. \A w \in E \cup {v} : key[w] > key[d.unassigned] => key[w] > d.bumped
      BY <1>1, <1>2, <2>2, <2>3, <2>8
    <3>3. \A u \in U \cup {v} : key[u] <= d.bumped
      BY <1>1, <1>2, <2>2, <2>3, <2>8 DEF Grounded
    <3>4. \A w \in E \cup {v} : key[w] <= d.stamp
      BY <1>1, <1>2, <2>2, <2>3, <2>8
    <3>5. QueueOK(a, E \cup {v}, U \cup {v})
      BY <1>1, <1>2, <2>4, <2>6, <2>8, <3>2, <3>3, <3>4 DEF QueueOK
    <3>6. Grounded(a, E \cup {v})
      BY <2>3, <2>4, <2>8 DEF Grounded
    <3> QED
      BY <3>1, <3>5, <3>6
  <2> QED
    BY <2>7, <2>8
<1> QED
  BY <1>3, <1>4

\* Fewer variables come before one that comes before another.
LEMMA FewerBelow ==
  ASSUME NEW E, E \subseteq 1..maxVar, maxVar \in Nat, NEW A, A \subseteq E,
         NEW x \in A, NEW B, B \subseteq A, x \notin B
  PROVE  Cardinality(B) \in Nat /\ Cardinality(A) \in Nat /\ Cardinality(B) < Cardinality(A)
         /\ Cardinality(A) <= maxVar
<1>1. IsFiniteSet(1..maxVar) /\ Cardinality(1..maxVar) = maxVar
  BY FS_Interval
<1>2. IsFiniteSet(A) /\ Cardinality(A) <= maxVar
  BY <1>1, FS_Subset
<1>3. IsFiniteSet(B) /\ Cardinality(B) <= Cardinality(A) /\ Cardinality(B) # Cardinality(A)
  <2>1. B \in SUBSET A /\ B # A
    OBVIOUS
  <2> QED
    BY <1>2, <2>1, FS_Subset
<1>4. Cardinality(A) \in Nat /\ Cardinality(B) \in Nat
  BY <1>2, <1>3, FS_CardinalityType
<1> QED
  BY <1>2, <1>3, <1>4

\* Searching the queue finds the unassigned variable that was bumped last.
LEMMA SearchQueueFacts ==
  ASSUME NEW d, NEW E, NEW U, QueueOK(d, E, U), E \subseteq Vars, maxVar \in Nat, NEW tr,
         \A v \in E : Assigned(tr, v) = (v \notin U), U # {}
  PROVE  LET e == SearchQueue(d, tr) IN
         /\ QueueOK(e, E, U) /\ (Grounded(d, E) => Grounded(e, E))
         /\ e.unassigned \in U /\ \A u \in U : e.btab[u] <= e.btab[e.unassigned]
<1> DEFINE key == d.btab
           Below(x) == {w \in E : key[w] < key[x]}
           D == [i \in 0..maxVar |->
                   {x \in E : /\ \A u \in U : key[u] <= key[x]
                              /\ x \in U \/ Cardinality(Below(x)) <= maxVar - 1 - i}]
<1>1. /\ U \subseteq E /\ E \subseteq Idx /\ \A w \in E : key[w] \in Int /\ w # 0
      /\ \A w, x \in E : key[w] = key[x] => w = x
      /\ d.bumped \in Int
  BY QueueTypes
<1>2. /\ d.unassigned \in E
      /\ \A w \in E : key[w] > key[d.unassigned] => key[w] > d.bumped
      /\ \A u \in U : key[u] <= d.bumped
      /\ \A w \in E : IsPrev(E, key, w, d.prev[w])
  BY <1>1 DEF QueueOK, Linked
<1>3. \A u \in U : key[u] <= key[d.unassigned]
  BY <1>1, <1>2
<1>4. d.unassigned \in D[0]
  <2>1. /\ Below(d.unassigned) \subseteq E /\ d.unassigned \notin Below(d.unassigned)
    BY <1>1, <1>2
  <2> HIDE DEF Below
  <2>2. /\ Cardinality(Below(d.unassigned)) \in Nat /\ Cardinality(E) \in Nat
        /\ Cardinality(Below(d.unassigned)) < Cardinality(E) /\ Cardinality(E) <= maxVar
    BY <1>2, <2>1, FewerBelow DEF Vars
  <2> HIDE DEF key
  <2>3. 0 \in 0..maxVar /\ Cardinality(Below(d.unassigned)) <= maxVar - 1 - 0
    BY <2>2
  <2> QED
    BY <1>2, <1>3, <2>3
<1>5. ASSUME NEW i \in 1..maxVar, NEW x \in D[i - 1]
      PROVE  (IF Assigned(tr, x) THEN d.prev[x] ELSE x) \in D[i]
  <2>1. i - 1 \in 0..maxVar /\ i \in 0..maxVar
    OBVIOUS
  <2>2. /\ x \in E /\ \A u \in U : key[u] <= key[x]
        /\ x \in U \/ Cardinality(Below(x)) <= maxVar - 1 - (i - 1)
    BY <2>1
  <2> HIDE DEF key, Below
  <2>3. CASE x \in U
    BY <2>1, <2>2, <2>3
  <2>4. CASE x \notin U
    <3>1. PICK u \in U : TRUE
      OBVIOUS
    <3>2. u \in E /\ key[u] < key[x]
      BY <1>1, <2>2, <2>4, <3>1
    <3>3. /\ d.prev[x] \in E /\ key[d.prev[x]] < key[x]
          /\ \A w \in E : key[w] <= key[d.prev[x]] \/ key[x] <= key[w]
      BY <1>1, <1>2, <2>2, <3>2 DEF IsPrev
    <3>4. \A w \in U : key[w] <= key[d.prev[x]]
      <4> SUFFICES ASSUME NEW w \in U PROVE key[w] <= key[d.prev[x]]
        OBVIOUS
      <4>1. w \in E /\ key[w] <= key[x] /\ w # x
        BY <1>1, <2>2, <2>4
      <4>2. ~(key[x] <= key[w])
        BY <1>1, <2>2, <4>1
      <4> QED
        BY <3>3, <4>1, <4>2
    <3>5. /\ Below(x) \subseteq E /\ d.prev[x] \in Below(x)
          /\ Below(d.prev[x]) \subseteq Below(x) /\ d.prev[x] \notin Below(d.prev[x])
      BY <1>1, <2>2, <3>3 DEF Below
    <3>6. /\ Cardinality(Below(d.prev[x])) \in Nat /\ Cardinality(Below(x)) \in Nat
          /\ Cardinality(Below(d.prev[x])) < Cardinality(Below(x))
      BY <3>5, FewerBelow DEF Vars
    <3>7. Cardinality(Below(d.prev[x])) <= maxVar - 1 - i
      BY <2>2, <2>4, <3>6
    <3>8. Assigned(tr, x)
      BY <2>2, <2>4
    <3> QED
      BY <2>1, <3>3, <3>4, <3>7, <3>8
  <2> QED
    BY <2>3, <2>4
<1> HIDE DEF D
<1>6. PICK v \in D[maxVar] : SearchQueue(d, tr) = IF v = d.unassigned THEN d ELSE UpdateQueueUnassigned(d, v)
  BY <1>4, <1>5, SearchStages
<1>7. v \in U /\ v \in E /\ \A u \in U : key[u] <= key[v]
  <2>1. /\ v \in E /\ \A u \in U : key[u] <= key[v]
        /\ v \in U \/ Cardinality(Below(v)) <= maxVar - 1 - maxVar
    BY <1>6 DEF D
  <2>2. Below(v) \subseteq E /\ v \notin Below(v)
    BY <1>1, <2>1
  <2> HIDE DEF Below, key
  <2>3. Cardinality(Below(v)) \in Nat
    BY <2>1, <2>2, FewerBelow DEF Vars
  <2> QED
    BY <2>1, <2>3
<1>8. CASE v = d.unassigned
  BY <1>6, <1>7, <1>8
<1>9. CASE v # d.unassigned
  BY <1>1, <1>6, <1>7, <1>9, PointerMoves
<1> QED
  BY <1>8, <1>9

\* b lists E from the greatest key to the least.
Lists(b, E, key) ==
  /\ b \in Seq(E) /\ \A w \in E : \E k \in 1..Len(b) : b[k] = w
  /\ \A j, k \in 1..Len(b) : j < k => key[b[k]] < key[b[j]]

\* Reading the queue from its end.
LEMMA BackwardsFacts ==
  ASSUME NEW d, NEW E, NEW key, Linked(d, E, key), E \subseteq Vars, maxVar \in Nat
  PROVE  LET b == Backwards(d) IN
         /\ Lists(b, E, key)
         /\ b = <<>> => E = {}
         /\ b # <<>> => /\ b[1] = d.last /\ d.prev[b[Len(b)]] = 0
                        /\ \A k \in 1..Len(b) - 1 : d.prev[b[k]] = b[k + 1]
<1> DEFINE Below(b) == IF b = <<>> THEN E ELSE {w \in E : key[w] < key[b[Len(b)]]}
           Reads(b) ==
             /\ b \in Seq(E)
             /\ \A j, k \in 1..Len(b) : j < k => key[b[k]] < key[b[j]]
             /\ \A k \in 1..Len(b) - 1 : d.prev[b[k]] = b[k + 1]
             /\ b # <<>> => b[1] = d.last
             /\ \A w \in E : w \in Below(b) \/ \E k \in 1..Len(b) : b[k] = w
           Ended(b) == IF b = <<>> THEN E = {} ELSE d.prev[b[Len(b)]] = 0
           D == [i \in 0..maxVar + 1 |->
                   {b \in Seq(E) : Reads(b) /\ (Ended(b) \/ Cardinality(Below(b)) <= maxVar + 1 - i)}]
<1>1. /\ E \subseteq Idx /\ (\A w \in E : key[w] \in Int /\ w # 0)
      /\ \A w, x \in E : key[w] = key[x] => w = x
      /\ IsLast(E, key, d.last)
      /\ \A w \in E : IsPrev(E, key, w, d.prev[w])
  BY DEF Linked, Keyed, Idx
<1>2. maxVar + 1 \in Nat /\ 0 \in 0..maxVar + 1
  OBVIOUS
<1>3. <<>> \in D[0]
  <2>1. Reads(<<>>) /\ Below(<<>>) = E
    OBVIOUS
  <2>2. Cardinality(E) \in Nat /\ Cardinality(E) <= maxVar + 1 - 0
    <3>1. IsFiniteSet(1..maxVar) /\ Cardinality(1..maxVar) = maxVar
      BY FS_Interval
    <3>2. IsFiniteSet(E) /\ Cardinality(E) <= maxVar
      BY <3>1, FS_Subset DEF Vars
    <3> QED
      BY <3>2, FS_CardinalityType
  <2> HIDE DEF Reads, Below
  <2> QED
    BY <1>2, <2>1, <2>2
<1>4. ASSUME NEW i \in 1..maxVar + 1, NEW b \in D[i - 1]
      PROVE  (IF b = <<>> THEN (IF d.last = 0 THEN b ELSE << d.last >>)
              ELSE IF d.prev[Last(b)] = 0 THEN b ELSE Append(b, d.prev[Last(b)])) \in D[i]
  <2>1. i - 1 \in 0..maxVar + 1 /\ i \in 0..maxVar + 1
    BY <1>2
  <2>2. /\ b \in Seq(E) /\ Reads(b)
        /\ Ended(b) \/ Cardinality(Below(b)) <= maxVar + 1 - (i - 1)
    <3> HIDE DEF Reads, Ended, Below
    <3> QED
      BY <2>1
  <2>3. ASSUME NEW c, Reads(c), Ended(c) \/ Cardinality(Below(c)) <= maxVar + 1 - i
        PROVE  c \in D[i]
    <3>1. c \in Seq(E)
      BY <2>3
    <3> HIDE DEF Reads, Ended, Below
    <3> QED
      BY <2>1, <2>3, <3>1
  <2>4. CASE b = <<>>
    <3>1. CASE d.last = 0
      <4>1. E = {}
        BY <1>1, <3>1 DEF IsLast
      <4>2. Ended(b)
        BY <2>4, <4>1
      <4>3. b \in D[i]
        <5> HIDE DEF Reads, Ended, Below, D
        <5> QED
          BY <2>2, <2>3, <4>2
      <4> QED
        BY <2>4, <3>1, <4>3
    <3>2. CASE d.last # 0
      <4>1. d.last \in E /\ \A w \in E : key[w] <= key[d.last]
        BY <1>1, <3>2 DEF IsLast
      <4> DEFINE c == << d.last >>
      <4>2. c \in Seq(E) /\ Len(c) = 1 /\ c[1] = d.last /\ c # <<>>
        BY <4>1
      <4>3. Below(c) = {w \in E : key[w] < key[d.last]}
        BY <4>2
      <4>4. Reads(c)
        <5>1. \A w \in E : w \in Below(c) \/ w = d.last
          BY <1>1, <4>1, <4>3
        <5> HIDE DEF c, Below
        <5> QED
          BY <4>2, <5>1
      <4>5. Below(b) = E /\ Below(c) \subseteq E /\ d.last \notin Below(c)
        BY <1>1, <2>4, <4>1, <4>3
      <4> HIDE DEF c, Reads, Below, D
      <4>6. Cardinality(Below(c)) \in Nat /\ Cardinality(E) \in Nat /\ Cardinality(Below(c)) < Cardinality(E)
            /\ Cardinality(E) <= maxVar
        BY <4>1, <4>5, FewerBelow DEF Vars
      <4>7. Cardinality(Below(c)) <= maxVar + 1 - i
        <5>1. CASE Ended(b)
          BY <2>4, <4>1, <5>1
        <5>2. CASE ~Ended(b)
          <6>1. Cardinality(Below(b)) <= maxVar + 1 - (i - 1)
            BY <2>2, <5>2
          <6> QED
            BY <4>5, <4>6, <6>1
        <5> QED
          BY <5>1, <5>2
      <4>8. c \in D[i]
        <5> HIDE DEF Ended
        <5> QED
          BY <2>3, <4>4, <4>7
      <4> QED
        BY <2>4, <3>2, <4>8 DEF c
    <3> QED
      BY <3>1, <3>2
  <2>5. CASE b # <<>>
    <3> DEFINE n == Len(b)
               x == b[n]
               y == d.prev[x]
    <3>1. n \in Nat /\ n >= 1 /\ Last(b) = x /\ x \in E
      BY <2>2, <2>5 DEF Last
    <3>2. CASE y = 0
      <4>1. Ended(b)
        BY <2>5, <3>2
      <4>2. b \in D[i]
        <5> HIDE DEF Reads, Ended, Below, D
        <5> QED
          BY <2>2, <2>3, <4>1
      <4> QED
        BY <2>5, <3>1, <3>2, <4>2
    <3>3. CASE y # 0
      <4>1. y \in E /\ key[y] < key[x] /\ \A w \in E : key[w] <= key[y] \/ key[x] <= key[w]
        BY <1>1, <3>1, <3>3 DEF IsPrev
      <4> DEFINE c == Append(b, y)
      <4>2. /\ c \in Seq(E) /\ Len(c) = n + 1 /\ c[n + 1] = y /\ c # <<>>
            /\ \A k \in 1..n : c[k] = b[k]
        BY <2>2, <4>1, SMTT(30)
      <4>3. /\ \A j, k \in 1..n : j < k => key[b[k]] < key[b[j]]
            /\ \A k \in 1..n - 1 : d.prev[b[k]] = b[k + 1]
            /\ b[1] = d.last
            /\ \A w \in E : w \in Below(b) \/ \E k \in 1..n : b[k] = w
            /\ \A k \in 1..n : b[k] \in E
            /\ Below(b) = {w \in E : key[w] < key[x]}
        BY <2>2, <2>5
      <4>4. Below(c) = {w \in E : key[w] < key[y]}
        BY <4>2
      <4> HIDE DEF Below, c, n
      <4>5. ASSUME NEW j \in 1..n + 1, NEW k \in 1..n + 1, j < k PROVE key[c[k]] < key[c[j]]
        <5>1. j \in 1..n
          BY <3>1, <4>5
        <5>2. CASE k \in 1..n
          BY <4>2, <4>3, <4>5, <5>1, <5>2
        <5>3. CASE k = n + 1
          <6>1. c[k] = y /\ c[j] = b[j] /\ b[j] \in E
            BY <4>2, <4>3, <5>1, <5>3
          <6>2. key[x] <= key[b[j]]
            <7>1. n \in 1..n /\ (j = n \/ j < n)
              BY <3>1, <5>1
            <7>2. key[x] \in Int
              BY <1>1, <3>1
            <7> QED
              BY <4>3, <5>1, <7>1, <7>2
          <6>3. key[x] \in Int /\ key[y] \in Int /\ key[b[j]] \in Int
            BY <1>1, <3>1, <4>1, <6>1
          <6> QED
            BY <4>1, <6>1, <6>2, <6>3
        <5> QED
          BY <3>1, <5>2, <5>3
      <4>6. ASSUME NEW k \in 1..n + 1 - 1 PROVE d.prev[c[k]] = c[k + 1]
        <5>1. k \in 1..n /\ (k = n \/ (k \in 1..n - 1 /\ k + 1 \in 1..n))
          BY <3>1
        <5> QED
          BY <4>2, <4>3, <5>1
      <4>7. ASSUME NEW w \in E PROVE w \in Below(c) \/ \E k \in 1..n + 1 : c[k] = w
        <5>1. CASE \E k \in 1..n : b[k] = w
          <6>1. \A k \in 1..n : k \in 1..n + 1
            BY <3>1
          <6> QED
            BY <4>2, <5>1, <6>1
        <5>2. CASE w \in Below(b)
          <6>1. key[w] < key[x] /\ key[w] <= key[y] /\ key[w] \in Int /\ key[y] \in Int
            BY <1>1, <3>1, <4>1, <4>3, <5>2
          <6>2. n + 1 \in 1..n + 1 /\ c[n + 1] = y
            BY <3>1, <4>2
          <6> QED
            BY <1>1, <4>1, <4>4, <6>1, <6>2
        <5> QED
          BY <4>3, <5>1, <5>2
      <4>8. c[1] = d.last
        BY <3>1, <4>2, <4>3
      <4>9. Reads(c)
        <5> HIDE DEF x, y
        <5>1. \A j, k \in 1..Len(c) : j < k => key[c[k]] < key[c[j]]
          <6> QED
            BY <4>2, <4>5
        <5>2. \A k \in 1..Len(c) - 1 : d.prev[c[k]] = c[k + 1]
          BY <4>2, <4>6
        <5>3. \A w \in E : w \in Below(c) \/ \E k \in 1..Len(c) : c[k] = w
          BY <4>2, <4>7
        <5> QED
          BY <4>2, <4>8, <5>1, <5>2, <5>3
      <4>10. Below(b) \subseteq E /\ y \in Below(b) /\ Below(c) \subseteq Below(b) /\ y \notin Below(c)
        BY <1>1, <3>1, <4>1, <4>3, <4>4
      <4> HIDE DEF Reads, D, x, y
      <4>11. Cardinality(Below(c)) \in Nat /\ Cardinality(Below(b)) \in Nat
             /\ Cardinality(Below(c)) < Cardinality(Below(b))
        BY <4>10, FewerBelow DEF Vars
      <4>12. Cardinality(Below(c)) <= maxVar + 1 - i
        <5>1. Cardinality(Below(b)) <= maxVar + 1 - (i - 1)
          BY <2>2, <2>5, <3>3 DEF x, y, n
        <5> QED
          BY <4>11, <5>1
      <4>13. c \in D[i]
        <5> HIDE DEF Ended
        <5> QED
          BY <2>3, <4>9, <4>12
      <4> QED
        BY <2>5, <3>1, <3>3, <4>13 DEF c, x, y, n
    <3> QED
      BY <3>2, <3>3
  <2> QED
    BY <2>4, <2>5
<1> DEFINE b == Backwards(d)
<1>5. b \in D[maxVar + 1]
  <2> HIDE DEF D, b
  <2> QED
    BY <1>2, <1>3, <1>4, BackwardsStages DEF b
<1> HIDE DEF b
<1>6. b \in Seq(E) /\ Reads(b) /\ (Ended(b) \/ Cardinality(Below(b)) <= maxVar + 1 - (maxVar + 1))
  <2> HIDE DEF Reads, Ended, Below
  <2> QED
    BY <1>2, <1>5
<1> HIDE DEF D
<1>7. Ended(b)
  <2> SUFFICES ASSUME ~Ended(b) PROVE FALSE
    OBVIOUS
  <2>1. PICK x \in E : x \in Below(b)
    <3>1. CASE b = <<>>
      BY <3>1
    <3>2. CASE b # <<>>
      <4>1. b[Len(b)] \in E /\ d.prev[b[Len(b)]] # 0
        BY <1>6, <3>2
      <4>2. d.prev[b[Len(b)]] \in Below(b)
        BY <1>1, <3>2, <4>1 DEF IsPrev
      <4> QED
        BY <3>2, <4>2
    <3> QED
      BY <3>1, <3>2
  <2>2. Below(b) \subseteq E /\ Below(b) \ {x} \subseteq Below(b)
    OBVIOUS
  <2> HIDE DEF Below
  <2>3. Cardinality(Below(b)) \in Nat /\ Cardinality(Below(b) \ {x}) \in Nat
        /\ Cardinality(Below(b) \ {x}) < Cardinality(Below(b))
    BY <2>1, <2>2, FewerBelow DEF Vars
  <2> HIDE DEF Ended, Reads
  <2> QED
    BY <1>6, <2>3
<1>8. \A w \in E : w \notin Below(b)
  <2> SUFFICES ASSUME NEW w \in E, w \in Below(b) PROVE FALSE
    OBVIOUS
  <2>1. b # <<>> /\ d.prev[b[Len(b)]] = 0 /\ b[Len(b)] \in E /\ key[w] < key[b[Len(b)]]
    BY <1>6, <1>7
  <2> QED
    BY <1>1, <2>1 DEF IsPrev
<1>9. Lists(b, E, key)
  BY <1>6, <1>8 DEF Lists
<1> QED
  BY <1>6, <1>7, <1>9 DEF b

\* order holds every variable of E once.
Arranges(order, E) ==
  /\ order \in Seq(E) /\ \A w \in E : \E k \in 1..Len(order) : order[k] = w
  /\ \A j, k \in 1..Len(order) : order[j] = order[k] => j = k

\* Shuffling stamps the variables of the order in this order, up to queue.bumped.
LEMMA ShuffleQueueFacts ==
  ASSUME NEW d \in Queues, d.bumped <= d.stamp, NEW E, E \subseteq Idx,
         NEW order, Arranges(order, E), NEW U, U \subseteq E
  PROVE  LET e == ShuffleQueue(d, order) IN QueueOK(e, E, U) /\ Grounded(e, E)
<1> DEFINE n == Len(order)
           stamps == StampsOf(d, order)
           F(i) == {order[k] : k \in 1..i}
           D == [i \in 0..n |-> {a \in Queues : Linked(a, F(i), stamps) /\ SameStamps(d, a)}]
<1>1. /\ d.btab \in [Idx -> Int] /\ d.bumped \in Int /\ d.stamp \in Nat
      /\ d.prev \in [Idx -> Nat] /\ d.next \in [Idx -> Nat] /\ d.unassigned \in Nat
  BY DEF Queues
<1>2. /\ n \in Nat /\ DOMAIN order = 1..n /\ \A k \in 1..n : order[k] \in E
      /\ \A w \in E : \E k \in 1..n : order[k] = w
      /\ \A j, k \in 1..n : order[j] = order[k] => j = k
  BY DEF Arranges
<1> HIDE DEF n
<1>3. Rng(order) = E
  BY <1>2 DEF Rng
<1>4. stamps \in [Idx -> Int] /\ \A k \in 1..n : stamps[order[k]] = d.bumped - n + k
  <2>1. \A v \in E : (CHOOSE k \in 1..n : order[k] = v) \in 1..n
    BY <1>2
  <2>2. stamps = [v \in Idx |-> IF v \in E THEN d.bumped - n + CHOOSE k \in 1..n : order[k] = v ELSE d.btab[v]]
    BY <1>1, <1>3 DEF StampsOf, n
  <2>3. \A v \in Idx : (IF v \in E THEN d.bumped - n + CHOOSE k \in 1..n : order[k] = v ELSE d.btab[v]) \in Int
    BY <1>1, <1>2, <2>1
  <2>4. stamps \in [Idx -> Int]
    BY <2>2, <2>3
  <2>5. ASSUME NEW k \in 1..n PROVE stamps[order[k]] = d.bumped - n + k
    <3>1. order[k] \in Idx /\ order[k] \in E
      BY <1>2
    <3>2. (CHOOSE j \in 1..n : order[j] = order[k]) = k
      BY <1>2
    <3> QED
      BY <2>2, <3>1, <3>2
  <2> QED
    BY <2>4, <2>5
<1> HIDE DEF stamps
<1> DEFINE z == [d EXCEPT !.first = 0, !.last = 0]
<1>5. z \in D[0]
  <2>1. z \in Queues /\ z.first = 0 /\ z.last = 0 /\ SameStamps(d, z)
    BY <1>1 DEF Queues, SameStamps
  <2>2. F(0) = {} /\ Linked(z, {}, stamps)
    BY <1>4, <2>1 DEF Linked, Keyed, IsFirst, IsLast
  <2>3. 0 \in 0..n
    BY <1>2
  <2> HIDE DEF z, F
  <2> QED
    BY <2>1, <2>2, <2>3
<1>6. ASSUME NEW i \in 1..n, NEW a \in D[i - 1] PROVE Enqueue(a, order[i]) \in D[i]
  <2>1. i - 1 \in 0..n /\ i \in 0..n
    BY <1>2
  <2>2. Linked(a, F(i - 1), stamps) /\ SameStamps(d, a)
    <3> HIDE DEF F
    <3> QED
      BY <2>1
  <2>3. F(i) = F(i - 1) \cup {order[i]}
    <3>1. 1..i = (1..i - 1) \cup {i}
      OBVIOUS
    <3> QED
      BY <3>1
  <2>4. order[i] \in Idx /\ order[i] \notin F(i - 1)
    <3>1. \A k \in 1..i - 1 : k \in 1..n /\ k # i
      BY <1>2
    <3> QED
      BY <1>2, <3>1
  <2>5. \A w \in F(i - 1) : stamps[w] < stamps[order[i]]
    <3> SUFFICES ASSUME NEW k \in 1..i - 1 PROVE stamps[order[k]] < stamps[order[i]]
      OBVIOUS
    <3>1. k \in 1..n /\ k < i
      BY <1>2
    <3>2. stamps[order[k]] = d.bumped - n + k /\ stamps[order[i]] = d.bumped - n + i
      BY <1>4, <3>1
    <3> QED
      BY <1>1, <1>2, <3>1, <3>2
  <2> HIDE DEF F
  <2>6. Linked(Enqueue(a, order[i]), F(i), stamps) /\ SameStamps(a, Enqueue(a, order[i]))
    BY <2>2, <2>3, <2>4, <2>5, EnqueueLinks
  <2>7. Enqueue(a, order[i]) \in Queues /\ SameStamps(d, Enqueue(a, order[i]))
    BY <2>2, <2>6 DEF Linked, SameStamps
  <2> QED
    BY <2>1, <2>6, <2>7
<1> HIDE DEF D
<1>7. PICK a \in D[n] : ShuffleQueue(d, order) = Restamped(d, order, a)
  <2>1. z \in D[0] /\ \A i \in 1..n : \A x \in D[i - 1] : Enqueue(x, order[i]) \in D[i]
    BY <1>5, <1>6
  <2> QED
    BY <1>2, <2>1, ShuffleStages, ZenonT(60) DEF n
<1>8. /\ a \in Queues /\ Linked(a, E, stamps) /\ SameStamps(d, a)
  <2>1. n \in 0..n /\ F(n) = E
    BY <1>2
  <2> HIDE DEF F
  <2> QED
    BY <1>7, <2>1 DEF D
<1> DEFINE e == Restamped(d, order, a)
<1>9. /\ e \in Queues /\ e.first = a.first /\ e.last = a.last /\ e.prev = a.prev /\ e.next = a.next
      /\ e.btab = stamps /\ e.unassigned = a.last /\ e.bumped = d.bumped /\ e.stamp = d.stamp
  BY <1>4, <1>8 DEF Queues, SameStamps, Restamped, stamps
<1> HIDE DEF e
<1>10. Linked(e, E, e.btab)
  BY <1>4, <1>8, <1>9, SameLinks
<1>11. \A w \in E : stamps[w] <= d.bumped /\ stamps[w] \in Int
  BY <1>1, <1>2, <1>4, SMTT(30)
<1>12. /\ E = {} => a.last = 0
       /\ E # {} => a.last \in E /\ \A w \in E : stamps[w] <= stamps[a.last]
  BY <1>8 DEF Linked, IsLast
<1>13. QueueOK(e, E, U)
  <2>1. \A w \in E : ~(stamps[w] > stamps[a.last])
    BY <1>11, <1>12
  <2>2. \A w \in E : stamps[w] <= d.stamp
    BY <1>1, <1>11
  <2> QED
    BY <1>9, <1>10, <1>11, <1>12, <2>1, <2>2 DEF QueueOK
<1>14. Grounded(e, E)
  BY <1>9, <1>11 DEF Grounded
<1> QED
  BY <1>7, <1>13, <1>14 DEF e

\* A list from the last to the first is an arrangement, from either end.
LEMMA ListArranges ==
  ASSUME NEW b, NEW E, NEW key, Lists(b, E, key), \A w \in E : key[w] \in Int
  PROVE  Arranges(b, E)
<1>1. b \in Seq(E) /\ \A k \in 1..Len(b) : b[k] \in E
  BY DEF Lists
<1>2. ASSUME NEW j \in 1..Len(b), NEW k \in 1..Len(b), b[j] = b[k] PROVE j = k
  <2>1. key[b[j]] \in Int /\ ~(key[b[k]] < key[b[j]]) /\ ~(key[b[j]] < key[b[k]])
    BY <1>1, <1>2
  <2>2. ~(j < k) /\ ~(k < j)
    BY <2>1 DEF Lists
  <2> QED
    BY <1>1, <2>2
<1> QED
  BY <1>1, <1>2 DEF Lists, Arranges

-----------------------------------------------------------------------------
(* The heap.                                                               *)

\* The types of the scores and the heap.
Heaps == [heap : Seq(Idx), stab : [Idx -> Nat], inc : Nat]

\* The parent of a heap position.
Parent(i) == i \div 2

\* A position is the left or right child of its parent.
LEMMA ParentFacts ==
  /\ \A i \in Nat : /\ Parent(i) \in Nat /\ (i > 1 => Parent(i) >= 1 /\ Parent(i) < i)
                    /\ i = 2 * Parent(i) \/ i = 2 * Parent(i) + 1
  /\ \A i \in Nat : Parent(2 * i) = i /\ Parent(2 * i + 1) = i
BY DEF Parent

\* A parent is a position before its child.
LEMMA ParentIn ==
  ASSUME NEW n \in Nat, NEW i \in 1..n, i > 1
  PROVE  Parent(i) \in 1..n /\ Parent(i) < i
<1>1. i \in Nat /\ Parent(i) \in Nat /\ Parent(i) >= 1 /\ Parent(i) < i
  BY ParentFacts
<1> QED
  BY <1>1

\* The variable at i scores no more than the one at j.
NoMore(h, i, j) == h.stab[h.heap[i]] <= h.stab[h.heap[j]]

\* No variable is on the heap twice, and no child scores more than its parent.
HeapTree(h) ==
  /\ h \in Heaps /\ Once(h.heap)
  /\ \A i \in 2..Len(h.heap) : NoMore(h, i, Parent(i))

\* The same scores and variables in another order.
SameHeap(h, e) ==
  /\ e.stab = h.stab /\ e.inc = h.inc /\ Len(e.heap) = Len(h.heap)
  /\ \A x : In(x, e.heap) <=> In(x, h.heap)

\* The types of what a heap consists of.
LEMMA HeapTypes ==
  ASSUME NEW h \in Heaps
  PROVE  /\ h.heap \in Seq(Idx) /\ Len(h.heap) \in Nat /\ DOMAIN h.heap = 1..Len(h.heap)
         /\ \A i \in 1..Len(h.heap) : h.heap[i] \in Idx /\ h.stab[h.heap[i]] \in Nat
         /\ h.stab \in [Idx -> Nat] /\ h.inc \in Nat
         /\ \A v \in Idx : h.stab[v] \in Nat
<1>1. h.heap \in Seq(Idx) /\ h.stab \in [Idx -> Nat] /\ h.inc \in Nat
  BY DEF Heaps
<1>2. Len(h.heap) \in Nat /\ DOMAIN h.heap = 1..Len(h.heap)
      /\ \A i \in 1..Len(h.heap) : h.heap[i] \in Idx
  BY <1>1
<1> QED
  BY <1>1, <1>2

\* Where a variable is.
LEMMA IndexFacts ==
  ASSUME NEW h \in Heaps, Once(h.heap), NEW i \in 1..Len(h.heap)
  PROVE  Index(h, h.heap[i]) = i
<1>1. DOMAIN h.heap = 1..Len(h.heap)
  BY HeapTypes
<1> QED
  BY <1>1 DEF Once, Index

\* Two variables change places.
LEMMA ExchangeFacts ==
  ASSUME NEW h \in Heaps, Once(h.heap), NEW i \in 1..Len(h.heap), NEW j \in 1..Len(h.heap)
  PROVE  LET e == Exchange(h, i, j) IN
         /\ e \in Heaps /\ Once(e.heap) /\ SameHeap(h, e)
         /\ e.heap[i] = h.heap[j] /\ e.heap[j] = h.heap[i]
         /\ \A k \in 1..Len(h.heap) \ {i, j} : e.heap[k] = h.heap[k]
<1> DEFINE e == Exchange(h, i, j)
           new == [h.heap EXCEPT ![i] = h.heap[j], ![j] = h.heap[i]]
           n == Len(h.heap)
<1>1. h.heap \in Seq(Idx) /\ n \in Nat /\ DOMAIN h.heap = 1..n /\ \A k \in 1..n : h.heap[k] \in Idx
  BY HeapTypes
<1> HIDE DEF n
<1>2. /\ DOMAIN new = 1..n /\ new = [k \in 1..n |-> new[k]]
      /\ \A k \in 1..n : new[k] = IF k = j THEN h.heap[i] ELSE IF k = i THEN h.heap[j] ELSE h.heap[k]
  BY <1>1 DEF n
<1>3. new \in [1..n -> Idx]
  <2> HIDE DEF new
  <2> QED
    BY <1>1, <1>2 DEF n
<1>4. new \in Seq(Idx) /\ Len(new) = n
  <2> HIDE DEF new
  <2> QED
    BY <1>1, <1>3, FunctionIsSeq
<1>5. e = [h EXCEPT !.heap = new]
  BY DEF Exchange
<1> HIDE DEF new, e
<1>6. e \in Heaps /\ e.heap = new /\ e.stab = h.stab /\ e.inc = h.inc
  BY <1>4, <1>5 DEF Heaps
<1>7. Once(new)
  BY <1>1, <1>2 DEF Once, n
<1>8. ASSUME NEW x PROVE In(x, new) <=> In(x, h.heap)
  <2>1. ASSUME In(x, new) PROVE In(x, h.heap)
    BY <1>1, <1>2, <2>1 DEF In, n
  <2>2. ASSUME In(x, h.heap) PROVE In(x, new)
    <3>1. PICK k \in 1..n : h.heap[k] = x
      BY <1>1, <2>2 DEF In
    <3>2. i \in 1..n /\ j \in 1..n
      BY DEF n
    <3>3. new[k] = x \/ new[i] = x \/ new[j] = x
      BY <1>2, <3>1, <3>2
    <3> QED
      BY <1>2, <3>1, <3>2, <3>3 DEF In
  <2> QED
    BY <2>1, <2>2
<1> QED
  BY <1>2, <1>4, <1>6, <1>7, <1>8 DEF SameHeap, e, n

\* v is at 'at', and is the only variable that may score more than its parent.
Rising(a, v, at) ==
  /\ a \in Heaps /\ Once(a.heap) /\ at \in 1..Len(a.heap) /\ a.heap[at] = v
  /\ \A i \in 2..Len(a.heap) : i # at => NoMore(a, i, Parent(i))
  /\ \A i \in 2..Len(a.heap) : Parent(i) = at /\ at > 1 => NoMore(a, i, Parent(at))

\* One step up.
LEMMA RisingStep ==
  ASSUME NEW a, NEW v, NEW at, Rising(a, v, at), at > 1, ScoreSmaller(a, a.heap[Parent(at)], v)
  PROVE  Rising(Exchange(a, at, Parent(at)), v, Parent(at))
<1> DEFINE p == Parent(at)
           e == Exchange(a, at, p)
           n == Len(a.heap)
<1>1. /\ a \in Heaps /\ Once(a.heap) /\ at \in 1..n /\ a.heap[at] = v
      /\ \A i \in 2..n : i # at => NoMore(a, i, Parent(i))
      /\ \A i \in 2..n : Parent(i) = at => NoMore(a, i, p)
      /\ n \in Nat /\ \A i \in 1..n : a.heap[i] \in Idx /\ a.stab[a.heap[i]] \in Nat
  BY HeapTypes DEF Rising
<1>2. /\ p \in 1..n /\ p < at
      /\ \A i \in 2..n : Parent(i) \in 1..n /\ Parent(i) < i /\ i \in 1..n
  <2>1. \A i \in 1..n : i > 1 => Parent(i) \in 1..n /\ Parent(i) < i
    BY <1>1, ParentIn
  <2>2. \A i \in 2..n : i \in 1..n /\ i > 1
    BY <1>1
  <2> HIDE DEF n
  <2> QED
    BY <1>1, <2>1, <2>2
<1> HIDE DEF p
<1>3. /\ e \in Heaps /\ Once(e.heap) /\ e.stab = a.stab /\ Len(e.heap) = n
      /\ e.heap[at] = a.heap[p] /\ e.heap[p] = v
      /\ \A k \in 1..n \ {at, p} : e.heap[k] = a.heap[k]
  BY <1>1, <1>2, ExchangeFacts DEF SameHeap
<1> HIDE DEF e, n
<1>4. a.stab[a.heap[p]] <= a.stab[v]
  BY <1>1, <1>2 DEF ScoreSmaller, p
<1>5. ASSUME NEW i \in 2..n, i # p PROVE NoMore(e, i, Parent(i))
  <2>1. i \in 1..n /\ Parent(i) \in 1..n /\ Parent(i) # i
    BY <1>1, <1>2
  <2>2. CASE i = at
    BY <2>2, <1>3, <1>4 DEF NoMore, p
  <2>3. CASE i # at /\ Parent(i) = p
    <3>1. a.stab[a.heap[i]] <= a.stab[a.heap[p]]
      BY <1>1, <2>3 DEF NoMore
    <3>2. a.stab[a.heap[i]] \in Nat /\ a.stab[a.heap[p]] \in Nat /\ a.stab[v] \in Nat
      BY <1>1, <1>2, <2>1
    <3>3. a.stab[a.heap[i]] <= a.stab[v]
      BY <1>4, <3>1, <3>2
    <3>4. e.heap[i] = a.heap[i]
      BY <1>3, <1>5, <2>1, <2>3
    <3> QED
      BY <1>3, <2>3, <3>3, <3>4 DEF NoMore
  <2>4. CASE i # at /\ Parent(i) = at
    BY <1>1, <1>3, <1>5, <2>1, <2>4 DEF NoMore
  <2>5. CASE i # at /\ Parent(i) # p /\ Parent(i) # at
    BY <1>1, <1>3, <1>5, <2>1, <2>5 DEF NoMore
  <2> QED
    BY <2>2, <2>3, <2>4, <2>5
<1>6. ASSUME NEW i \in 2..n, Parent(i) = p, p > 1 PROVE NoMore(e, i, Parent(p))
  <2>1. p \in 2..n /\ p # at /\ Parent(p) \in 1..n /\ Parent(p) < p /\ i # p
    BY <1>1, <1>2, <1>6
  <2>2. a.stab[a.heap[p]] <= a.stab[a.heap[Parent(p)]]
    BY <1>1, <2>1 DEF NoMore
  <2>3. e.heap[Parent(p)] = a.heap[Parent(p)]
    BY <1>1, <1>2, <1>3, <2>1
  <2>4. CASE i = at
    BY <1>3, <2>2, <2>3, <2>4 DEF NoMore
  <2>5. CASE i # at
    <3>1. a.stab[a.heap[i]] <= a.stab[a.heap[p]] /\ e.heap[i] = a.heap[i]
      BY <1>1, <1>2, <1>3, <1>6, <2>1, <2>5 DEF NoMore
    <3>2. /\ a.stab[a.heap[i]] \in Nat /\ a.stab[a.heap[p]] \in Nat
          /\ a.stab[a.heap[Parent(p)]] \in Nat
      BY <1>1, <1>2, <2>1
    <3>3. a.stab[a.heap[i]] <= a.stab[a.heap[Parent(p)]]
      BY <2>2, <3>1, <3>2
    <3> QED
      BY <1>3, <2>3, <3>1, <3>3 DEF NoMore
  <2> QED
    BY <2>4, <2>5
<1> QED
  BY <1>2, <1>3, <1>5, <1>6 DEF Rising, e, p

\* A heap in which v may go up is a heap with v up.
LEMMA UpFacts ==
  ASSUME NEW h, NEW v, NEW start, Rising(h, v, start)
  PROVE  HeapTree(Up(h, v)) /\ SameHeap(h, Up(h, v))
<1> DEFINE n == Len(h.heap)
           Stays(x, at) == at = 1 \/ ~ScoreSmaller(x, x.heap[Parent(at)], v)
           Rises(x, i) == \E at \in 1..n : Rising(x, v, at) /\ (Stays(x, at) \/ at <= n - i)
           D == [i \in 0..n |-> {x \in Heaps : SameHeap(h, x) /\ Rises(x, i)}]
           Next1(x) == LET at == Index(x, v) IN
                       IF at > 1 /\ ScoreSmaller(x, x.heap[at \div 2], v)
                       THEN Exchange(x, at, at \div 2) ELSE x
<1>1. h \in Heaps /\ n \in Nat /\ start \in 1..n
  BY HeapTypes DEF Rising
<1> HIDE DEF n
<1>2. h \in D[0]
  <2>1. SameHeap(h, h)
    BY DEF SameHeap
  <2>2. 0 \in 0..n /\ start <= n - 0
    BY <1>1
  <2>3. Rises(h, 0)
    <3> HIDE DEF Stays
    <3> QED
      BY <1>1, <2>2
  <2> HIDE DEF Rises
  <2> QED
    BY <1>1, <2>1, <2>2, <2>3
<1>3. ASSUME NEW i \in 1..n, NEW x \in D[i - 1] PROVE Next1(x) \in D[i]
  <2>1. i - 1 \in 0..n /\ i \in 0..n
    BY <1>1
  <2>2. x \in Heaps /\ SameHeap(h, x) /\ Rises(x, i - 1)
    <3> HIDE DEF Rises
    <3> QED
      BY <2>1
  <2>3. PICK at \in 1..n : Rising(x, v, at) /\ (Stays(x, at) \/ at <= n - (i - 1))
    BY <2>2
  <2>4. /\ Len(x.heap) = n /\ x.heap[at] = v /\ Once(x.heap) /\ Index(x, v) = at
    <3>1. Len(x.heap) = n /\ x.heap[at] = v /\ Once(x.heap)
      BY <2>2, <2>3 DEF SameHeap, Rising, n
    <3> QED
      BY <2>2, <3>1, IndexFacts
  <2>5. ASSUME NEW y \in Heaps, SameHeap(h, y), NEW p \in 1..n, Rising(y, v, p), Stays(y, p) \/ p <= n - i
        PROVE  y \in D[i]
    <3>1. Rises(y, i)
      <4> HIDE DEF Stays
      <4> QED
        BY <2>5
    <3> HIDE DEF Rises, Stays
    <3> QED
      BY <2>1, <2>5, <3>1
  <2> HIDE DEF Rises, D
  <2>6. CASE Stays(x, at)
    <3>1. Next1(x) = x
      BY <2>4, <2>6 DEF Parent
    <3> HIDE DEF Next1, Stays
    <3> QED
      BY <2>2, <2>3, <2>5, <2>6, <3>1
  <2>7. CASE ~Stays(x, at)
    <3> DEFINE y == Exchange(x, at, Parent(at))
    <3>1. at > 1 /\ ScoreSmaller(x, x.heap[Parent(at)], v)
      BY <2>7
    <3>2. Next1(x) = y
      BY <2>4, <3>1 DEF Parent
    <3> HIDE DEF Next1
    <3>3. Parent(at) \in 1..n /\ Parent(at) < at
      BY <1>1, <3>1, ParentIn
    <3>4. y \in Heaps /\ SameHeap(x, y)
      BY <2>2, <2>4, <3>3, ExchangeFacts
    <3>5. Rising(y, v, Parent(at))
      BY <2>3, <3>1, RisingStep
    <3>6. Parent(at) <= n - i
      <4>1. at <= n - (i - 1)
        BY <2>3, <2>7
      <4> QED
        BY <1>1, <3>3, <4>1
    <3> HIDE DEF y, Stays
    <3>7. SameHeap(h, y)
      BY <2>2, <3>4 DEF SameHeap
    <3> QED
      BY <2>5, <3>2, <3>3, <3>4, <3>5, <3>6, <3>7
  <2> QED
    BY <2>6, <2>7
<1>4. Up(h, v) \in D[n]
  <2>1. \A i \in 1..n : \A x \in D[i - 1] : Next1(x) \in D[i]
    BY <1>3
  <2> HIDE DEF D
  <2> QED
    BY <1>1, <1>2, <2>1, UpStages DEF n
<1> DEFINE u == Up(h, v)
<1>5. u \in Heaps /\ SameHeap(h, u) /\ Rises(u, n)
  <2> HIDE DEF u, Rises
  <2>1. n \in 0..n
    BY <1>1
  <2> QED
    BY <1>4, <2>1 DEF u
<1> HIDE DEF u, D
<1>6. PICK at \in 1..n : Rising(u, v, at) /\ Stays(u, at)
  <2>1. \A at \in 1..n : ~(at <= n - n)
    BY <1>1
  <2> HIDE DEF Stays
  <2> QED
    BY <1>5, <2>1
<1>7. ASSUME NEW i \in 2..n PROVE NoMore(u, i, Parent(i))
  <2>1. CASE i # at
    BY <1>5, <1>6, <2>1 DEF Rising, SameHeap, n
  <2>2. CASE i = at
    <3>1. i # 1 /\ i \in 1..n /\ i > 1
      BY <1>1
    <3>2. Parent(i) \in 1..n
      BY <1>1, <3>1, ParentIn
    <3>3. ~ScoreSmaller(u, u.heap[Parent(i)], v) /\ u.heap[i] = v
      BY <1>6, <2>2, <3>1 DEF Rising
    <3>4. Len(u.heap) = n
      BY <1>5 DEF SameHeap, n
    <3>5. u.stab[u.heap[Parent(i)]] \in Nat /\ u.stab[v] \in Nat
      BY <1>5, <3>1, <3>2, <3>3, <3>4, HeapTypes
    <3> QED
      BY <3>3, <3>5 DEF ScoreSmaller, NoMore
  <2> QED
    BY <2>1, <2>2
<1>8. Len(u.heap) = n /\ Once(u.heap)
  BY <1>5, <1>6 DEF SameHeap, Rising, n
<1> QED
  BY <1>5, <1>7, <1>8 DEF HeapTree, u

\* The children of a position and the best of them.
Children(x, at) == {c \in {2 * at, 2 * at + 1} : c <= Len(x.heap)}
BestChild(x, at) ==
  CHOOSE c \in Children(x, at) : \A m \in Children(x, at) :
    m = c \/ ScoreSmaller(x, x.heap[m], x.heap[c])

\* No child scores more than the best.
LEMMA ChildFacts ==
  ASSUME NEW x \in Heaps, Once(x.heap), NEW at \in 1..Len(x.heap)
  PROVE  /\ \A c \in Children(x, at) : c \in 2..Len(x.heap) /\ c > at /\ Parent(c) = at
         /\ \A i \in 2..Len(x.heap) : Parent(i) = at => i \in Children(x, at)
         /\ Children(x, at) # {} => /\ BestChild(x, at) \in Children(x, at)
                                    /\ \A c \in Children(x, at) : NoMore(x, c, BestChild(x, at))
<1> DEFINE n == Len(x.heap)
           C == Children(x, at)
<1>1. /\ n \in Nat /\ DOMAIN x.heap = 1..n
      /\ \A i \in 1..n : x.heap[i] \in Idx /\ x.stab[x.heap[i]] \in Nat
  BY HeapTypes
<1>2. \A i \in Idx : i \in Nat
  BY DEF Idx
<1>3. at \in Nat /\ at >= 1 /\ Parent(2 * at) = at /\ Parent(2 * at + 1) = at
  BY ParentFacts
<1>4. \A c \in C : c \in 2..n /\ c \in 1..n /\ c > at /\ Parent(c) = at
  BY <1>1, <1>3 DEF Children
<1>5. ASSUME NEW i \in 2..n, Parent(i) = at PROVE i \in C
  <2>1. i \in Nat /\ i <= n
    BY <1>1
  <2>2. i = 2 * at \/ i = 2 * at + 1
    BY <1>5, <2>1, ParentFacts
  <2> QED
    BY <2>1, <2>2 DEF Children
<1>6. ASSUME NEW i \in 1..n, NEW j \in 1..n, i # j
      PROVE  ScoreSmaller(x, x.heap[i], x.heap[j]) \/ ScoreSmaller(x, x.heap[j], x.heap[i])
  <2>1. x.heap[i] # x.heap[j]
    BY <1>1, <1>6 DEF Once
  <2>2. x.heap[i] \in Nat /\ x.heap[j] \in Nat /\ x.stab[x.heap[i]] \in Nat /\ x.stab[x.heap[j]] \in Nat
    BY <1>1, <1>2
  <2> QED
    BY <2>1, <2>2 DEF ScoreSmaller
<1>7. ASSUME C # {} PROVE \E c \in C : \A m \in C : m = c \/ ScoreSmaller(x, x.heap[m], x.heap[c])
  <2>1. CASE 2 * at \in C /\ 2 * at + 1 \in C
    <3>1. 2 * at # 2 * at + 1 /\ 2 * at \in 1..n /\ 2 * at + 1 \in 1..n
      BY <1>3, <1>4, <2>1
    <3>2. \A m \in C : m = 2 * at \/ m = 2 * at + 1
      BY DEF Children
    <3> HIDE DEF C
    <3> QED
      BY <1>6, <2>1, <3>1, <3>2
  <2>2. CASE ~(2 * at \in C /\ 2 * at + 1 \in C)
    <3>1. \A m \in C : m = 2 * at \/ m = 2 * at + 1
      BY DEF Children
    <3> HIDE DEF C
    <3> QED
      BY <1>7, <2>2, <3>1
  <2> QED
    BY <2>1, <2>2
<1>8. C # {} => BestChild(x, at) \in C /\ \A c \in C : NoMore(x, c, BestChild(x, at))
  <2> SUFFICES ASSUME C # {}
               PROVE  BestChild(x, at) \in C /\ \A c \in C : NoMore(x, c, BestChild(x, at))
    OBVIOUS
  <2> DEFINE b == BestChild(x, at)
  <2>1. b \in C /\ \A m \in C : m = b \/ ScoreSmaller(x, x.heap[m], x.heap[b])
    BY <1>7 DEF BestChild
  <2> HIDE DEF b, C
  <2>2. \A c \in C : NoMore(x, c, b)
    BY <1>1, <1>4, <2>1 DEF NoMore, ScoreSmaller
  <2> QED
    BY <2>1, <2>2 DEF b
<1> QED
  BY <1>4, <1>5, <1>8

\* v is at 'at', and is the only variable that may score less than its children.
Sinking(a, v, at) ==
  /\ a \in Heaps /\ Once(a.heap) /\ at \in 1..Len(a.heap) /\ a.heap[at] = v
  /\ \A i \in 2..Len(a.heap) : Parent(i) # at => NoMore(a, i, Parent(i))
  /\ \A i \in 2..Len(a.heap) : Parent(i) = at /\ at > 1 => NoMore(a, i, Parent(at))

\* One step down.
LEMMA SinkingStep ==
  ASSUME NEW a, NEW v, NEW at, Sinking(a, v, at), Children(a, at) # {},
         ScoreSmaller(a, v, a.heap[BestChild(a, at)])
  PROVE  Sinking(Exchange(a, at, BestChild(a, at)), v, BestChild(a, at))
<1> DEFINE c == BestChild(a, at)
           e == Exchange(a, at, c)
           n == Len(a.heap)
<1>1. /\ a \in Heaps /\ Once(a.heap) /\ at \in 1..n /\ a.heap[at] = v
      /\ \A i \in 2..n : Parent(i) # at => NoMore(a, i, Parent(i))
      /\ \A i \in 2..n : Parent(i) = at /\ at > 1 => NoMore(a, i, Parent(at))
      /\ n \in Nat /\ \A i \in 1..n : a.heap[i] \in Idx /\ a.stab[a.heap[i]] \in Nat
  BY HeapTypes DEF Sinking
<1>2. /\ c \in 2..n /\ c > at /\ Parent(c) = at
      /\ \A i \in 2..n : Parent(i) = at => NoMore(a, i, c)
  BY <1>1, ChildFacts
<1> HIDE DEF c
<1>3. \A i \in 2..n : i \in 1..n /\ Parent(i) \in 1..n /\ Parent(i) < i
  <2>1. \A i \in 1..n : i > 1 => Parent(i) \in 1..n /\ Parent(i) < i
    BY <1>1, ParentIn
  <2>2. \A i \in 2..n : i \in 1..n /\ i > 1
    BY <1>1
  <2> HIDE DEF n
  <2> QED
    BY <1>1, <2>1, <2>2
<1>4. c \in 1..n
  BY <1>2, <1>3
<1>5. /\ e \in Heaps /\ Once(e.heap) /\ e.stab = a.stab /\ Len(e.heap) = n
      /\ e.heap[at] = a.heap[c] /\ e.heap[c] = v
      /\ \A k \in 1..n \ {at, c} : e.heap[k] = a.heap[k]
  BY <1>1, <1>4, ExchangeFacts DEF SameHeap
<1> HIDE DEF e, n
<1>6. a.stab[v] <= a.stab[a.heap[c]]
  BY <1>1, <1>4 DEF ScoreSmaller, c
<1>7. ASSUME NEW i \in 2..n, Parent(i) # c PROVE NoMore(e, i, Parent(i))
  <2>1. i \in 1..n /\ Parent(i) \in 1..n /\ Parent(i) # i
    BY <1>1, <1>3
  <2>2. CASE i = c
    BY <1>2, <1>5, <1>6, <2>2 DEF NoMore
  <2>3. CASE i = at
    <3>1. NoMore(a, c, Parent(at)) /\ Parent(at) # at /\ Parent(at) # c
      BY <1>1, <1>2, <1>3, <1>7, <2>3
    <3>2. e.heap[Parent(at)] = a.heap[Parent(at)]
      BY <1>5, <2>1, <2>3, <3>1
    <3> QED
      BY <1>5, <2>3, <3>1, <3>2 DEF NoMore
  <2>4. CASE i # c /\ i # at /\ Parent(i) = at
    <3>1. NoMore(a, i, c) /\ e.heap[i] = a.heap[i]
      BY <1>2, <1>5, <2>1, <2>4
    <3> QED
      BY <1>5, <2>4, <3>1 DEF NoMore
  <2>5. CASE i # c /\ i # at /\ Parent(i) # at
    <3>1. NoMore(a, i, Parent(i)) /\ e.heap[i] = a.heap[i] /\ e.heap[Parent(i)] = a.heap[Parent(i)]
      BY <1>1, <1>5, <1>7, <2>1, <2>5
    <3> QED
      BY <1>5, <3>1 DEF NoMore
  <2> QED
    BY <2>2, <2>3, <2>4, <2>5
<1>8. ASSUME NEW i \in 2..n, Parent(i) = c PROVE NoMore(e, i, Parent(c))
  <2>1. i \in 1..n /\ i # c /\ i # at /\ c # at
    BY <1>1, <1>2, <1>3, <1>8
  <2>2. NoMore(a, i, c) /\ e.heap[i] = a.heap[i]
    BY <1>1, <1>5, <1>8, <2>1
  <2> QED
    BY <1>2, <1>5, <2>2 DEF NoMore
<1> QED
  BY <1>4, <1>5, <1>7, <1>8 DEF Sinking, e, c

\* A heap in which v may go down is a heap with v down.
LEMMA DownFacts ==
  ASSUME NEW h, NEW v, NEW start, Sinking(h, v, start)
  PROVE  HeapTree(Down(h, v)) /\ SameHeap(h, Down(h, v))
<1> DEFINE n == Len(h.heap)
           Stays(x, at) == Children(x, at) = {} \/ ~ScoreSmaller(x, v, x.heap[BestChild(x, at)])
           Sinks(x, i) == \E at \in 1..n : Sinking(x, v, at) /\ (Stays(x, at) \/ at >= i + 1)
           D == [i \in 0..n |-> {x \in Heaps : SameHeap(h, x) /\ Sinks(x, i)}]
           Next1(x) ==
             LET at == Index(x, v)
                 children == {c \in {2 * at, 2 * at + 1} : c <= Len(x.heap)}
                 best == CHOOSE c \in children : \A m \in children :
                        m = c \/ ScoreSmaller(x, x.heap[m], x.heap[c])
             IN IF children # {} /\ ScoreSmaller(x, v, x.heap[best]) THEN Exchange(x, at, best) ELSE x
<1>1. h \in Heaps /\ n \in Nat /\ start \in 1..n
  BY HeapTypes DEF Sinking
<1> HIDE DEF n
<1>2. h \in D[0]
  <2>1. SameHeap(h, h)
    BY DEF SameHeap
  <2>2. 0 \in 0..n /\ start >= 0 + 1
    BY <1>1
  <2>3. Sinks(h, 0)
    <3> HIDE DEF Stays
    <3> QED
      BY <1>1, <2>2
  <2> HIDE DEF Sinks
  <2> QED
    BY <1>1, <2>1, <2>2, <2>3
<1>3. ASSUME NEW i \in 1..n, NEW x \in D[i - 1] PROVE Next1(x) \in D[i]
  <2>1. i - 1 \in 0..n /\ i \in 0..n
    BY <1>1
  <2>2. x \in Heaps /\ SameHeap(h, x) /\ Sinks(x, i - 1)
    <3> HIDE DEF Sinks
    <3> QED
      BY <2>1
  <2>3. PICK at \in 1..n : Sinking(x, v, at) /\ (Stays(x, at) \/ at >= (i - 1) + 1)
    BY <2>2
  <2>4. /\ Len(x.heap) = n /\ x.heap[at] = v /\ Once(x.heap) /\ Index(x, v) = at
    <3>1. Len(x.heap) = n /\ x.heap[at] = v /\ Once(x.heap)
      BY <2>2, <2>3 DEF SameHeap, Sinking, n
    <3> QED
      BY <2>2, <3>1, IndexFacts
  <2>5. ASSUME NEW y \in Heaps, SameHeap(h, y), NEW p \in 1..n, Sinking(y, v, p), Stays(y, p) \/ p >= i + 1
        PROVE  y \in D[i]
    <3>1. Sinks(y, i)
      <4> HIDE DEF Stays
      <4> QED
        BY <2>5
    <3> HIDE DEF Sinks, Stays
    <3> QED
      BY <2>1, <2>5, <3>1
  <2>6. Next1(x) = IF Children(x, at) # {} /\ ScoreSmaller(x, v, x.heap[BestChild(x, at)])
                   THEN Exchange(x, at, BestChild(x, at)) ELSE x
    BY <2>4 DEF Children, BestChild
  <2> HIDE DEF Sinks, D, Next1
  <2>7. CASE Stays(x, at)
    <3>1. Next1(x) = x
      BY <2>6, <2>7
    <3> HIDE DEF Stays
    <3> QED
      BY <2>2, <2>3, <2>5, <2>7, <3>1
  <2>8. CASE ~Stays(x, at)
    <3> DEFINE c == BestChild(x, at)
               y == Exchange(x, at, c)
    <3>1. Children(x, at) # {} /\ ScoreSmaller(x, v, x.heap[c]) /\ Next1(x) = y
      BY <2>6, <2>8
    <3>2. c \in 1..n /\ c > at
      <4>1. c \in 2..n /\ c > at
        BY <2>2, <2>4, <3>1, ChildFacts
      <4> HIDE DEF c
      <4> QED
        BY <1>1, <4>1
    <3>3. y \in Heaps /\ SameHeap(x, y)
      BY <2>2, <2>4, <3>2, ExchangeFacts
    <3>4. Sinking(y, v, c)
      BY <2>3, <3>1, SinkingStep
    <3>5. c >= i + 1
      <4>1. at >= (i - 1) + 1
        BY <2>3, <2>8
      <4> HIDE DEF c
      <4> QED
        BY <1>1, <3>2, <4>1
    <3> HIDE DEF y, c, Stays
    <3>6. SameHeap(h, y)
      BY <2>2, <3>3 DEF SameHeap
    <3> QED
      BY <2>5, <3>1, <3>2, <3>3, <3>4, <3>5, <3>6
  <2> QED
    BY <2>7, <2>8
<1>4. Down(h, v) \in D[n]
  <2>1. \A i \in 1..n : \A x \in D[i - 1] : Next1(x) \in D[i]
    BY <1>3
  <2> HIDE DEF D
  <2> QED
    BY <1>1, <1>2, <2>1, DownStages DEF n
<1> DEFINE u == Down(h, v)
<1>5. u \in Heaps /\ SameHeap(h, u) /\ Sinks(u, n)
  <2> HIDE DEF u, Sinks
  <2>1. n \in 0..n
    BY <1>1
  <2> QED
    BY <1>4, <2>1 DEF u
<1> HIDE DEF u, D
<1>6. PICK at \in 1..n : Sinking(u, v, at) /\ Stays(u, at)
  <2>1. \A at \in 1..n : ~(at >= n + 1)
    BY <1>1
  <2> HIDE DEF Stays
  <2> QED
    BY <1>5, <2>1
<1>7. Len(u.heap) = n /\ Once(u.heap) /\ u.heap[at] = v
  BY <1>5, <1>6 DEF SameHeap, Sinking, n
<1>8. ASSUME NEW i \in 2..n PROVE NoMore(u, i, Parent(i))
  <2>1. CASE Parent(i) # at
    BY <1>6, <1>7, <2>1 DEF Sinking
  <2>2. CASE Parent(i) = at
    <3> DEFINE c == BestChild(u, at)
    <3>1. i \in Children(u, at) /\ c \in 2..n /\ NoMore(u, i, c)
      BY <1>5, <1>7, <2>2, ChildFacts
    <3>2. ~ScoreSmaller(u, v, u.heap[c])
      BY <1>6, <3>1
    <3> HIDE DEF c
    <3>3. i \in 1..n /\ c \in 1..n
      BY <1>1, <3>1
    <3>4. u.stab[v] \in Nat /\ u.stab[u.heap[i]] \in Nat /\ u.stab[u.heap[c]] \in Nat
      BY <1>5, <1>7, <3>3, HeapTypes
    <3>5. u.stab[u.heap[c]] <= u.stab[v]
      BY <3>2, <3>4 DEF ScoreSmaller
    <3> QED
      BY <1>7, <2>2, <3>1, <3>4, <3>5 DEF NoMore
  <2> QED
    BY <2>1, <2>2
<1> QED
  BY <1>5, <1>7, <1>8 DEF HeapTree, u

\* In a heap every variable may go down.
LEMMA TreeSinks ==
  ASSUME NEW h, HeapTree(h), NEW at \in 1..Len(h.heap)
  PROVE  Sinking(h, h.heap[at], at)
<1> DEFINE n == Len(h.heap)
<1>1. /\ h \in Heaps /\ Once(h.heap) /\ n \in Nat
      /\ \A i \in 1..n : h.heap[i] \in Idx /\ h.stab[h.heap[i]] \in Nat
      /\ \A i \in 2..n : NoMore(h, i, Parent(i))
  BY HeapTypes DEF HeapTree
<1>2. ASSUME NEW i \in 2..n, Parent(i) = at, at > 1 PROVE NoMore(h, i, Parent(at))
  <2>1. at \in 2..n /\ i \in 1..n /\ Parent(at) \in 1..n
    BY <1>1, <1>2, ParentIn
  <2>2. NoMore(h, i, at) /\ NoMore(h, at, Parent(at))
    BY <1>1, <1>2, <2>1
  <2>3. h.stab[h.heap[i]] \in Nat /\ h.stab[h.heap[at]] \in Nat /\ h.stab[h.heap[Parent(at)]] \in Nat
    BY <1>1, <2>1
  <2> QED
    BY <2>2, <2>3 DEF NoMore
<1> QED
  BY <1>1, <1>2 DEF Sinking

\* A variable whose score has grown finds its place.
LEMMA HeapUpdateFacts ==
  ASSUME NEW h, NEW v, NEW at, Rising(h, v, at)
  PROVE  HeapTree(HeapUpdate(h, v)) /\ SameHeap(h, HeapUpdate(h, v))
<1> DEFINE u == Up(h, v)
           e == Down(u, v)
<1>1. HeapTree(u) /\ SameHeap(h, u)
  BY UpFacts
<1>2. In(v, h.heap)
  <2>1. at \in DOMAIN h.heap /\ h.heap[at] = v
    BY HeapTypes DEF Rising
  <2> QED
    BY <2>1 DEF In
<1> HIDE DEF u
<1>3. PICK i \in 1..Len(u.heap) : u.heap[i] = v
  <2>1. u \in Heaps /\ In(v, u.heap)
    BY <1>1, <1>2 DEF SameHeap, HeapTree
  <2> QED
    BY <2>1, HeapTypes DEF In
<1>4. Sinking(u, v, i)
  BY <1>1, <1>3, TreeSinks
<1>5. HeapTree(e) /\ SameHeap(u, e)
  BY <1>4, DownFacts
<1> HIDE DEF e
<1>6. SameHeap(h, e)
  BY <1>1, <1>5 DEF SameHeap
<1> QED
  BY <1>5, <1>6 DEF HeapUpdate, e, u

\* A variable is put on the heap.
LEMMA PushBackFacts ==
  ASSUME NEW h, HeapTree(h), NEW v \in Idx, ~In(v, h.heap)
  PROVE  LET e == PushBack(h, v) IN
         /\ HeapTree(e) /\ e.stab = h.stab /\ e.inc = h.inc /\ Len(e.heap) = Len(h.heap) + 1
         /\ \A x : In(x, e.heap) <=> x = v \/ In(x, h.heap)
<1> DEFINE n == Len(h.heap)
           new == Append(h.heap, v)
           a == [h EXCEPT !.heap = Append(@, v)]
<1>1. /\ h \in Heaps /\ Once(h.heap) /\ n \in Nat /\ DOMAIN h.heap = 1..n /\ h.heap \in Seq(Idx)
      /\ \A i \in 2..n : NoMore(h, i, Parent(i))
  BY HeapTypes DEF HeapTree
<1>2. /\ new \in Seq(Idx) /\ Len(new) = n + 1 /\ DOMAIN new = 1..n + 1 /\ new[n + 1] = v
      /\ \A i \in 1..n : new[i] = h.heap[i]
  BY <1>1
<1>3. a \in Heaps /\ a.heap = new /\ a.stab = h.stab /\ a.inc = h.inc
  BY <1>1, <1>2 DEF Heaps
<1> HIDE DEF a, new, n
<1>4. \A k \in 1..n + 1 : k = n + 1 \/ k \in 1..n
  BY <1>1
<1>5. Once(new)
  BY <1>1, <1>2, <1>4 DEF Once, In
<1>6. \A x : In(x, new) <=> x = v \/ In(x, h.heap)
  <2>1. n + 1 \in 1..n + 1 /\ \A k \in 1..n : k \in 1..n + 1
    BY <1>1
  <2> QED
    BY <1>1, <1>2, <1>4, <2>1 DEF In
<1>7. Rising(a, v, n + 1)
  <2>1. n + 1 \in 1..Len(a.heap) /\ a.heap[n + 1] = v
    BY <1>1, <1>2, <1>3
  <2>2. ASSUME NEW i \in 2..Len(a.heap), i # n + 1 PROVE NoMore(a, i, Parent(i))
    <3>1. i \in 2..n /\ i \in 1..n /\ i > 1
      BY <1>1, <1>2, <1>3, <2>2
    <3>2. Parent(i) \in 1..n
      BY <1>1, <3>1, ParentIn
    <3>3. NoMore(h, i, Parent(i))
      BY <1>1, <3>1
    <3> QED
      BY <1>2, <1>3, <3>1, <3>2, <3>3 DEF NoMore
  <2>3. ASSUME NEW i \in 2..Len(a.heap) PROVE Parent(i) # n + 1
    <3>1. n + 1 \in Nat /\ i \in 1..n + 1 /\ i > 1
      BY <1>1, <1>2, <1>3
    <3>2. Parent(i) < i /\ Parent(i) \in 1..n + 1
      BY <3>1, ParentIn
    <3> QED
      BY <1>1, <3>1, <3>2
  <2> QED
    BY <1>3, <1>5, <2>1, <2>2, <2>3 DEF Rising
<1>8. HeapTree(HeapUpdate(a, v)) /\ SameHeap(a, HeapUpdate(a, v))
  BY <1>7, HeapUpdateFacts
<1>9. PushBack(h, v) = HeapUpdate(a, v)
  BY DEF PushBack, a
<1> QED
  BY <1>2, <1>3, <1>6, <1>8, <1>9 DEF SameHeap, n

\* No variable scores more than the first of a heap.
LEMMA RootIsBest ==
  ASSUME NEW h, HeapTree(h), NEW i \in 1..Len(h.heap)
  PROVE  h.stab[h.heap[i]] <= h.stab[h.heap[1]]
<1> DEFINE n == Len(h.heap)
           Bad == {j \in 1..n : ~(h.stab[h.heap[j]] <= h.stab[h.heap[1]])}
<1>1. /\ h \in Heaps /\ n \in Nat /\ \A j \in 1..n : h.stab[h.heap[j]] \in Nat
      /\ \A j \in 2..n : NoMore(h, j, Parent(j))
  BY HeapTypes DEF HeapTree
<1> SUFFICES ASSUME i \in Bad PROVE FALSE
  OBVIOUS
<1>2. Bad \subseteq Nat /\ Bad # {}
  BY <1>1
<1>3. PICK j \in Bad : \A k \in Bad : j <= k
  <2> HIDE DEF Bad
  <2> QED
    BY <1>2, NatLeast
<1>4. j \in 1..n /\ j # 1
  <2>1. 1 \in 1..n
    BY <1>1
  <2> QED
    BY <1>1, <1>3, <2>1
<1>5. j \in 2..n /\ Parent(j) \in 1..n /\ Parent(j) < j
  BY <1>1, <1>4, ParentIn
<1>6. Parent(j) \notin Bad
  <2> HIDE DEF Bad, n
  <2>1. j \in Nat /\ Parent(j) \in Nat
    BY <1>1, <1>4, <1>5
  <2> QED
    BY <1>3, <1>5, <2>1
<1>7. h.stab[h.heap[Parent(j)]] <= h.stab[h.heap[1]] /\ h.stab[h.heap[j]] <= h.stab[h.heap[Parent(j)]]
  BY <1>1, <1>5, <1>6 DEF NoMore
<1>8. ~(h.stab[h.heap[j]] <= h.stab[h.heap[1]]) /\ 1 \in 1..n
  BY <1>1, <1>3, <1>4
<1>9. h.stab[h.heap[Parent(j)]] \in Nat /\ h.stab[h.heap[1]] \in Nat /\ h.stab[h.heap[j]] \in Nat
  BY <1>1, <1>4, <1>5, <1>8
<1> QED
  BY ONLY <1>7, <1>8, <1>9

\* The first is taken from the heap.
LEMMA PopFrontFacts ==
  ASSUME NEW h, HeapTree(h), h.heap # <<>>
  PROVE  LET e == PopFront(h) IN
         /\ HeapTree(e) /\ e.stab = h.stab /\ e.inc = h.inc /\ Len(e.heap) = Len(h.heap) - 1
         /\ \A x : In(x, e.heap) <=> In(x, h.heap) /\ x # h.heap[1]
<1> DEFINE n == Len(h.heap)
           last == h.heap[n]
           moved == [h.heap EXCEPT ![1] = last]
           new == SubSeq(moved, 1, n - 1)
           a == [h EXCEPT !.heap = new]
<1>1. /\ h \in Heaps /\ Once(h.heap) /\ n \in Nat /\ DOMAIN h.heap = 1..n /\ h.heap \in Seq(Idx)
      /\ \A i \in 1..n : h.heap[i] \in Idx
      /\ \A i \in 2..n : NoMore(h, i, Parent(i))
  BY HeapTypes DEF HeapTree
<1>2. n >= 1 /\ last \in Idx /\ 1 \in 1..n
  BY <1>1
<1> HIDE DEF last
<1>3. moved \in Seq(Idx) /\ Len(moved) = n /\ \A i \in 1..n : moved[i] = IF i = 1 THEN last ELSE h.heap[i]
  <2>1. moved \in [1..n -> Idx] /\ \A i \in 1..n : moved[i] = IF i = 1 THEN last ELSE h.heap[i]
    BY <1>1, <1>2
  <2> HIDE DEF moved
  <2> QED
    BY <1>1, <2>1, FunctionIsSeq
<1> HIDE DEF moved
<1>4. /\ new \in Seq(Idx) /\ Len(new) = n - 1 /\ n - 1 \in Nat
      /\ \A i \in 1..n - 1 : new[i] = IF i = 1 THEN last ELSE h.heap[i]
  <2>1. moved # <<>>
    BY <1>2, <1>3
  <2>2. /\ new \in Seq(Idx) /\ Len(new) = Len(moved) - 1 /\ \A i \in 1..Len(moved) - 1 : new[i] = moved[i]
    BY <1>3, <2>1, FrontFacts
  <2> HIDE DEF new
  <2>3. Len(new) = n - 1 /\ n - 1 \in Nat /\ \A i \in 1..n - 1 : i \in 1..n /\ new[i] = moved[i]
    BY <1>1, <1>2, <1>3, <2>2
  <2> QED
    BY <1>3, <2>2, <2>3
<1> HIDE DEF new, n
<1>5. a \in Heaps /\ a.heap = new /\ a.stab = h.stab /\ a.inc = h.inc
  BY <1>1, <1>4 DEF Heaps
<1>6. PopFront(h) = IF n > 2 THEN Down(a, last) ELSE a
  BY DEF PopFront, a, new, moved, last, n
<1> HIDE DEF a
<1>7. DOMAIN new = 1..n - 1 /\ \A i \in 1..n - 1 : i \in 1..n /\ i # n
  BY <1>1, <1>4
<1>8. Once(new)
  <2> SUFFICES ASSUME NEW j \in 1..n - 1, NEW k \in 1..n - 1, new[j] = new[k] PROVE j = k
    BY <1>7 DEF Once
  <2>0. n \in 1..n /\ j \in 1..n /\ k \in 1..n /\ last = h.heap[n]
        /\ new[j] = (IF j = 1 THEN last ELSE h.heap[j]) /\ new[k] = (IF k = 1 THEN last ELSE h.heap[k])
    <3>1. last = h.heap[n]
      BY DEF last, n
    <3> QED
      BY <1>1, <1>2, <1>4, <1>7, <3>1
  <2>1. /\ new[j] = h.heap[IF j = 1 THEN n ELSE j] /\ new[k] = h.heap[IF k = 1 THEN n ELSE k]
        /\ (IF j = 1 THEN n ELSE j) \in 1..n /\ (IF k = 1 THEN n ELSE k) \in 1..n
    BY <2>0
  <2>2. (IF j = 1 THEN n ELSE j) = (IF k = 1 THEN n ELSE k)
    BY <1>1, <2>1 DEF Once
  <2> QED
    BY <1>7, <2>2
<1>9. ASSUME NEW x PROVE In(x, new) <=> In(x, h.heap) /\ x # h.heap[1]
  <2>1. ASSUME In(x, new) PROVE In(x, h.heap) /\ x # h.heap[1]
    <3>1. PICK k \in 1..n - 1 : new[k] = x
      BY <1>7, <2>1 DEF In
    <3>2. PICK i \in 1..n : i # 1 /\ h.heap[i] = x
      <4>1. CASE k = 1
        <5>1. n \in 1..n /\ n # 1
          BY <1>1, <1>2, <3>1
        <5> QED
          BY <1>4, <3>1, <4>1, <5>1 DEF last, n
      <4>2. CASE k # 1
        BY <1>4, <1>7, <3>1, <4>2
      <4> QED
        BY <4>1, <4>2
    <3> QED
      BY <1>1, <1>2, <3>2 DEF In, Once
  <2>2. ASSUME In(x, h.heap), x # h.heap[1] PROVE In(x, new)
    <3>1. PICK i \in 1..n : h.heap[i] = x /\ i # 1
      BY <1>1, <2>2 DEF In
    <3>2. CASE i = n
      <4>1. 1 \in 1..n - 1
        BY <1>1, <3>1, <3>2
      <4>2. last = h.heap[n]
        BY DEF last, n
      <4>3. new[1] = x
        BY <1>4, <3>1, <3>2, <4>1, <4>2
      <4> QED
        BY <1>7, <4>1, <4>3 DEF In
    <3>3. CASE i # n
      <4>1. i \in 1..n - 1 /\ new[i] = x
        BY <1>1, <1>4, <3>1, <3>3
      <4> QED
        BY <1>7, <4>1 DEF In
    <3> QED
      BY <3>2, <3>3
  <2> QED
    BY <2>1, <2>2
<1>10. ASSUME NEW i \in 2..n - 1, Parent(i) # 1 PROVE NoMore(a, i, Parent(i))
  <2>1. i \in 2..n /\ i \in 1..n - 1 /\ i > 1 /\ n - 1 \in Nat
    BY <1>1, <1>4
  <2>2. Parent(i) \in 1..n - 1
    BY <2>1, ParentIn
  <2>3. NoMore(h, i, Parent(i))
    BY <1>1, <2>1 DEF n
  <2>4. new[i] = h.heap[i] /\ new[Parent(i)] = h.heap[Parent(i)]
    BY <1>4, <1>10, <2>1, <2>2
  <2> QED
    BY <1>5, <2>3, <2>4 DEF NoMore
<1>11. CASE n > 2
  <2>1. Sinking(a, last, 1)
    <3>1. 1 \in 1..Len(a.heap) /\ a.heap[1] = last
      BY <1>1, <1>4, <1>5, <1>11
    <3> QED
      BY <1>4, <1>5, <1>8, <1>10, <3>1 DEF Sinking
  <2>2. HeapTree(Down(a, last)) /\ SameHeap(a, Down(a, last))
    BY <2>1, DownFacts
  <2> QED
    BY <1>4, <1>5, <1>6, <1>9, <1>11, <2>2 DEF SameHeap, n
<1>12. CASE ~(n > 2)
  <2>1. \A i \in 2..n - 1 : FALSE
    BY <1>1, <1>12
  <2>2. HeapTree(a)
    BY <1>4, <1>5, <1>8, <2>1 DEF HeapTree
  <2> QED
    BY <1>4, <1>5, <1>6, <1>9, <1>12, <2>2 DEF n
<1> QED
  BY <1>11, <1>12

\* Assigned variables are taken from the heap until its first is not assigned.
LEMMA PopAssignedFacts ==
  ASSUME NEW h, HeapTree(h), NEW tr, NEW u, In(u, h.heap), ~Assigned(tr, u)
  PROVE  LET e == PopAssigned(h, tr) IN
         /\ HeapTree(e) /\ e.stab = h.stab /\ e.inc = h.inc
         /\ \A x : In(x, e.heap) => In(x, h.heap)
         /\ \A x : In(x, h.heap) /\ ~Assigned(tr, x) => In(x, e.heap)
         /\ Len(e.heap) >= 1 /\ ~Assigned(tr, e.heap[1])
         /\ \A x : In(x, e.heap) => e.stab[x] <= e.stab[e.heap[1]]
<1> DEFINE n == Len(h.heap)
           Same(e) == /\ HeapTree(e) /\ e.stab = h.stab /\ e.inc = h.inc
                      /\ \A x : In(x, e.heap) => In(x, h.heap)
                      /\ \A x : In(x, h.heap) /\ ~Assigned(tr, x) => In(x, e.heap)
           D == [i \in 0..n |-> {x \in Heaps : /\ Same(x)
                                               /\ ~Assigned(tr, x.heap[1]) \/ Len(x.heap) <= n - i}]
<1>1. h \in Heaps /\ n \in Nat
  BY HeapTypes DEF HeapTree
<1>2. \A x : HeapTree(x) => x \in Heaps /\ Len(x.heap) \in Nat /\ DOMAIN x.heap = 1..Len(x.heap)
  BY HeapTypes DEF HeapTree
<1>3. \A x : Same(x) => Len(x.heap) >= 1
  <2> SUFFICES ASSUME NEW x, Same(x) PROVE Len(x.heap) >= 1
    OBVIOUS
  <2>1. In(u, x.heap) /\ HeapTree(x)
    OBVIOUS
  <2> QED
    BY <1>2, <2>1 DEF In
<1>4. h \in D[0]
  <2>1. Same(h)
    OBVIOUS
  <2>2. 0 \in 0..n /\ n <= n - 0
    BY <1>1
  <2> HIDE DEF Same
  <2> QED
    BY <1>1, <2>1, <2>2
<1>5. ASSUME NEW i \in 1..n, NEW x \in D[i - 1]
      PROVE  (IF x.heap # <<>> /\ Assigned(tr, x.heap[1]) THEN PopFront(x) ELSE x) \in D[i]
  <2>1. i - 1 \in 0..n /\ i \in 0..n
    BY <1>1
  <2>2. x \in Heaps /\ Same(x) /\ (~Assigned(tr, x.heap[1]) \/ Len(x.heap) <= n - (i - 1))
    <3> HIDE DEF Same
    <3> QED
      BY <2>1
  <2>3. Len(x.heap) >= 1 /\ x.heap # <<>> /\ HeapTree(x)
    <3>1. Len(x.heap) >= 1
      BY <1>3, <2>2
    <3> QED
      BY <2>2, <3>1
  <2>4. CASE ~Assigned(tr, x.heap[1])
    <3> HIDE DEF Same
    <3> QED
      BY <2>1, <2>2, <2>4
  <2>5. CASE Assigned(tr, x.heap[1])
    <3> DEFINE y == PopFront(x)
    <3>1. /\ HeapTree(y) /\ y.stab = x.stab /\ y.inc = x.inc /\ Len(y.heap) = Len(x.heap) - 1
          /\ \A z : In(z, y.heap) <=> In(z, x.heap) /\ z # x.heap[1]
      BY <2>3, PopFrontFacts
    <3> HIDE DEF y
    <3>2. Same(y)
      BY <2>2, <2>5, <3>1
    <3>3. y \in Heaps /\ Len(y.heap) <= n - i
      <4>1. Len(x.heap) \in Nat /\ Len(x.heap) <= n - (i - 1)
        BY <1>2, <2>2, <2>3, <2>5
      <4> QED
        BY <1>1, <1>2, <3>1, <4>1
    <3> HIDE DEF Same
    <3>4. y \in D[i]
      BY <2>1, <3>2, <3>3
    <3> QED
      BY <2>3, <2>5, <3>4 DEF y
  <2> QED
    BY <2>4, <2>5
<1> DEFINE e == PopAssigned(h, tr)
<1>6. e \in D[n]
  <2> HIDE DEF D
  <2> QED
    BY <1>1, <1>4, <1>5, PopStages DEF n
<1> HIDE DEF e
<1>7. Same(e) /\ (~Assigned(tr, e.heap[1]) \/ Len(e.heap) <= n - n)
  <2>1. n \in 0..n
    BY <1>1
  <2> HIDE DEF Same, n
  <2> QED
    BY <1>6, <2>1
<1>8. Len(e.heap) >= 1 /\ Len(e.heap) \in Nat
  BY <1>2, <1>3, <1>7
<1>9. ~Assigned(tr, e.heap[1])
  BY <1>1, <1>7, <1>8
<1>10. ASSUME NEW x, In(x, e.heap) PROVE e.stab[x] <= e.stab[e.heap[1]]
  BY <1>2, <1>7, <1>10, RootIsBest DEF In
<1> QED
  BY <1>7, <1>8, <1>9, <1>10 DEF e

-----------------------------------------------------------------------------
(* The order the heap gives, and scores.                                   *)

\* The heap from the best to the worst holds every variable of it once.
LEMMA ByScoreFacts ==
  ASSUME NEW h, HeapTree(h), NEW M, \A x : In(x, h.heap) <=> x \in M
  PROVE  Arranges(ByScore(h), M)
<1> DEFINE n == Len(h.heap)
           Split(x) ==
             /\ HeapTree(x.h) /\ x.out \in Seq(M)
             /\ \A j, k \in 1..Len(x.out) : x.out[j] = x.out[k] => j = k
             /\ \A k \in 1..Len(x.out) : ~In(x.out[k], x.h.heap)
             /\ \A w \in M : In(w, x.h.heap) \/ \E k \in 1..Len(x.out) : x.out[k] = w
             /\ \A w : In(w, x.h.heap) => w \in M
           D == [i \in 0..n |-> {x \in [h : Heaps, out : Seq(M)] : Split(x) /\ Len(x.h.heap) = n - i}]
           z == [h |-> h, out |-> <<>>]
<1>1. h \in Heaps /\ n \in Nat
  BY HeapTypes DEF HeapTree
<1>2. z \in D[0]
  <2>1. z \in [h : Heaps, out : Seq(M)] /\ z.h = h /\ z.out = <<>>
    BY <1>1
  <2> HIDE DEF z
  <2>2. Split(z)
    BY <2>1
  <2>3. 0 \in 0..n /\ Len(z.h.heap) = n - 0
    BY <1>1, <2>1
  <2> HIDE DEF Split, n
  <2> QED
    BY <2>1, <2>2, <2>3
<1>3. ASSUME NEW i \in 1..n, NEW x \in D[i - 1]
      PROVE  [h |-> PopFront(x.h), out |-> Append(x.out, x.h.heap[1])] \in D[i]
  <2>1. i - 1 \in 0..n /\ i \in 0..n
    BY <1>1
  <2>2. x \in [h : Heaps, out : Seq(M)] /\ Split(x) /\ Len(x.h.heap) = n - (i - 1)
    <3> HIDE DEF Split, n
    <3> QED
      BY <2>1
  <2> DEFINE g == x.h
             out == x.out
             m == Len(out)
             top == g.heap[1]
             p == PopFront(g)
             new == Append(out, top)
             y == [h |-> p, out |-> new]
  <2>3. /\ HeapTree(g) /\ out \in Seq(M) /\ Len(g.heap) = n - (i - 1)
        /\ \A j, k \in 1..m : out[j] = out[k] => j = k
        /\ \A k \in 1..m : ~In(out[k], g.heap)
        /\ \A w \in M : In(w, g.heap) \/ \E k \in 1..m : out[k] = w
        /\ \A w : In(w, g.heap) => w \in M
    BY <2>2
  <2> HIDE DEF g, out, n
  <2>4. g \in Heaps /\ DOMAIN g.heap = 1..Len(g.heap) /\ Len(g.heap) \in Nat /\ Len(g.heap) >= 1
        /\ g.heap # <<>>
    <3>1. g \in Heaps /\ DOMAIN g.heap = 1..Len(g.heap) /\ Len(g.heap) \in Nat
      BY <2>3, HeapTypes DEF HeapTree
    <3>2. Len(g.heap) >= 1
      BY <1>1, <2>3
    <3> QED
      BY <3>1, <3>2
  <2>5. In(top, g.heap) /\ top \in M
    BY <2>3, <2>4 DEF In
  <2>6. /\ HeapTree(p) /\ Len(p.heap) = Len(g.heap) - 1
        /\ \A w : In(w, p.heap) <=> In(w, g.heap) /\ w # top
    BY <2>3, <2>4, PopFrontFacts
  <2> HIDE DEF top, p
  <2>7. /\ new \in Seq(M) /\ Len(new) = m + 1 /\ new[m + 1] = top /\ m \in Nat
        /\ \A k \in 1..m : new[k] = out[k]
    BY <2>3, <2>5
  <2>8. y \in [h : Heaps, out : Seq(M)] /\ y.h = p /\ y.out = new
    <3>1. p \in Heaps
      BY <2>6 DEF HeapTree
    <3> HIDE DEF new
    <3> QED
      BY <2>7, <3>1
  <2>9. \A k \in 1..m + 1 : k \in 1..m \/ k = m + 1
    BY <2>7
  <2> HIDE DEF new, y, m
  <2>10. \A k \in 1..m : new[k] # top
    BY <2>3, <2>5, <2>7
  <2>11. \A j, k \in 1..m + 1 : new[j] = new[k] => j = k
    BY <2>3, <2>7, <2>9, <2>10
  <2>12. \A k \in 1..m + 1 : ~In(new[k], p.heap)
    BY <2>3, <2>6, <2>7, <2>9
  <2>13. \A w \in M : In(w, p.heap) \/ \E k \in 1..m + 1 : new[k] = w
    <3>1. m + 1 \in 1..m + 1 /\ \A k \in 1..m : k \in 1..m + 1
      BY <2>7
    <3> QED
      BY <2>3, <2>6, <2>7, <3>1
  <2>14. Split(y)
    BY <2>3, <2>6, <2>7, <2>8, <2>11, <2>12, <2>13
  <2>15. Len(y.h.heap) = n - i
    <3>1. Len(p.heap) = n - i
      BY <1>1, <2>3, <2>4, <2>6
    <3> QED
      BY <2>8, <3>1
  <2> HIDE DEF Split
  <2>16. y \in D[i]
    BY <2>1, <2>8, <2>14, <2>15
  <2> QED
    BY <2>16 DEF y, p, new, top, g, out
<1>4. PICK x \in D[n] : ByScore(h) = x.out
  <2> HIDE DEF D
  <2> QED
    BY <1>1, <1>2, <1>3, ByScoreStages, ZenonT(60) DEF n, z
<1>5. Split(x) /\ Len(x.h.heap) = n - n
  <2>1. n \in 0..n
    BY <1>1
  <2> HIDE DEF Split, n
  <2> QED
    BY <1>4, <2>1
<1>6. \A w : ~In(w, x.h.heap)
  <2>1. Len(x.h.heap) = 0 /\ DOMAIN x.h.heap = 1..Len(x.h.heap)
    BY <1>1, <1>5, HeapTypes DEF HeapTree
  <2> QED
    BY <2>1 DEF In
<1> QED
  BY <1>4, <1>5, <1>6 DEF Arranges

\* Division keeps the order.
LEMMA DivMonotone ==
  ASSUME NEW a \in Nat, NEW b \in Nat, a <= b, NEW c \in Nat, NEW d \in Nat, d > 0
  PROVE  (a * c) \div d \in Nat /\ (a * c) \div d <= (b * c) \div d
<1> DEFINE x == a * c
           y == b * c
<1>1. x \in Nat /\ y \in Nat /\ x <= y
  OBVIOUS
<1> HIDE DEF x, y
<1> DEFINE p == x \div d
           r == y \div d
<1>2. p \in Int /\ r \in Int /\ x = d * p + (x % d) /\ y = d * r + (y % d)
      /\ x % d \in 0..d - 1 /\ y % d \in 0..d - 1
  BY <1>1
<1> HIDE DEF p, r
<1>3. p >= 0
  <2> SUFFICES ASSUME p <= -1 PROVE FALSE
    BY <1>2
  <2>1. d * p <= d * (-1)
    BY <1>2
  <2> QED
    BY <1>1, <1>2, <2>1
<1>4. p <= r
  <2> SUFFICES ASSUME r + 1 <= p PROVE FALSE
    BY <1>2
  <2>1. d * (r + 1) <= d * p
    BY <1>2
  <2>2. d * (r + 1) = d * r + d
    BY <1>2
  <2> QED
    BY <1>1, <1>2, <2>1, <2>2
<1> QED
  BY <1>2, <1>3, <1>4 DEF p, r, x, y

\* The numbers a function gives to 1..n have a bound.
LEMMA Bounded ==
  ASSUME NEW f, NEW n \in Nat, \A v \in 1..n : f[v] \in Nat
  PROVE  \E b \in Nat : \A v \in 1..n : f[v] <= b
<1> DEFINE S == {i \in Nat : i <= n => \E b \in Nat : \A v \in 1..i : f[v] <= b}
<1>1. 0 \in S
  OBVIOUS
<1>2. ASSUME NEW i \in Nat, i \in S PROVE i + 1 \in S
  <2> SUFFICES ASSUME i + 1 <= n PROVE \E b \in Nat : \A v \in 1..i + 1 : f[v] <= b
    OBVIOUS
  <2>1. PICK b \in Nat : \A v \in 1..i : f[v] <= b
    BY <1>2
  <2>2. f[i + 1] \in Nat /\ \A v \in 1..i : f[v] \in Nat
    OBVIOUS
  <2>3. \A v \in 1..i + 1 : v = i + 1 \/ v \in 1..i
    OBVIOUS
  <2>4. b + f[i + 1] \in Nat /\ \A v \in 1..i + 1 : f[v] <= b + f[i + 1]
    BY <2>1, <2>2, <2>3
  <2> QED
    BY <2>4
<1>3. n \in S
  <2> HIDE DEF S
  <2> QED
    BY <1>1, <1>2, NatSetInduction
<1> QED
  BY <1>3

\* A multiple is divided.
LEMMA DivExact ==
  ASSUME NEW a \in Nat, NEW d \in Nat, d > 0
  PROVE  (d * a) \div d = a
<1> DEFINE q0 == (d * a) \div d
<1>1. d * a \in Int
  OBVIOUS
<1>2. q0 \in Int /\ d * a = d * q0 + ((d * a) % d) /\ (d * a) % d \in 0..d - 1
  BY <1>1
<1> HIDE DEF q0
<1>3. a - q0 \in Int /\ d * (a - q0) = (d * a) % d
  BY <1>2
<1>4. ~(a - q0 >= 1)
  <2> SUFFICES ASSUME a - q0 >= 1 PROVE FALSE
    OBVIOUS
  <2>1. d * (a - q0) >= d
    <3>1. (a - q0) - 1 \in Nat /\ d * ((a - q0) - 1) >= 0
      BY <1>3
    <3>2. d * ((a - q0) - 1) = d * (a - q0) - d
      BY <1>3
    <3> QED
      BY <1>3, <3>1, <3>2
  <2> QED
    BY <1>2, <1>3, <2>1
<1>5. ~(a - q0 <= -1)
  <2> SUFFICES ASSUME a - q0 <= -1 PROVE FALSE
    OBVIOUS
  <2>1. d * (a - q0) <= -d
    <3>1. -((a - q0) + 1) \in Nat /\ d * (-((a - q0) + 1)) >= 0
      BY <1>3
    <3>2. d * (-((a - q0) + 1)) = -(d * (a - q0)) - d
      BY <1>3
    <3> QED
      BY <1>3, <3>1, <3>2
  <2> QED
    BY <1>2, <1>3, <2>1
<1> QED
  BY <1>3, <1>4, <1>5 DEF q0

\* No score and no increment is above the limit.
Scaled(h) == h.inc <= ScoreLimit /\ \A v \in Idx : h.stab[v] <= ScoreLimit

\* The limit leaves room for two rescaled scores and for a score per variable.
LEMMA LimitFacts ==
  /\ One \in Nat /\ One > 0 /\ ScoreLimit \in Nat /\ MaxVar \in Nat /\ ScoreLimit > 2 * One
  /\ \A i \in 0..MaxVar : i * One \in Nat /\ i * One <= ScoreLimit
<1>1. One \in Nat /\ One > 0 /\ ScoreLimit \in Nat /\ MaxVar \in Nat /\ ScoreLimit > MaxVar * One /\ MaxVar > 2
  BY DecideAssumption
<1>2. \A i, j \in Nat : i * One \in Nat /\ (i <= j => i * One <= j * One)
  <2> SUFFICES ASSUME NEW i \in Nat, NEW j \in Nat
               PROVE  i * One \in Nat /\ (i <= j => i * One <= j * One)
    OBVIOUS
  <2>1. i * One \in Nat
    BY <1>1
  <2>2. ASSUME i <= j PROVE i * One <= j * One
    <3>1. j - i \in Nat
      BY <2>2
    <3>2. (j - i) * One >= 0 /\ (j - i) * One = j * One - i * One /\ j * One \in Int
      BY <1>1, <3>1
    <3> QED
      BY <2>1, <3>2
  <2> QED
    BY <2>1, <2>2
<1>3. 2 * One <= MaxVar * One /\ MaxVar * One \in Nat /\ 2 * One \in Nat
  BY <1>1, <1>2
<1>4. \A i \in 0..MaxVar : i * One \in Nat /\ i * One <= MaxVar * One
  BY <1>1, <1>2
<1> QED
  BY <1>1, <1>3, <1>4

\* Rescaling keeps the heap: scores that were not greater are not greater after it.
LEMMA RescaleFacts ==
  ASSUME NEW h, HeapTree(h), maxVar \in Nat, Vars \subseteq Idx,
         h.inc > 0 \/ \E v \in Vars : h.stab[v] > 0
  PROVE  LET e == Rescale(h) IN
         /\ HeapTree(e) /\ e.heap = h.heap
         /\ h.inc >= One \/ (\E v \in Vars : h.stab[v] >= One) =>
              /\ e.inc <= One /\ \A v \in Vars : e.stab[v] <= One
              /\ \A v \in Idx : e.stab[v] <= h.stab[v]
         /\ \E d \in {h.inc} \cup {h.stab[v] : v \in Vars} :
              /\ d \in Nat /\ d > 0 /\ h.inc <= d /\ \A v \in Vars : h.stab[v] <= d
              /\ e.inc = (h.inc * One) \div d
              /\ \A v \in Idx : e.stab[v] = (h.stab[v] * One) \div d
<1> DEFINE S == {h.inc} \cup {h.stab[v] : v \in Vars}
           d == Max(S)
           new == [v \in Idx |-> (h.stab[v] * One) \div d]
           inc == (h.inc * One) \div d
           n == Len(h.heap)
<1>1. /\ h \in Heaps /\ Once(h.heap) /\ n \in Nat /\ h.stab \in [Idx -> Nat] /\ h.inc \in Nat
      /\ \A v \in Idx : h.stab[v] \in Nat
      /\ \A i \in 1..n : h.heap[i] \in Idx
      /\ \A i \in 2..n : NoMore(h, i, Parent(i))
  BY HeapTypes DEF HeapTree
<1>2. One \in Nat
  BY DecideAssumption
<1>3. d \in S /\ \A x \in S : x <= d
  <2>1. PICK b \in Nat : \A v \in 1..maxVar : h.stab[v] <= b
    BY <1>1, Bounded DEF Vars
  <2>2. S \subseteq Nat /\ S # {}
    BY <1>1
  <2>3. b + h.inc \in Nat /\ \A x \in S : x <= b + h.inc
    BY <1>1, <2>1 DEF Vars
  <2> HIDE DEF S
  <2> QED
    BY <2>2, <2>3, MaxIsGreatest
<1> HIDE DEF d
<1>4. d \in Nat /\ d > 0
  <2>1. d \in Nat
    BY <1>1, <1>3
  <2>2. h.inc \in Nat /\ h.inc <= d
    BY <1>1, <1>3
  <2>3. \A v \in Vars : h.stab[v] \in Nat /\ h.stab[v] <= d
    BY <1>1, <1>3
  <2>4. CASE h.inc > 0
    BY <2>1, <2>2, <2>4
  <2>5. CASE \E v \in Vars : h.stab[v] > 0
    <3>1. PICK v \in Vars : h.stab[v] > 0
      BY <2>5
    <3> QED
      BY <2>1, <2>3, <3>1
  <2> QED
    BY <2>4, <2>5
<1> HIDE DEF S
<1>5. \A a, b \in Nat : (a * One) \div d \in Nat /\ (a <= b => (a * One) \div d <= (b * One) \div d)
  <2> SUFFICES ASSUME NEW a \in Nat, NEW b \in Nat
               PROVE (a * One) \div d \in Nat /\ (a <= b => (a * One) \div d <= (b * One) \div d)
    OBVIOUS
  <2>1. (a * One) \div d \in Nat
    BY <1>2, <1>4, DivMonotone
  <2> QED
    BY <1>2, <1>4, <2>1, DivMonotone
<1>6. new \in [Idx -> Nat] /\ inc \in Nat /\ \A v \in Idx : new[v] = (h.stab[v] * One) \div d
  BY <1>1, <1>5
<1>7. Rescale(h) = [h EXCEPT !.stab = new, !.inc = inc]
  <2>1. DOMAIN h.stab = Idx
    BY <1>1
  <2> QED
    BY <1>1, <2>1 DEF Rescale, d, S, Heaps
<1> HIDE DEF new, inc
<1> DEFINE e == [h EXCEPT !.stab = new, !.inc = inc]
<1>8. e \in Heaps /\ e.heap = h.heap /\ e.stab = new /\ e.inc = inc
  BY <1>1, <1>6 DEF Heaps
<1> HIDE DEF e
<1>9. ASSUME NEW i \in 2..n PROVE NoMore(e, i, Parent(i))
  <2>1. i \in 1..n /\ i > 1
    BY <1>1
  <2>2. Parent(i) \in 1..n
    BY <1>1, <2>1, ParentIn
  <2>3. h.heap[i] \in Idx /\ h.heap[Parent(i)] \in Idx /\ h.stab[h.heap[i]] <= h.stab[h.heap[Parent(i)]]
    BY <1>1, <2>1, <2>2 DEF NoMore
  <2>4. (h.stab[h.heap[i]] * One) \div d <= (h.stab[h.heap[Parent(i)]] * One) \div d
    BY <1>1, <1>5, <2>3
  <2> QED
    BY <1>6, <1>8, <2>3, <2>4 DEF NoMore
<1>10. \A a \in Nat : a <= d => (a * One) \div d <= One
  <2> SUFFICES ASSUME NEW a \in Nat, a <= d PROVE (a * One) \div d <= One
    OBVIOUS
  <2>1. (a * One) \div d <= (d * One) \div d
    BY <1>4, <1>5
  <2>2. (d * One) \div d = One
    BY <1>2, <1>4, DivExact
  <2> QED
    BY <2>1, <2>2
<1>11. ASSUME d >= One PROVE \A a \in Nat : (a * One) \div d <= a
  <2> SUFFICES ASSUME NEW a \in Nat PROVE (a * One) \div d <= a
    OBVIOUS
  <2>1. a * One <= a * d /\ a * One \in Nat /\ a * d \in Nat /\ a * d = d * a
    <3>1. (d - One) * a >= 0 /\ (d - One) * a = a * d - a * One
      <4>1. d - One \in Nat
        BY <1>2, <1>4, <1>11
      <4> QED
        BY <1>2, <1>4, <4>1
    <3>2. a * One \in Nat /\ a * d \in Nat /\ a * d = d * a
      BY <1>2, <1>4
    <3> QED
      BY <3>1, <3>2
  <2>2. (a * One) \div d <= (d * a) \div d
    <3>1. \A x, y \in Nat : x <= y => (x * 1) \div d <= (y * 1) \div d
      BY <1>4, DivMonotone
    <3>2. ((a * One) * 1) \div d <= ((d * a) * 1) \div d
      BY <2>1, <3>1
    <3>3. (a * One) * 1 = a * One /\ (d * a) * 1 = d * a
      BY <2>1
    <3> QED
      BY <3>2, <3>3
  <2>3. (d * a) \div d = a
    BY <1>4, DivExact
  <2> QED
    BY <2>2, <2>3
<1>12. ASSUME h.inc >= One \/ \E v \in Vars : h.stab[v] >= One
       PROVE  /\ e.inc <= One /\ \A v \in Vars : e.stab[v] <= One
              /\ \A v \in Idx : e.stab[v] <= h.stab[v]
  <2>1. h.inc <= d /\ \A v \in Vars : v \in Idx /\ h.stab[v] \in Nat /\ h.stab[v] <= d
    BY <1>1, <1>3 DEF S
  <2>2. d >= One
    <3>1. CASE h.inc >= One
      BY <1>1, <1>2, <1>4, <2>1, <3>1
    <3>2. CASE \E v \in Vars : h.stab[v] >= One
      <4>1. PICK v \in Vars : h.stab[v] >= One
        BY <3>2
      <4> QED
        BY <1>2, <1>4, <2>1, <4>1
    <3> QED
      BY <1>12, <3>1, <3>2
  <2>3. inc <= One
    BY <1>1, <1>10, <2>1 DEF inc
  <2> QED
    BY <1>1, <1>6, <1>8, <1>10, <1>11, <2>1, <2>2, <2>3
<1>13. \E x \in {h.inc} \cup {h.stab[v] : v \in Vars} :
         /\ x \in Nat /\ x > 0 /\ h.inc <= x /\ \A v \in Vars : h.stab[v] <= x
         /\ e.inc = (h.inc * One) \div x
         /\ \A v \in Idx : e.stab[v] = (h.stab[v] * One) \div x
  <2>1. d \in {h.inc} \cup {h.stab[v] : v \in Vars}
    BY <1>3 DEF S
  <2>2. h.inc <= d /\ \A v \in Vars : h.stab[v] <= d
    BY <1>3 DEF S
  <2>3. e.inc = (h.inc * One) \div d /\ \A v \in Idx : e.stab[v] = (h.stab[v] * One) \div d
    BY <1>6, <1>8 DEF inc
  <2> QED
    BY <1>4, <2>1, <2>2, <2>3
<1> QED
  BY <1>1, <1>7, <1>8, <1>9, <1>12, <1>13 DEF HeapTree, e

\* A score grows.
LEMMA GrowFacts ==
  ASSUME NEW h, HeapTree(h), NEW v \in Idx, NEW x \in Nat, h.stab[v] <= x
  PROVE  LET b == [h EXCEPT !.stab[v] = x]
             e == IF OnHeap(b, v) THEN HeapUpdate(b, v) ELSE b
         IN  /\ HeapTree(e) /\ \A w : In(w, e.heap) <=> In(w, h.heap)
             /\ e.inc = h.inc /\ e.stab[v] = x /\ \A w \in Idx \ {v} : e.stab[w] = h.stab[w]
<1> DEFINE b == [h EXCEPT !.stab[v] = x]
           n == Len(h.heap)
<1>1. /\ h \in Heaps /\ Once(h.heap) /\ n \in Nat /\ h.stab \in [Idx -> Nat] /\ DOMAIN h.heap = 1..n
      /\ \A w \in Idx : h.stab[w] \in Nat
      /\ \A i \in 1..n : h.heap[i] \in Idx
      /\ \A i \in 2..n : NoMore(h, i, Parent(i))
  BY HeapTypes DEF HeapTree
<1>2. /\ b \in Heaps /\ b.heap = h.heap /\ b.inc = h.inc /\ b.stab[v] = x
      /\ \A w \in Idx \ {v} : b.stab[w] = h.stab[w]
  BY <1>1 DEF Heaps
<1>3. \A i \in 2..n : i \in 1..n /\ i > 1 /\ Parent(i) \in 1..n /\ Parent(i) < i
  <2>1. \A i \in 1..n : i > 1 => Parent(i) \in 1..n /\ Parent(i) < i
    BY <1>1, ParentIn
  <2>2. \A i \in 2..n : i \in 1..n /\ i > 1
    BY <1>1
  <2> HIDE DEF n
  <2> QED
    BY <2>1, <2>2
<1> HIDE DEF b, n
<1>4. ASSUME NEW i \in 2..n, h.heap[i] # v PROVE NoMore(b, i, Parent(i))
  <2>1. h.heap[i] \in Idx /\ h.heap[Parent(i)] \in Idx /\ h.stab[h.heap[i]] <= h.stab[h.heap[Parent(i)]]
    BY <1>1, <1>3 DEF NoMore
  <2>2. b.stab[h.heap[i]] = h.stab[h.heap[i]] /\ h.stab[h.heap[Parent(i)]] <= b.stab[h.heap[Parent(i)]]
    <3>1. \A w \in Idx : h.stab[w] <= b.stab[w]
      <4>1. ASSUME NEW w \in Idx PROVE h.stab[w] <= b.stab[w]
        <5>1. h.stab[w] \in Nat
          BY <1>1
        <5>2. CASE w = v
          BY <1>2, <5>2
        <5>3. CASE w # v
          BY <1>2, <5>1, <5>3
        <5> QED
          BY <5>2, <5>3
      <4> QED
        BY <4>1
    <3> QED
      BY <1>2, <1>4, <2>1, <3>1
  <2>3. h.stab[h.heap[i]] \in Nat /\ h.stab[h.heap[Parent(i)]] \in Nat /\ b.stab[h.heap[Parent(i)]] \in Nat
    BY <1>1, <1>2, <2>1
  <2>4. b.stab[h.heap[i]] <= b.stab[h.heap[Parent(i)]]
    BY ONLY <2>1, <2>2, <2>3
  <2> QED
    BY <1>2, <2>4 DEF NoMore
<1>5. OnHeap(b, v) <=> In(v, h.heap)
  BY <1>1, <1>2 DEF OnHeap, Rng, In
<1>6. CASE In(v, h.heap)
  <2>1. PICK at \in 1..n : h.heap[at] = v
    BY <1>1, <1>6 DEF In
  <2>2. \A i \in 1..n : i # at => h.heap[i] # v
    BY <1>1, <2>1 DEF Once
  <2>3. ASSUME NEW i \in 2..n, Parent(i) = at, at > 1 PROVE NoMore(b, i, Parent(at))
    <3>1. at \in 2..n /\ i # at /\ Parent(at) \in 1..n /\ Parent(at) # at /\ i \in 1..n
      BY <1>1, <1>3, <2>1, <2>3
    <3>2. h.heap[i] # v /\ h.heap[Parent(at)] # v
      BY <2>2, <3>1
    <3>3. h.heap[i] \in Idx \ {v} /\ h.heap[Parent(at)] \in Idx \ {v} /\ h.heap[at] \in Idx
      BY <1>1, <3>1, <3>2, <2>1
    <3>4. h.stab[h.heap[i]] <= h.stab[h.heap[at]] /\ h.stab[h.heap[at]] <= h.stab[h.heap[Parent(at)]]
      BY <1>1, <2>3, <3>1 DEF NoMore
    <3>5. h.stab[h.heap[i]] \in Nat /\ h.stab[h.heap[at]] \in Nat /\ h.stab[h.heap[Parent(at)]] \in Nat
      BY <1>1, <3>3
    <3>6. h.stab[h.heap[i]] <= h.stab[h.heap[Parent(at)]]
      BY ONLY <3>4, <3>5
    <3>7. b.stab[h.heap[i]] = h.stab[h.heap[i]] /\ b.stab[h.heap[Parent(at)]] = h.stab[h.heap[Parent(at)]]
      BY <1>2, <3>3
    <3> QED
      BY <1>2, <3>6, <3>7 DEF NoMore
  <2>4. \A i \in 2..n : i # at => NoMore(b, i, Parent(i))
    BY <1>3, <1>4, <2>2
  <2>5. Rising(b, v, at)
    BY <1>1, <1>2, <2>1, <2>3, <2>4 DEF Rising, n
  <2>6. HeapTree(HeapUpdate(b, v)) /\ SameHeap(b, HeapUpdate(b, v))
    BY <2>5, HeapUpdateFacts
  <2> QED
    BY <1>2, <1>5, <1>6, <2>6 DEF SameHeap, b
<1>7. CASE ~In(v, h.heap)
  <2>1. \A i \in 1..n : h.heap[i] # v
    BY <1>1, <1>7 DEF In
  <2>2. HeapTree(b)
    BY <1>1, <1>2, <1>3, <1>4, <2>1 DEF HeapTree, n
  <2> QED
    BY <1>2, <1>5, <1>7, <2>2 DEF b
<1> QED
  BY <1>6, <1>7

\* Bumping a score.
LEMMA BumpScoreFacts ==
  ASSUME NEW h, HeapTree(h), maxVar \in Nat, Vars \subseteq Idx, NEW v \in Vars
  PROVE  LET e == BumpScore(h, v) IN
         HeapTree(e) /\ (\A w : In(w, e.heap) <=> In(w, h.heap)) /\ (Scaled(h) => Scaled(e))
<1> DEFINE a == IF h.stab[v] + h.inc > ScoreLimit THEN Rescale(h) ELSE h
           x == a.stab[v] + a.inc
           b == [a EXCEPT !.stab[v] = x]
<1>1. h \in Heaps /\ h.stab[v] \in Nat /\ h.inc \in Nat /\ ScoreLimit \in Nat
  BY HeapTypes, DecideAssumption DEF HeapTree
<1>2. /\ HeapTree(a) /\ a.heap = h.heap
      /\ Scaled(h) => Scaled(a) /\ a.stab[v] + a.inc <= ScoreLimit
  <2>1. CASE h.stab[v] + h.inc > ScoreLimit
    <3>1. /\ h.inc > 0 \/ h.stab[v] > 0
          /\ h.inc >= One \/ h.stab[v] >= One
      BY <1>1, <2>1, LimitFacts
    <3> DEFINE r == Rescale(h)
    <3>2. /\ HeapTree(r) /\ r.heap = h.heap
          /\ r.inc <= One /\ r.stab[v] <= One /\ \A w \in Idx : r.stab[w] <= h.stab[w]
      BY <3>1, RescaleFacts
    <3>3. a = r
      BY <2>1
    <3> HIDE DEF r
    <3>4. /\ r.inc \in Nat /\ h.stab[v] \in Nat /\ r.stab[v] \in Nat
          /\ \A w \in Idx : r.stab[w] \in Nat /\ h.stab[w] \in Nat
      BY <1>1, <3>2, HeapTypes DEF HeapTree
    <3>5. r.stab[v] + r.inc <= ScoreLimit /\ r.inc <= ScoreLimit
      BY <3>2, <3>4, LimitFacts
    <3>6. Scaled(h) => Scaled(r)
      <4> SUFFICES ASSUME Scaled(h), NEW w \in Idx PROVE r.stab[w] <= ScoreLimit
        BY <3>5 DEF Scaled
      <4>1. h.stab[w] <= ScoreLimit /\ r.stab[w] <= h.stab[w] /\ r.stab[w] \in Nat /\ h.stab[w] \in Nat
        BY <3>2, <3>4 DEF Scaled
      <4> QED
        BY <1>1, <4>1
    <3> QED
      BY <3>2, <3>3, <3>5, <3>6
  <2>2. CASE ~(h.stab[v] + h.inc > ScoreLimit)
    BY <1>1, <2>2
  <2> QED
    BY <2>1, <2>2
<1> HIDE DEF a
<1>3. v \in Idx /\ x \in Nat /\ a.stab[v] <= x
  <2>1. a.stab[v] \in Nat /\ a.inc \in Nat
    BY <1>2, HeapTypes DEF HeapTree
  <2> QED
    BY <2>1
<1>4. BumpScore(h, v) = IF OnHeap(b, v) THEN HeapUpdate(b, v) ELSE b
  BY DEF BumpScore, a
<1>5. Scaled(h) => x <= ScoreLimit /\ Scaled(a)
  BY <1>2
<1> HIDE DEF x, b
<1> DEFINE e == IF OnHeap(b, v) THEN HeapUpdate(b, v) ELSE b
<1>6. /\ HeapTree(e) /\ \A w : In(w, e.heap) <=> In(w, a.heap)
      /\ e.inc = a.inc /\ e.stab[v] = x /\ \A w \in Idx \ {v} : e.stab[w] = a.stab[w]
  BY <1>2, <1>3, GrowFacts DEF b
<1> HIDE DEF e
<1>7. Scaled(h) => Scaled(e)
  BY <1>5, <1>6 DEF Scaled
<1> QED
  BY <1>2, <1>4, <1>6, <1>7 DEF e

\* Bumping the increment.
LEMMA BumpScoreIncFacts ==
  ASSUME NEW h, HeapTree(h), maxVar \in Nat, Vars \subseteq Idx
  PROVE  LET e == BumpScoreInc(h) IN HeapTree(e) /\ e.heap = h.heap /\ (Scaled(h) => Scaled(e))
<1> DEFINE a == IF 2 * h.inc > ScoreLimit THEN Rescale(h) ELSE h
<1>1. h \in Heaps /\ h.inc \in Nat /\ ScoreLimit \in Nat
  BY HeapTypes, DecideAssumption DEF HeapTree
<1>2. /\ HeapTree(a) /\ a.heap = h.heap
      /\ Scaled(h) => 2 * a.inc <= ScoreLimit /\ \A w \in Idx : a.stab[w] <= ScoreLimit
  <2>1. CASE 2 * h.inc > ScoreLimit
    <3>1. h.inc > 0 /\ h.inc >= One
      BY <1>1, <2>1, LimitFacts
    <3> DEFINE r == Rescale(h)
    <3>2. HeapTree(r) /\ r.heap = h.heap /\ r.inc <= One /\ \A w \in Idx : r.stab[w] <= h.stab[w]
      BY <3>1, RescaleFacts
    <3>3. a = r
      BY <2>1
    <3> HIDE DEF r
    <3>4. r.inc \in Nat /\ \A w \in Idx : r.stab[w] \in Nat /\ h.stab[w] \in Nat
      BY <1>1, <3>2, HeapTypes DEF HeapTree
    <3>5. 2 * r.inc <= ScoreLimit
      BY <3>2, <3>4, LimitFacts
    <3>6. Scaled(h) => \A w \in Idx : r.stab[w] <= ScoreLimit
      <4> SUFFICES ASSUME Scaled(h), NEW w \in Idx PROVE r.stab[w] <= ScoreLimit
        OBVIOUS
      <4>1. h.stab[w] <= ScoreLimit /\ r.stab[w] <= h.stab[w] /\ r.stab[w] \in Nat /\ h.stab[w] \in Nat
        BY <3>2, <3>4 DEF Scaled
      <4> QED
        BY <1>1, <4>1
    <3> QED
      BY <3>2, <3>3, <3>5, <3>6
  <2>2. CASE ~(2 * h.inc > ScoreLimit)
    BY <1>1, <2>2 DEF Scaled
  <2> QED
    BY <2>1, <2>2
<1>3. BumpScoreInc(h) = [a EXCEPT !.inc = 2 * @]
  BY DEF BumpScoreInc
<1> HIDE DEF a
<1> DEFINE e == [a EXCEPT !.inc = 2 * a.inc]
<1>4. a \in Heaps /\ 2 * a.inc \in Nat
  BY <1>2, HeapTypes DEF HeapTree
<1>5. e \in Heaps /\ e.heap = a.heap /\ e.stab = a.stab /\ e.inc = 2 * a.inc
  BY <1>4 DEF Heaps
<1>6. e = [a EXCEPT !.inc = 2 * @]
  BY <1>4 DEF Heaps
<1> HIDE DEF e
<1>7. HeapTree(e)
  BY <1>2, <1>5 DEF HeapTree, NoMore
<1>8. Scaled(h) => Scaled(e)
  BY <1>2, <1>5 DEF Scaled
<1> QED
  BY <1>2, <1>3, <1>5, <1>6, <1>7, <1>8

\* Bumping scores one after the other.
LEMMA BumpScoresFacts ==
  ASSUME NEW h, HeapTree(h), maxVar \in Nat, Vars \subseteq Idx, NEW order \in Seq(Vars)
  PROVE  LET e == Fold(BumpScore, h, order)
         IN  HeapTree(e) /\ (\A w : In(w, e.heap) <=> In(w, h.heap)) /\ (Scaled(h) => Scaled(e))
<1> DEFINE n == Len(order)
           Same(e) == HeapTree(e) /\ (\A w : In(w, e.heap) <=> In(w, h.heap)) /\ (Scaled(h) => Scaled(e))
           D == [i \in 0..n |-> {x \in Heaps : Same(x)}]
<1>1. n \in Nat /\ \A i \in 1..n : order[i] \in Vars
  OBVIOUS
<1> HIDE DEF n
<1>2. h \in D[0]
  <2>1. 0 \in 0..n /\ h \in Heaps
    BY <1>1 DEF HeapTree
  <2> QED
    BY <2>1
<1>3. ASSUME NEW i \in 1..n, NEW x \in D[i - 1] PROVE BumpScore(x, order[i]) \in D[i]
  <2>1. i - 1 \in 0..n /\ i \in 0..n
    BY <1>1
  <2>2. Same(x)
    <3> HIDE DEF Same
    <3> QED
      BY <2>1
  <2> DEFINE e == BumpScore(x, order[i])
  <2>3. HeapTree(e) /\ (\A w : In(w, e.heap) <=> In(w, x.heap)) /\ (Scaled(x) => Scaled(e))
    BY <1>1, <2>2, BumpScoreFacts
  <2> HIDE DEF e
  <2>4. e \in Heaps /\ Same(e)
    BY <2>2, <2>3 DEF HeapTree
  <2> HIDE DEF Same
  <2> QED
    BY <2>1, <2>4 DEF e
<1>4. Fold(BumpScore, h, order) \in D[n]
  <2> HIDE DEF D
  <2> QED
    BY <1>1, <1>2, <1>3, BumpScoreStages DEF n
<1>5. n \in 0..n
  BY <1>1
<1> HIDE DEF Same
<1> QED
  BY <1>4, <1>5 DEF Same

\* Pushing new variables one after the other.
LEMMA PushAllFacts ==
  ASSUME NEW h \in Heaps, h.heap = <<>>, NEW M, M \subseteq Idx, NEW order, Arranges(order, M)
  PROVE  LET e == Fold(PushBack, h, order)
         IN  HeapTree(e) /\ e.stab = h.stab /\ e.inc = h.inc /\ \A w : In(w, e.heap) <=> w \in M
<1> DEFINE n == Len(order)
           F(i) == {order[k] : k \in 1..i}
           Same(e, i) == HeapTree(e) /\ e.stab = h.stab /\ e.inc = h.inc /\ \A w : In(w, e.heap) <=> w \in F(i)
           D == [i \in 0..n |-> {x \in Heaps : Same(x, i)}]
<1>1. /\ n \in Nat /\ \A i \in 1..n : order[i] \in M
      /\ \A w \in M : \E k \in 1..n : order[k] = w
      /\ \A j, k \in 1..n : order[j] = order[k] => j = k
  BY DEF Arranges
<1> HIDE DEF n
<1>2. h \in D[0]
  <2>1. 0 \in 0..n /\ F(0) = {}
    BY <1>1
  <2>2. HeapTree(h) /\ \A w : ~In(w, h.heap)
    BY DEF HeapTree, Once, In
  <2>3. Same(h, 0)
    BY <2>1, <2>2
  <2> HIDE DEF Same
  <2> QED
    BY <2>1, <2>3
<1>3. ASSUME NEW i \in 1..n, NEW x \in D[i - 1] PROVE PushBack(x, order[i]) \in D[i]
  <2>1. i - 1 \in 0..n /\ i \in 0..n
    BY <1>1
  <2>2. Same(x, i - 1)
    <3> HIDE DEF Same
    <3> QED
      BY <2>1
  <2>3. F(i) = F(i - 1) \cup {order[i]}
    <3>1. 1..i = (1..i - 1) \cup {i}
      OBVIOUS
    <3> QED
      BY <3>1
  <2>4. order[i] \in Idx /\ order[i] \notin F(i - 1)
    <3>1. \A k \in 1..i - 1 : k \in 1..n /\ k # i
      BY <1>1
    <3> QED
      BY <1>1, <3>1
  <2> HIDE DEF F
  <2> DEFINE e == PushBack(x, order[i])
  <2>5. HeapTree(e) /\ e.stab = x.stab /\ e.inc = x.inc /\ \A w : In(w, e.heap) <=> w = order[i] \/ In(w, x.heap)
    BY <2>2, <2>4, PushBackFacts
  <2> HIDE DEF e
  <2>6. e \in Heaps /\ Same(e, i)
    BY <2>2, <2>3, <2>5 DEF HeapTree
  <2> HIDE DEF Same
  <2> QED
    BY <2>1, <2>6 DEF e
<1>4. Fold(PushBack, h, order) \in D[n]
  <2> HIDE DEF D
  <2> QED
    BY <1>1, <1>2, <1>3, PushStages DEF n
<1>5. n \in 0..n /\ F(n) = M
  BY <1>1
<1>6. Same(Fold(PushBack, h, order), n)
  <2> HIDE DEF Same, F
  <2> QED
    BY <1>4, <1>5
<1> HIDE DEF F
<1> QED
  BY <1>5, <1>6

\* Filling the heap in a new order, with new scores.
LEMMA ShuffleScoresFacts ==
  ASSUME NEW h \in Heaps, NEW M, M \subseteq Idx, NEW order, Arranges(order, M)
  PROVE  LET e == ShuffleScores(h, order)
         IN  /\ HeapTree(e) /\ (\A w : In(w, e.heap) <=> w \in M) /\ (Scaled(h) => Scaled(e))
             /\ M # {} => e.inc > 0
             /\ \A w \in M : e.stab[w] <= e.inc
             /\ \A w \in Idx \ M : e.stab[w] = h.stab[w]
<1> DEFINE n == Len(order)
           F(i) == {order[k] : k \in 1..i}
           Same(e, i) == /\ HeapTree(e) /\ \A w : In(w, e.heap) <=> w \in F(i)
                         /\ e.inc = i * One
                         /\ Scaled(h) => \A w \in Idx : e.stab[w] <= ScoreLimit
                         /\ \A w \in F(i) : e.stab[w] <= e.inc
                         /\ \A w \in Idx \ M : e.stab[w] = h.stab[w]
           D == [i \in 0..n |-> {x \in Heaps : Same(x, i)}]
           z == [h EXCEPT !.heap = <<>>, !.inc = 0]
<1>1. /\ n \in Nat /\ \A i \in 1..n : order[i] \in M
      /\ \A w \in M : \E k \in 1..n : order[k] = w
      /\ \A j, k \in 1..n : order[j] = order[k] => j = k
      /\ One \in Nat
  BY DecideAssumption DEF Arranges
<1>0. n \in 0..MaxVar
  <2>1. order \in [1..n -> Idx]
    BY <1>1 DEF Arranges
  <2>2. order \in Injection(1..n, Idx)
    BY <1>1, <2>1 DEF Injection, IsInjective
  <2>3. \A k \in Nat : IsFiniteSet(1..k) /\ Cardinality(1..k) = k
    BY FS_Interval
  <2>4. IsFiniteSet(Idx) /\ Cardinality(Idx) = MaxVar /\ Cardinality(1..n) = n
    BY <1>1, <2>3, LimitFacts DEF Idx
  <2>5. Cardinality(1..n) <= Cardinality(Idx)
    BY <2>2, <2>4, FS_Injection
  <2> QED
    BY <1>1, <2>4, <2>5
<1> HIDE DEF n
<1>2. z \in D[0]
  <2>1. 0 \in 0..n /\ F(0) = {}
    BY <1>1
  <2>2. z \in Heaps /\ z.heap = <<>> /\ z.inc = 0 * One /\ z.stab = h.stab
    <3> DEFINE y == [h EXCEPT !.heap = <<>>]
    <3>1. h.stab \in [Idx -> Nat] /\ <<>> \in Seq(Idx)
      BY HeapTypes
    <3>2. y \in Heaps /\ y.heap = <<>> /\ y.stab = h.stab
      BY <3>1 DEF Heaps
    <3>3. z = [y EXCEPT !.inc = 0]
      OBVIOUS
    <3>4. 0 * One = 0
      BY <1>1
    <3> HIDE DEF y, z
    <3> QED
      BY <3>2, <3>3, <3>4 DEF Heaps
  <2> HIDE DEF z, F
  <2>3. HeapTree(z) /\ \A w : ~In(w, z.heap)
    BY <2>2 DEF HeapTree, Once, In
  <2>4. Same(z, 0)
    BY <2>1, <2>2, <2>3 DEF Scaled
  <2> HIDE DEF Same
  <2> QED
    BY <2>1, <2>2, <2>4
<1>3. ASSUME NEW i \in 1..n, NEW x \in D[i - 1] PROVE PushAsBest(x, order[i]) \in D[i]
  <2>1. i - 1 \in 0..n /\ i \in 0..n
    BY <1>1
  <2>2. Same(x, i - 1) /\ x \in Heaps
    <3> HIDE DEF Same
    <3> QED
      BY <2>1
  <2>3. F(i) = F(i - 1) \cup {order[i]}
    <3>1. 1..i = (1..i - 1) \cup {i}
      OBVIOUS
    <3> QED
      BY <3>1
  <2> DEFINE v == order[i]
             y == [x EXCEPT !.stab[v] = x.inc, !.inc = @ + One]
             st == [x.stab EXCEPT ![v] = x.inc]
             e == PushBack(y, v)
  <2>4. v \in Idx /\ v \notin F(i - 1)
    <3>1. \A k \in 1..i - 1 : k \in 1..n /\ k # i
      BY <1>1
    <3> QED
      BY <1>1, <3>1
  <2> HIDE DEF F, v
  <2>5. /\ x.heap \in Seq(Idx) /\ x.stab \in [Idx -> Nat] /\ x.inc \in Nat /\ Once(x.heap)
        /\ Len(x.heap) \in Nat /\ DOMAIN x.heap = 1..Len(x.heap)
        /\ \A k \in 1..Len(x.heap) : x.heap[k] \in Idx /\ x.heap[k] # v
        /\ \A k \in 2..Len(x.heap) : NoMore(x, k, Parent(k))
    <3>1. HeapTree(x) /\ ~In(v, x.heap)
      BY <2>2, <2>4
    <3>2. Once(x.heap) /\ \A k \in 2..Len(x.heap) : NoMore(x, k, Parent(k))
      BY <3>1 DEF HeapTree
    <3> QED
      BY <2>2, <3>1, <3>2, HeapTypes DEF In
  <2>6. st \in [Idx -> Nat] /\ x.inc + One \in Nat /\ \A w \in Idx : w # v => st[w] = x.stab[w]
    BY <1>1, <2>4, <2>5
  <2>7. y = [x EXCEPT !.stab = st, !.inc = x.inc + One]
    BY <2>2 DEF Heaps
  <2> HIDE DEF st, y
  <2>8. y \in Heaps /\ y.heap = x.heap /\ y.stab = st /\ y.inc = x.inc + One
    BY <2>2, <2>6, <2>7 DEF Heaps
  <2>9. HeapTree(y)
    <3> SUFFICES ASSUME NEW k \in 2..Len(x.heap) PROVE NoMore(y, k, Parent(k))
      BY <2>5, <2>8 DEF HeapTree
    <3>1. k \in 1..Len(x.heap) /\ k > 1
      BY <2>5
    <3>2. Parent(k) \in 1..Len(x.heap)
      BY <2>5, <3>1, ParentIn
    <3>3. NoMore(x, k, Parent(k))
      BY <2>5
    <3> QED
      BY <2>5, <2>6, <2>8, <3>1, <3>2, <3>3 DEF NoMore
  <2>10. HeapTree(e) /\ e.stab = y.stab /\ e.inc = y.inc /\ \A w : In(w, e.heap) <=> w = v \/ In(w, x.heap)
    <3>1. ~In(v, y.heap)
      BY <2>2, <2>4, <2>8
    <3> QED
      BY <2>4, <2>8, <2>9, <3>1, PushBackFacts
  <2> HIDE DEF e
  <2>13. e.inc = i * One
    <3>1. x.inc = (i - 1) * One /\ i \in Int
      BY <2>2
    <3>2. (i - 1) * One + One = i * One
      BY <1>1, <3>1
    <3> QED
      BY <2>8, <2>10, <3>1, <3>2
  <2>14. Scaled(h) => \A w \in Idx : e.stab[w] <= ScoreLimit
    <3>1. i - 1 \in 0..MaxVar
      BY <1>0, <1>1, LimitFacts
    <3>2. x.inc <= ScoreLimit
      BY <2>2, <3>1, LimitFacts
    <3>3. \A w \in Idx : st[w] = IF w = v THEN x.inc ELSE x.stab[w]
      BY <2>5 DEF st
    <3> QED
      BY <2>2, <2>8, <2>10, <3>2, <3>3
  <2>15. HeapTree(e) /\ \A w : In(w, e.heap) <=> w \in F(i)
    BY <2>2, <2>3, <2>10 DEF v
  <2>16. \A w \in F(i) : e.stab[w] <= e.inc
    <3>1. \A w \in Idx : st[w] = IF w = v THEN x.inc ELSE x.stab[w]
      BY <2>5 DEF st
    <3>2. e.inc = x.inc + One /\ e.stab = st
      BY <2>8, <2>10
    <3>3. \A w \in F(i - 1) : w \in Idx
      BY <1>1 DEF F
    <3>4. \A w \in F(i - 1) : x.stab[w] \in Nat /\ x.stab[w] <= x.inc
      BY <2>2, <2>5, <3>3
    <3>5. x.inc \in Nat /\ x.inc <= x.inc + One
      BY <1>1, <2>5
    <3>6. st[v] <= x.inc + One
      BY <2>4, <3>1, <3>5
    <3>7. \A w \in F(i - 1) : st[w] <= x.inc + One
      BY <1>1, <3>1, <3>3, <3>4, <3>5
    <3>8. \A w \in F(i) : w = v \/ w \in F(i - 1)
      BY <2>3 DEF v
    <3> QED
      BY <3>2, <3>6, <3>7, <3>8
  <2>17. \A w \in Idx \ M : e.stab[w] = h.stab[w]
    <3>1. v \in M
      BY <1>1 DEF v
    <3>2. \A w \in Idx \ M : st[w] = x.stab[w] /\ x.stab[w] = h.stab[w]
      BY <2>2, <2>6, <3>1
    <3> QED
      BY <2>8, <2>10, <3>2
  <2>11. e \in Heaps /\ Same(e, i)
    BY <2>13, <2>14, <2>15, <2>16, <2>17 DEF HeapTree
  <2> HIDE DEF Same
  <2>12. e = PushAsBest(x, order[i])
    BY DEF e, y, v, PushAsBest
  <2> QED
    BY <2>1, <2>11, <2>12
<1>4. ShuffleScores(h, order) \in D[n]
  <2> HIDE DEF D
  <2> QED
    BY <1>1, <1>2, <1>3, ShuffleScoreStages DEF n, z
<1>5. n \in 0..n /\ F(n) = M
  BY <1>1
<1>6. Same(ShuffleScores(h, order), n)
  <2> HIDE DEF Same, F
  <2> QED
    BY <1>4, <1>5
<1> HIDE DEF F
<1>7. Scaled(h) => Scaled(ShuffleScores(h, order))
  <2>1. n * One <= ScoreLimit
    BY <1>0, LimitFacts
  <2> QED
    BY <1>6, <2>1 DEF Scaled
<1>8. M # {} => n * One > 0
  <2> SUFFICES ASSUME M # {} PROVE n * One > 0
    OBVIOUS
  <2>1. n >= 1
    BY <1>1
  <2>2. n - 1 \in Nat /\ (n - 1) * One >= 0 /\ (n - 1) * One = n * One - One /\ n * One \in Int
    BY <1>1, <2>1
  <2> QED
    BY <2>2, LimitFacts
<1> QED
  BY <1>5, <1>6, <1>7, <1>8

-----------------------------------------------------------------------------
(* Queue and heap together.                                                *)

\* The heap d holds variables of M, and all those of U.
HeapOK(d, M, U) ==
  /\ HeapTree(d) /\ \A w : In(w, d.heap) => w \in M
  /\ \A u \in U : In(u, d.heap)

\* The queue and the heap of x find the variables of U.
Ready(x, E, M, U) == QueueOK(x.q, E, U) /\ HeapOK(x.s, M, U)

\* A variable becomes unassigned.
LEMMA UnassignFacts ==
  ASSUME NEW x, NEW E, NEW M, NEW U, Ready(x, E, M, U), NEW v \in E, E \subseteq M
  PROVE  LET e == Unassign(x, v) IN
         /\ e \in [q : Queues, s : Heaps] /\ Ready(e, E, M, U \cup {v})
         /\ e.q.btab = x.q.btab /\ (Grounded(x.q, E) => Grounded(e.q, E))
         /\ e.s.stab = x.s.stab /\ e.s.inc = x.s.inc
<1> DEFINE d == IF x.q.bumped < x.q.btab[v] THEN UpdateQueueUnassigned(x.q, v) ELSE x.q
           h == IF OnHeap(x.s, v) THEN x.s ELSE PushBack(x.s, v)
           e == Unassign(x, v)
<1>1. e.q = d /\ e.s = h /\ e = [q |-> d, s |-> h]
  BY DEF Unassign
<1>2. QueueOK(d, E, U \cup {v}) /\ d.btab = x.q.btab /\ (Grounded(x.q, E) => Grounded(d, E))
  BY UnassignQueue DEF Ready
<1>3. /\ HeapTree(x.s) /\ \A w : In(w, x.s.heap) => w \in M
      /\ \A u \in U : In(u, x.s.heap)
  BY DEF Ready, HeapOK
<1>4. v \in Idx /\ v \in M /\ d \in Queues
  BY <1>2, QueueTypes
<1>5. OnHeap(x.s, v) <=> In(v, x.s.heap)
  BY DEF OnHeap, Rng, In
<1>6. HeapOK(h, M, U \cup {v}) /\ h.stab = x.s.stab /\ h.inc = x.s.inc
  <2>1. CASE OnHeap(x.s, v)
    BY <1>3, <1>5, <2>1 DEF HeapOK
  <2>2. CASE ~OnHeap(x.s, v)
    <3> DEFINE p == PushBack(x.s, v)
    <3>1. HeapTree(p) /\ p.stab = x.s.stab /\ p.inc = x.s.inc /\ \A w : In(w, p.heap) <=> w = v \/ In(w, x.s.heap)
      BY <1>3, <1>4, <1>5, <2>2, PushBackFacts
    <3> HIDE DEF p
    <3>2. HeapOK(p, M, U \cup {v})
      BY <1>3, <1>4, <3>1 DEF HeapOK
    <3> QED
      BY <2>2, <3>1, <3>2 DEF p
  <2> QED
    BY <2>1, <2>2
<1>7. h \in Heaps
  BY <1>6 DEF HeapOK, HeapTree
<1> HIDE DEF d, h, e
<1> QED
  BY <1>1, <1>2, <1>4, <1>6, <1>7 DEF Ready, e

\* The variables of the trail that tr leaves unassigned.
Released(tr) == {v \in {VarOf(t.trail[k].lit) : k \in 1..Len(t.trail)} : ~Assigned(tr, v)}

\* Backtracking gives variables back to the queue and the heap.
LEMMA UndoFacts ==
  ASSUME NEW d, NEW h, NEW tr, NEW E, NEW M, NEW U, Ready([q |-> d, s |-> h], E, M, U),
         E \subseteq M, Len(t.trail) \in Nat, Released(tr) \subseteq E
  PROVE  LET e == Undo(d, h, tr) IN
         /\ Ready(e, E, M, U \cup Released(tr))
         /\ e.q.btab = d.btab /\ (Grounded(d, E) => Grounded(e.q, E))
         /\ e.s.stab = h.stab /\ e.s.inc = h.inc
<1> DEFINE n == Len(t.trail)
           W(i) == U \cup {v \in {VarOf(t.trail[k].lit) : k \in 1..i} : ~Assigned(tr, v)}
           Fits(e, i) == Ready(e, E, M, W(i)) /\ e.q.btab = d.btab
                         /\ (Grounded(d, E) => Grounded(e.q, E))
                         /\ e.s.stab = h.stab /\ e.s.inc = h.inc
           D == [i \in 0..n |-> {x \in [q : Queues, s : Heaps] : Fits(x, i)}]
           z == [q |-> d, s |-> h]
<1>1. n \in Nat
  OBVIOUS
<1> HIDE DEF n
<1>2. z \in D[0]
  <2>1. 0 \in 0..n /\ W(0) = U
    BY <1>1
  <2>2. z.q = d /\ z.s = h
    OBVIOUS
  <2>3. QueueOK(d, E, U) /\ HeapOK(h, M, U)
    BY <2>2 DEF Ready
  <2>4. d \in Queues /\ h \in Heaps
    BY <2>3, QueueTypes DEF HeapOK, HeapTree
  <2>5. z \in [q : Queues, s : Heaps]
    BY <2>4
  <2> HIDE DEF z, W
  <2>6. Fits(z, 0)
    BY <2>1, <2>2, <2>3 DEF Ready
  <2> HIDE DEF Fits
  <2> QED
    BY <2>1, <2>5, <2>6
<1>3. ASSUME NEW i \in 1..n, NEW x \in D[i - 1]
      PROVE  (LET v == VarOf(t.trail[i].lit) IN IF Assigned(tr, v) THEN x ELSE Unassign(x, v)) \in D[i]
  <2> DEFINE v == VarOf(t.trail[i].lit)
  <2>1. i - 1 \in 0..n /\ i \in 0..n
    BY <1>1
  <2>2. Fits(x, i - 1) /\ x \in [q : Queues, s : Heaps]
    <3> HIDE DEF Fits
    <3> QED
      BY <2>1
  <2>3. 1..i = (1..i - 1) \cup {i}
    OBVIOUS
  <2>4. CASE Assigned(tr, v)
    <3>1. W(i) = W(i - 1)
      BY <2>3, <2>4
    <3> HIDE DEF W
    <3>2. Fits(x, i)
      BY <2>2, <3>1
    <3> HIDE DEF Fits
    <3> QED
      BY <2>1, <2>2, <2>4, <3>2
  <2>5. CASE ~Assigned(tr, v)
    <3>1. W(i) = W(i - 1) \cup {v}
      BY <2>3, <2>5
    <3>2. v \in E
      <4>1. i \in 1..Len(t.trail)
        BY DEF n
      <4> QED
        BY <2>5, <4>1 DEF Released
    <3> HIDE DEF W
    <3> DEFINE e == Unassign(x, v)
    <3>3. /\ e \in [q : Queues, s : Heaps] /\ Ready(e, E, M, W(i - 1) \cup {v})
          /\ e.q.btab = x.q.btab /\ (Grounded(x.q, E) => Grounded(e.q, E))
          /\ e.s.stab = x.s.stab /\ e.s.inc = x.s.inc
      BY <2>2, <3>2, UnassignFacts
    <3> HIDE DEF e
    <3>4. Fits(e, i)
      BY <2>2, <3>1, <3>3
    <3> HIDE DEF Fits
    <3> QED
      BY <2>1, <2>5, <3>3, <3>4 DEF e
  <2> QED
    BY <2>4, <2>5
<1>4. Undo(d, h, tr) \in D[n]
  <2> HIDE DEF D
  <2> QED
    BY <1>1, <1>2, <1>3, UndoStages DEF n, z
<1>5. n \in 0..n /\ W(n) = U \cup Released(tr)
  BY <1>1 DEF Released, n
<1>6. Fits(Undo(d, h, tr), n)
  <2> HIDE DEF Fits
  <2> QED
    BY <1>4, <1>5
<1> HIDE DEF W
<1> QED
  BY <1>5, <1>6

\* A new variable is found.
LEMMA NewVariableFacts ==
  ASSUME NEW x, NEW E, NEW M, NEW U, Ready(x, E, M, U), Grounded(x.q, E), E \subseteq M,
         NEW v \in Idx, v \notin M, opts.reverse \in BOOLEAN
  PROVE  LET e == NewVariable(x, v) IN
         /\ e \in [q : Queues, s : Heaps]
         /\ Ready(e, E \cup {v}, M \cup {v}, U \cup {v}) /\ Grounded(e.q, E \cup {v})
         /\ e.s.stab = x.s.stab /\ e.s.inc = x.s.inc
<1> DEFINE d == InitEnqueue(x.q, v)
           p == PushBack(x.s, v)
           e == NewVariable(x, v)
<1>1. e.q = d /\ e.s = p /\ e = [q |-> d, s |-> p]
  BY DEF NewVariable
<1>2. QueueOK(d, E \cup {v}, U \cup {v}) /\ Grounded(d, E \cup {v})
  BY InitEnqueueFacts DEF Ready
<1>3. /\ HeapTree(x.s) /\ \A w : In(w, x.s.heap) => w \in M
      /\ \A u \in U : In(u, x.s.heap)
  BY DEF Ready, HeapOK
<1>4. HeapTree(p) /\ p.stab = x.s.stab /\ p.inc = x.s.inc /\ \A w : In(w, p.heap) <=> w = v \/ In(w, x.s.heap)
  BY <1>3, PushBackFacts
<1> HIDE DEF d, p, e
<1>5. HeapOK(p, M \cup {v}, U \cup {v})
  BY <1>3, <1>4 DEF HeapOK
<1>6. d \in Queues /\ p \in Heaps
  BY <1>2, <1>4, QueueTypes DEF HeapTree
<1> QED
  BY <1>1, <1>2, <1>4, <1>5, <1>6 DEF Ready, e

-----------------------------------------------------------------------------
(* The trail.                                                              *)

\* A trail whose literals are of the first n variables: no variable is on it
\* twice, and a literal lies above the start of its level.
Stack(tr, n) ==
  /\ tr \in Trails /\ Distinct(tr)
  /\ \A k \in Positions(tr) :
       /\ VarOf(tr.trail[k].lit) \in 1..n /\ tr.trail[k].level <= Level(tr)
       /\ \A i \in 1..tr.trail[k].level : tr.control[i].trail < k
  /\ \A i \in 1..Level(tr) :
       /\ tr.control[i].trail <= Len(tr.trail)
       /\ \A j \in i..Level(tr) : tr.control[i].trail <= tr.control[j].trail

\* The first n variables that are not assigned.
Free(tr, n) == {v \in 1..n : ~Assigned(tr, v)}

\* The variable of a literal.
LEMMA VarFacts ==
  ASSUME NEW l \in Int
  PROVE  /\ VarOf(l) \in Nat /\ l \in {VarOf(l), -VarOf(l)} /\ VarOf(l) \in Int
         /\ VarOf(-l) = VarOf(l) /\ (l = 0 <=> VarOf(l) = 0)
         /\ \A v \in Nat : VarOf(v) = v /\ VarOf(-v) = v
         /\ Sign(l) \in {1, -1} /\ l = Sign(l) * VarOf(l)
BY DEF VarOf, Sign

\* A variable is assigned if it is on the trail.
LEMMA StackFacts ==
  ASSUME NEW tr, NEW n \in Nat, Stack(tr, n)
  PROVE  /\ \A k \in Positions(tr) :
              LET l == tr.trail[k].lit IN
              /\ l \in Int /\ VarOf(l) \in 1..n
              /\ Assigned(tr, l) /\ Assigned(tr, VarOf(l))
              /\ LevelOf(tr, l) = tr.trail[k].level
              /\ LevelOf(tr, VarOf(l)) = tr.trail[k].level
         /\ \A l \in Int : Assigned(tr, l) => /\ VarOf(l) \in 1..n /\ LevelOf(tr, l) \in 0..Level(tr)
                                              /\ \E k \in Positions(tr) : VarOf(tr.trail[k].lit) = VarOf(l)
         /\ \A l \in Int : /\ Assigned(tr, l) <=> Assigned(tr, VarOf(l))
                           /\ Assigned(tr, l) => LevelOf(tr, l) = LevelOf(tr, VarOf(l))
<1>1. tr \in Trails /\ Distinct(tr)
  BY DEF Stack
<1>2. ASSUME NEW l \in Int
      PROVE  /\ Assigned(tr, l) <=> Assigned(tr, VarOf(l))
             /\ Assigned(tr, l) => LevelOf(tr, l) = LevelOf(tr, VarOf(l))
  <2>1. VarOf(l) \in {l, -l}
    BY DEF VarOf
  <2> QED
    BY <1>1, <2>1, Values DEF Assigned
<1>3. ASSUME NEW k \in Positions(tr)
      PROVE  LET l == tr.trail[k].lit IN
             /\ l \in Int /\ VarOf(l) \in 1..n /\ Assigned(tr, l) /\ LevelOf(tr, l) = tr.trail[k].level
  <2>1. tr.trail[k].lit \in Int
    BY <1>1, TrailTypes
  <2>2. Val(tr, tr.trail[k].lit) = 1 /\ LevelOf(tr, tr.trail[k].lit) = tr.trail[k].level
    BY <1>1, AtPosition
  <2> QED
    BY <2>1, <2>2 DEF Assigned, Stack
<1>4. ASSUME NEW l \in Int, Assigned(tr, l)
      PROVE  /\ VarOf(l) \in 1..n /\ LevelOf(tr, l) \in 0..Level(tr)
             /\ \E k \in Positions(tr) : VarOf(tr.trail[k].lit) = VarOf(l)
  <2> DEFINE k == Pos(tr, l)
  <2>1. /\ k \in Positions(tr) /\ LevelOf(tr, l) = tr.trail[k].level
        /\ tr.trail[k].lit = l \/ tr.trail[k].lit = -l
    BY <1>1, <1>4, Values DEF Assigned
  <2>2. VarOf(tr.trail[k].lit) = VarOf(l)
    BY <2>1, VarFacts
  <2> HIDE DEF k
  <2>3. /\ VarOf(tr.trail[k].lit) \in 1..n /\ tr.trail[k].level <= Level(tr)
    BY <2>1 DEF Stack
  <2>4. tr.trail[k].level \in Nat /\ Level(tr) \in Nat
    BY <1>1, <2>1, TrailTypes
  <2> QED
    BY <2>1, <2>2, <2>3, <2>4
<1> QED
  BY <1>2, <1>3, <1>4

\* A literal that is not assigned is put on the trail at a level it has.
LEMMA StackOnTop ==
  ASSUME NEW tr, NEW n \in Nat, Stack(tr, n), NEW l \in Int, VarOf(l) \in 1..n, ~Assigned(tr, l),
         NEW lev \in 0..Level(tr)
  PROVE  LET u == SaveAssign(tr, l, lev) IN
         /\ Stack(u, n) /\ Level(u) = Level(tr) /\ u.control = tr.control
         /\ Free(u, n) = Free(tr, n) \ {VarOf(l)}
         /\ Positions(u) = Positions(tr) \cup {Len(tr.trail) + 1}
         /\ \A k \in Positions(tr) : u.trail[k] = tr.trail[k]
         /\ u.trail[Len(tr.trail) + 1].lit = l
         /\ \A k \in Int : Assigned(tr, k) => Val(u, k) = Val(tr, k) /\ LevelOf(u, k) = LevelOf(tr, k)
<1> DEFINE u == SaveAssign(tr, l, lev)
           e == [lit |-> l, level |-> lev, reason |-> NoReason]
           m == Len(tr.trail)
<1>1. /\ tr \in Trails /\ Distinct(tr) /\ m \in Nat /\ Level(tr) \in Nat
      /\ tr.trail \in Seq(Assignments) /\ tr.propagated \in Nat /\ tr.control \in Seq(Controls)
  BY TrailTypes DEF Stack, Trails
<1>2. e \in Assignments /\ e.lit = l /\ e.level = lev
  BY <1>1 DEF Assignments, NoReason
<1>3. u = [trail |-> Append(tr.trail, e), control |-> tr.control, propagated |-> tr.propagated]
  BY <1>1, TrailFields DEF SaveAssign
<1>4. u \in Trails /\ OnTop(tr, u, e) /\ u.control = tr.control /\ Level(u) = Level(tr)
  <2> HIDE DEF e
  <2> QED
    BY <1>1, <1>2, <1>3 DEF Trails, OnTop, Level
<1>5. l # 0 /\ Val(tr, l) = 0
  BY DEF VarOf, Assigned
<1> HIDE DEF u, e
<1>6. /\ Len(u.trail) = m + 1 /\ Positions(u) = Positions(tr) \cup {m + 1}
      /\ \A k \in Positions(tr) : u.trail[k] = tr.trail[k]
      /\ u.trail[m + 1] = e /\ Distinct(u)
      /\ \A k \in Int :
           IF Val(tr, k) # 0
           THEN Val(u, k) = Val(tr, k) /\ Pos(u, k) = Pos(tr, k) /\ LevelOf(u, k) = LevelOf(tr, k)
           ELSE Val(u, k) = IF k = l THEN 1 ELSE IF k = -l THEN -1 ELSE 0
  BY <1>1, <1>2, <1>4, <1>5, OnTopView
<1>7. Free(u, n) = Free(tr, n) \ {VarOf(l)}
  <2>1. \A v \in 1..n : v \in Int /\ (v = VarOf(l) <=> v = l \/ v = -l)
    BY DEF VarOf
  <2> QED
    BY <1>6, <2>1 DEF Free, Assigned
<1>8. Stack(u, n)
  <2>1. ASSUME NEW k \in Positions(u)
        PROVE  /\ VarOf(u.trail[k].lit) \in 1..n /\ u.trail[k].level <= Level(u)
               /\ \A i \in 1..u.trail[k].level : u.control[i].trail < k
    <3>1. CASE k \in Positions(tr)
      BY <1>4, <1>6, <3>1 DEF Stack
    <3>2. CASE k = m + 1
      <4>1. \A i \in 1..lev : i \in 1..Level(tr)
        BY <1>1
      <4>2. \A i \in 1..Level(tr) : tr.control[i].trail \in Nat /\ tr.control[i].trail <= m
        BY <1>1, TrailTypes DEF Stack
      <4> QED
        BY <1>1, <1>2, <1>4, <1>6, <3>2, <4>1, <4>2, SMTT(30)
    <3> QED
      BY <1>6, <3>1, <3>2
  <2>2. ASSUME NEW i \in 1..Level(u)
        PROVE  /\ u.control[i].trail <= Len(u.trail)
               /\ \A j \in i..Level(u) : u.control[i].trail <= u.control[j].trail
    <3>1. tr.control[i].trail \in Nat /\ tr.control[i].trail <= m
      BY <1>1, <1>4, TrailTypes DEF Stack
    <3> QED
      BY <1>1, <1>4, <1>6, <3>1, SMTT(30) DEF Stack
  <2> QED
    BY <1>4, <1>6, <2>1, <2>2 DEF Stack
<1> QED
  BY <1>2, <1>4, <1>6, <1>7, <1>8 DEF Assigned, u

\* More variables.
LEMMA StackMore ==
  ASSUME NEW tr, NEW n \in Nat, Stack(tr, n)
  PROVE  Stack(tr, n + 1) /\ Free(tr, n + 1) = Free(tr, n) \cup {n + 1}
<1>1. 1..n \subseteq 1..n + 1 /\ 1..n + 1 = (1..n) \cup {n + 1}
  OBVIOUS
<1>2. Stack(tr, n + 1)
  BY <1>1 DEF Stack
<1>3. ~Assigned(tr, n + 1)
  <2>1. n + 1 \in Int /\ VarOf(n + 1) = n + 1 /\ n + 1 \notin 1..n
    BY DEF VarOf
  <2> QED
    BY <2>1, StackFacts
<1> QED
  BY <1>1, <1>2, <1>3 DEF Free

\* A decision.
LEMMA StackDecide ==
  ASSUME NEW tr, NEW n \in Nat, Stack(tr, n), NEW l \in Int, VarOf(l) \in 1..n, ~Assigned(tr, l)
  PROVE  LET u == AssumeDecision(tr, l) IN
         /\ Stack(u, n) /\ Level(u) = Level(tr) + 1
         /\ u.control[Len(u.control)].decision = l /\ Len(u.control) > 0
         /\ Free(u, n) = Free(tr, n) \ {VarOf(l)}
         /\ Positions(u) = Positions(tr) \cup {Len(tr.trail) + 1}
         /\ \A k \in Positions(tr) : u.trail[k] = tr.trail[k]
         /\ u.trail[Len(tr.trail) + 1].lit = l
         /\ \A k \in Int : Assigned(tr, k) => Val(u, k) = Val(tr, k) /\ LevelOf(u, k) = LevelOf(tr, k)
<1> DEFINE m == Len(tr.trail)
           c == [trail |-> m, decision |-> l]
           x == [trail |-> tr.trail, control |-> Append(tr.control, c),
                 propagated |-> tr.propagated]
           u == AssumeDecision(tr, l)
<1>1. /\ tr \in Trails /\ Distinct(tr) /\ m \in Nat /\ Level(tr) \in Nat
      /\ tr.trail \in Seq(Assignments) /\ tr.propagated \in Nat /\ tr.control \in Seq(Controls)
  BY TrailTypes DEF Stack, Trails
<1>2. c \in Controls /\ c.trail = m /\ c.decision = l
  BY <1>1 DEF Controls
<1>3. x = NewTrailLevel(tr, l)
  BY <1>1, TrailFields DEF NewTrailLevel
<1>4. /\ x.trail = tr.trail /\ x.control = Append(tr.control, c) /\ x.propagated = tr.propagated
  OBVIOUS
<1> HIDE DEF c, x
<1>5. /\ x \in Trails /\ Len(x.control) = Level(tr) + 1 /\ x.control[Level(tr) + 1] = c
      /\ \A i \in 1..Level(tr) : x.control[i] = tr.control[i]
  <2>1. /\ Append(tr.control, c) \in Seq(Controls)
        /\ Len(Append(tr.control, c)) = Level(tr) + 1
        /\ Append(tr.control, c)[Level(tr) + 1] = c
        /\ \A i \in 1..Level(tr) : Append(tr.control, c)[i] = tr.control[i]
    BY <1>1, <1>2 DEF Level
  <2>2. x = [trail |-> tr.trail, control |-> Append(tr.control, c), propagated |-> tr.propagated]
    BY DEF x
  <2>3. x \in Trails
    BY <1>1, <2>1, <2>2 DEF Trails
  <2> QED
    BY <1>4, <2>1, <2>3
<1>6. /\ Positions(x) = Positions(tr) /\ Level(x) = Level(tr) + 1
      /\ \A k \in Int : Val(x, k) = Val(tr, k) /\ LevelOf(x, k) = LevelOf(tr, k)
  BY <1>4, <1>5 DEF Positions, Level, Val, TrueLits, LevelOf, Pos
<1>7. Free(x, n) = Free(tr, n)
  <2>1. 1..n \subseteq Int
    OBVIOUS
  <2> QED
    BY <1>6, <2>1 DEF Free, Assigned
<1>8. Stack(x, n)
  <2>1. Distinct(x)
    BY <1>1, <1>4, <1>6 DEF Distinct
  <2>2. ASSUME NEW k \in Positions(x)
        PROVE  /\ VarOf(x.trail[k].lit) \in 1..n /\ x.trail[k].level <= Level(x)
               /\ \A i \in 1..x.trail[k].level : x.control[i].trail < k
    <3>1. /\ VarOf(tr.trail[k].lit) \in 1..n /\ tr.trail[k].level <= Level(tr)
          /\ \A i \in 1..tr.trail[k].level : tr.control[i].trail < k
      BY <1>6, <2>2 DEF Stack
    <3>2. tr.trail[k].level \in Nat
      BY <1>1, <1>6, <2>2, TrailTypes
    <3>3. Level(tr) \in Nat /\ Level(x) = Level(tr) + 1 /\ x.trail[k] = tr.trail[k]
      BY <1>1, <1>4, <1>6
    <3>4. tr.trail[k].level <= Level(tr) + 1 /\ 1..tr.trail[k].level \subseteq 1..Level(tr)
      BY ONLY <3>1, <3>2, <3>3
    <3>5. \A i \in 1..tr.trail[k].level : x.control[i] = tr.control[i]
      BY <1>5, <3>4
    <3> QED
      BY ONLY <3>1, <3>3, <3>4, <3>5
  <2>3. ASSUME NEW i \in 1..Level(x)
        PROVE  /\ x.control[i].trail <= Len(x.trail)
               /\ \A j \in i..Level(x) : x.control[i].trail <= x.control[j].trail
    <3>1. \A j \in 1..Level(tr) :
            /\ tr.control[j].trail \in Nat /\ tr.control[j].trail <= m
            /\ \A k \in j..Level(tr) : tr.control[j].trail <= tr.control[k].trail
      BY <1>1, TrailTypes DEF Stack
    <3>2. CASE i = Level(tr) + 1
      BY <1>1, <1>2, <1>4, <1>5, <1>6, <3>2
    <3>3. CASE i \in 1..Level(tr)
      <4>1. x.control[i].trail = tr.control[i].trail
        BY <1>5, <3>3
      <4>2. ASSUME NEW j \in i..Level(x) PROVE tr.control[i].trail <= x.control[j].trail
        <5>1. CASE j = Level(tr) + 1
          BY <1>2, <1>5, <3>1, <3>3, <5>1
        <5>2. CASE j \in i..Level(tr)
          <6>1. j \in 1..Level(tr) /\ x.control[j].trail = tr.control[j].trail
            BY <1>1, <1>5, <3>3, <5>2
          <6> QED
            BY <3>1, <3>3, <5>2, <6>1
        <5>3. j = Level(tr) + 1 \/ j \in i..Level(tr)
          <6>1. Level(x) = Level(tr) + 1 /\ Level(tr) \in Nat /\ i \in Int
            BY <1>1, <1>6, <3>3
          <6> QED
            BY <6>1
        <5> QED
          BY <5>1, <5>2, <5>3
      <4> QED
        BY <1>4, <3>1, <3>3, <4>1, <4>2
    <3> QED
      BY <1>1, <1>6, <3>2, <3>3
  <2> QED
    BY <1>5, <2>1, <2>2, <2>3 DEF Stack
<1>9. u = SaveAssign(x, l, Level(x))
  BY <1>3 DEF AssumeDecision, SearchAssign, AssignmentLevel, SaveAssign, DecisionReason, NoReason
<1>10. ~Assigned(x, l) /\ Level(x) \in 0..Level(x)
  BY <1>1, <1>6 DEF Assigned
<1> DEFINE y == SaveAssign(x, l, Level(x))
<1>11. /\ Stack(y, n) /\ Level(y) = Level(x) /\ y.control = x.control
       /\ Free(y, n) = Free(x, n) \ {VarOf(l)}
       /\ Positions(y) = Positions(x) \cup {Len(x.trail) + 1}
       /\ \A k \in Positions(x) : y.trail[k] = x.trail[k]
       /\ y.trail[Len(x.trail) + 1].lit = l
       /\ \A k \in Int : Assigned(x, k) => Val(y, k) = Val(x, k) /\ LevelOf(y, k) = LevelOf(x, k)
  BY <1>8, <1>10, StackOnTop
<1> HIDE DEF y
<1>12. u = y
  BY <1>9 DEF y
<1> HIDE DEF u
<1>13. y.control[Len(y.control)].decision = l /\ Len(y.control) > 0
  BY <1>1, <1>2, <1>5, <1>11
<1>14. \A k \in Int : Assigned(tr, k) => Val(y, k) = Val(tr, k) /\ LevelOf(y, k) = LevelOf(tr, k)
  BY <1>6, <1>11 DEF Assigned
<1> QED
  BY <1>4, <1>6, <1>7, <1>11, <1>12, <1>13, <1>14 DEF u

\* What is left by backtracking.
LEMMA StackBacktrack ==
  ASSUME NEW tr, NEW n \in Nat, Stack(tr, n), NEW new \in 0..Level(tr)
  PROVE  LET u == Backtrack(tr, new) IN
         /\ Stack(u, n) /\ Level(u) = new
         /\ \A k \in Int : Assigned(u, k) =>
              Assigned(tr, k) /\ Val(u, k) = Val(tr, k) /\ LevelOf(u, k) = LevelOf(tr, k)
         /\ \A k \in Int : Assigned(tr, k) => (Assigned(u, k) <=> LevelOf(tr, k) <= new)
         /\ \A i \in Positions(u) : \E k \in Positions(tr) : u.trail[i] = tr.trail[k]
<1> DEFINE u == Backtrack(tr, new)
           cut == tr.control[new + 1].trail
           N == Len(tr.trail)
<1>1. /\ tr \in Trails /\ Distinct(tr) /\ N \in Nat /\ Level(tr) \in Nat /\ new \in Nat
  BY TrailTypes DEF Stack
<1>2. CASE new = Level(tr)
  <2>1. u = tr
    BY <1>2 DEF Backtrack
  <2> HIDE DEF u
  <2>2. \A k \in Int : Assigned(tr, k) => LevelOf(tr, k) <= new
    BY <1>1, <1>2, StackFacts
  <2> QED
    BY <1>2, <2>1, <2>2 DEF u
<1>3. CASE new # Level(tr)
  <2>1. new \in 0..Level(tr) - 1 /\ new + 1 \in 1..Level(tr)
    BY <1>1, <1>3
  <2>2. cut \in 0..N
    BY <1>1, <2>1, TrailTypes DEF Stack
  <2>3. /\ \E m : Selects(tr, u.trail, m, N, cut, new)
        /\ u.control = SubSeq(tr.control, 1, new) /\ u \in Trails
    BY <1>1, <2>1, <2>2, BacktrackSelects
  <2> HIDE DEF u
  <2>4. PICK m : Selects(tr, u.trail, m, N, cut, new)
    BY <2>3
  <2>5. Len(u.trail) \in Nat /\ Positions(u) = 1..Len(u.trail) /\ Positions(tr) = 1..N
    BY <2>3, TrailTypes DEF Positions
  <2>6. Level(u) = new /\ \A i \in 1..new : u.control[i] = tr.control[i] /\ i \in 1..Level(tr)
    <3>1. tr.control \in Seq(Controls) /\ new <= Len(tr.control)
      BY <1>1 DEF Trails, Level
    <3> QED
      BY <1>1, <2>1, <2>3, <3>1 DEF Level
  <2>7. \A i \in 1..new : tr.control[i].trail \in Nat /\ tr.control[i].trail <= cut
    <3>1. \A i \in 1..new : i \in 1..Level(tr) /\ new + 1 \in i..Level(tr)
      BY <1>1, <2>1
    <3> QED
      BY <1>1, <3>1, TrailTypes DEF Stack
  <2>8. /\ \A i \in Positions(u) :
             /\ m[i] \in Positions(tr) /\ u.trail[i] = tr.trail[m[i]]
             /\ m[i] <= cut \/ tr.trail[m[i]].level <= new
             /\ \A j \in Positions(u) : i < j => m[i] < m[j]
        /\ \A j \in Positions(tr) : j <= cut \/ tr.trail[j].level <= new => \E i \in Positions(u) : m[i] = j
        /\ cut <= Len(u.trail) /\ \A i \in 1..cut : m[i] = i
    BY <2>4, <2>5 DEF Selects
  <2>9. \A j \in Positions(tr) : j <= cut => tr.trail[j].level <= new
    <3> SUFFICES ASSUME NEW j \in Positions(tr), j <= cut, ~(tr.trail[j].level <= new) PROVE FALSE
      OBVIOUS
    <3>1. tr.trail[j].level \in Nat /\ j \in Nat
      BY <1>1, TrailTypes
    <3>2. new + 1 \in 1..tr.trail[j].level
      BY <1>1, <3>1
    <3>3. cut < j
      BY <3>2 DEF Stack
    <3> QED
      BY <2>2, <3>1, <3>3
  <2>10. \A i \in Positions(u) : tr.trail[m[i]].level \in Nat /\ tr.trail[m[i]].level <= new
    BY <1>1, <2>8, <2>9, TrailTypes
  <2>11. Distinct(u)
    <3> SUFFICES ASSUME NEW i \in Positions(u)
                 PROVE  /\ u.trail[i].lit # 0
                        /\ \A j \in Positions(u) \ {i} :
                             u.trail[j].lit # u.trail[i].lit /\ u.trail[j].lit # -u.trail[i].lit
      BY DEF Distinct
    <3>1. \A j \in Positions(u) : j # i => m[i] # m[j]
      <4>1. \A j \in Positions(u) : m[j] \in Nat /\ j \in Nat
        BY <1>1, <2>5, <2>8
      <4>2. \A j \in Positions(u) : j # i => i < j \/ j < i
        BY <4>1
      <4> QED
        BY <2>8, <4>1, <4>2
    <3>2. u.trail[i].lit # 0
      BY <1>1, <2>8 DEF Distinct
    <3>3. ASSUME NEW j \in Positions(u) \ {i}
          PROVE  u.trail[j].lit # u.trail[i].lit /\ u.trail[j].lit # -u.trail[i].lit
      <4> DEFINE x == m[i]
                 y == m[j]
      <4>1. x \in Positions(tr) /\ y \in Positions(tr) \ {x}
            /\ u.trail[i] = tr.trail[x] /\ u.trail[j] = tr.trail[y]
        BY <2>8, <3>1
      <4> HIDE DEF x, y
      <4>2. tr.trail[y].lit # tr.trail[x].lit /\ tr.trail[y].lit # -tr.trail[x].lit
        BY <1>1, <4>1 DEF Distinct
      <4> QED
        BY <4>1, <4>2
    <3> QED
      BY <3>2, <3>3
  <2>12. ASSUME NEW k \in Positions(u)
         PROVE  /\ VarOf(u.trail[k].lit) \in 1..n /\ u.trail[k].level <= Level(u)
                /\ \A i \in 1..u.trail[k].level : u.control[i].trail < k
    <3>1. VarOf(u.trail[k].lit) \in 1..n /\ u.trail[k].level <= new
      BY <2>8, <2>10 DEF Stack
    <3>2. ASSUME NEW i \in 1..u.trail[k].level PROVE u.control[i].trail < k
      <4>1. i \in 1..new /\ u.control[i].trail = tr.control[i].trail
        <5>1. u.trail[k].level \in Nat
          BY <2>8, <2>10, <2>12
        <5>2. i \in 1..new
          BY <1>1, <3>1, <5>1
        <5> QED
          BY <2>6, <5>2
      <4>2. tr.control[i].trail < m[k]
        BY <2>8, <3>2 DEF Stack
      <4>3. CASE k <= cut
        <5>1. k \in 1..cut
          BY <2>2, <2>5, <4>3
        <5> QED
          BY <2>8, <4>1, <4>2, <5>1
      <4>4. CASE ~(k <= cut)
        <5>1. tr.control[i].trail \in Nat /\ tr.control[i].trail <= cut
          BY <2>7, <4>1
        <5> QED
          BY <2>2, <2>5, <4>1, <4>4, <5>1
      <4> QED
        BY <4>3, <4>4
    <3> QED
      BY <2>6, <3>1, <3>2
  <2>13. ASSUME NEW i \in 1..Level(u)
         PROVE  /\ u.control[i].trail <= Len(u.trail)
                /\ \A j \in i..Level(u) : u.control[i].trail <= u.control[j].trail
    <3>1. i \in 1..new
      BY <2>6
    <3>2. u.control[i].trail <= Len(u.trail)
      <4>1. u.control[i].trail = tr.control[i].trail
        BY <2>6, <3>1
      <4>2. tr.control[i].trail \in Nat /\ tr.control[i].trail <= cut
        BY <2>7, <3>1
      <4>3. cut \in Nat /\ cut <= Len(u.trail) /\ Len(u.trail) \in Nat
        BY <1>1, <2>2, <2>5, <2>8
      <4> QED
        BY ONLY <4>1, <4>2, <4>3
    <3>3. ASSUME NEW j \in i..new PROVE u.control[i].trail <= u.control[j].trail
      <4>1. i \in 1..Level(tr) /\ j \in i..Level(tr) /\ j \in 1..new
        BY <1>1, <2>1, <3>1
      <4> QED
        BY <2>6, <3>1, <4>1 DEF Stack
    <3> QED
      BY <2>6, <3>2, <3>3
  <2>14. Stack(u, n)
    BY <2>3, <2>11, <2>12, <2>13 DEF Stack
  <2>15. ASSUME NEW l \in Int, Assigned(u, l)
         PROVE  Assigned(tr, l) /\ Val(u, l) = Val(tr, l) /\ LevelOf(u, l) = LevelOf(tr, l)
                /\ LevelOf(tr, l) <= new
    <3> DEFINE i == Pos(u, l)
    <3>1. /\ i \in Positions(u) /\ LevelOf(u, l) = u.trail[i].level /\ Val(u, l) \in {-1, 1}
          /\ u.trail[i].lit = IF Val(u, l) = 1 THEN l ELSE -l
      BY <2>3, <2>11, <2>15, Values DEF Assigned
    <3> HIDE DEF i
    <3>2. m[i] \in Positions(tr) /\ u.trail[i] = tr.trail[m[i]]
      BY <2>8, <3>1
    <3> DEFINE j == m[i]
    <3>3. /\ j \in Positions(tr) /\ tr.trail[j].lit = IF Val(u, l) = 1 THEN l ELSE -l
          /\ l \in {tr.trail[j].lit, -tr.trail[j].lit}
          /\ Val(u, l) = 1 => l = tr.trail[j].lit
          /\ Val(u, l) # 1 => l = -tr.trail[j].lit
      BY <3>1, <3>2
    <3> HIDE DEF j
    <3>4. /\ LevelOf(tr, l) = tr.trail[j].level
          /\ l = tr.trail[j].lit => Val(tr, l) = 1
          /\ l = -tr.trail[j].lit => Val(tr, l) = -1
      BY <1>1, <3>3, AtPosition
    <3>5. Val(tr, l) = Val(u, l)
      BY <3>1, <3>3, <3>4
    <3> QED
      BY <2>10, <2>15, <3>1, <3>2, <3>4, <3>5 DEF j, Assigned
  <2>16. ASSUME NEW l \in Int, Assigned(tr, l), LevelOf(tr, l) <= new PROVE Assigned(u, l)
    <3> DEFINE j == Pos(tr, l)
    <3>1. /\ j \in Positions(tr) /\ LevelOf(tr, l) = tr.trail[j].level
          /\ tr.trail[j].lit \in {l, -l}
      BY <1>1, <2>16, Values DEF Assigned
    <3> HIDE DEF j
    <3>2. PICK i \in Positions(u) : m[i] = j
      BY <2>8, <2>16, <3>1
    <3>3. u.trail[i].lit \in {l, -l} /\ l \in {u.trail[i].lit, -u.trail[i].lit}
      BY <2>8, <3>1, <3>2
    <3> QED
      BY <2>3, <2>11, <3>3, AtPosition DEF Assigned
  <2> QED
    BY <2>6, <2>8, <2>14, <2>15, <2>16 DEF u
<1> QED
  BY <1>2, <1>3

-----------------------------------------------------------------------------
(* Permutations and the renaming of a compaction.                          *)

\* The sequences SetToSeqs gives have every element once.
LEMMA PermutationFacts ==
  ASSUME NEW S, IsFiniteSet(S), NEW f \in SetToSeqs(S)
  PROVE  Arranges(f, S) /\ Len(f) = Cardinality(S)
<1> DEFINE n == Cardinality(S)
<1>1. n \in Nat
  BY FS_CardinalityType
<1>2. f \in [1..n -> S] /\ \A i, j \in 1..n : i # j => f[i] # f[j]
  BY DEF SetToSeqs
<1>3. IsFiniteSet(1..n) /\ Cardinality(1..n) = n
  BY <1>1, FS_Interval
<1>4. f \in Injection(1..n, S)
  BY <1>2 DEF Injection, IsInjective
<1>5. f \in Surjection(1..n, S)
  BY <1>3, <1>4, FS_Injection
<1>6. \A w \in S : \E k \in 1..n : f[k] = w
  BY <1>5 DEF Surjection
<1>7. f \in Seq(S) /\ Len(f) = n
  BY <1>1, <1>2, FunctionIsSeq
<1> QED
  BY <1>2, <1>6, <1>7 DEF Arranges

\* A trail is no longer than there are variables.
LEMMA StackLength ==
  ASSUME NEW tr, NEW n \in Nat, Stack(tr, n)
  PROVE  Len(tr.trail) \in 0..n
<1> DEFINE N == Len(tr.trail)
           f == [k \in 1..N |-> VarOf(tr.trail[k].lit)]
<1>1. N \in Nat /\ Positions(tr) = 1..N /\ \A k \in 1..N : tr.trail[k].lit \in Int
  BY TrailTypes DEF Stack, Positions
<1>2. \A k \in 1..N : VarOf(tr.trail[k].lit) \in 1..n
  BY <1>1 DEF Stack
<1>3. \A j, k \in 1..N : VarOf(tr.trail[j].lit) = VarOf(tr.trail[k].lit) => j = k
  <2> SUFFICES ASSUME NEW j \in 1..N, NEW k \in 1..N, j # k,
                      VarOf(tr.trail[j].lit) = VarOf(tr.trail[k].lit)
               PROVE  FALSE
    OBVIOUS
  <2>1. tr.trail[j].lit # tr.trail[k].lit /\ tr.trail[j].lit # -tr.trail[k].lit
    BY <1>1 DEF Stack, Distinct
  <2> QED
    BY <1>1, <2>1 DEF VarOf
<1>4. f \in Injection(1..N, 1..n)
  BY <1>2, <1>3 DEF Injection, IsInjective
<1>5. IsFiniteSet(1..n) /\ Cardinality(1..n) = n /\ Cardinality(1..N) = N
  <2>1. \A x \in Nat : IsFiniteSet(1..x) /\ Cardinality(1..x) = x
    BY FS_Interval
  <2> HIDE DEF N
  <2> QED
    BY <1>1, <2>1
<1>6. Cardinality(1..N) <= Cardinality(1..n)
  BY <1>4, <1>5, FS_Injection
<1> QED
  BY <1>1, <1>5, <1>6

\* m gives the variables of S the names 1..c, and no other variable one.
Renames(m, S, c) ==
  /\ S \subseteq Vars /\ m \in [Vars -> Nat]
  /\ \A v \in Vars : m[v] # 0 <=> v \in S
  /\ \A v \in S : m[v] \in 1..c
  /\ \A v, w \in S : m[v] = m[w] => v = w
  /\ \A x \in 1..c : \E v \in S : m[v] = x

\* Counting from below names the variables of a set.
LEMMA RanksRename ==
  ASSUME NEW S, S \subseteq Vars, maxVar \in Nat
  PROVE  /\ Cardinality(S) \in 0..maxVar
         /\ Renames([v \in Vars |-> IF v \in S THEN Cardinality({w \in S : w <= v}) ELSE 0],
                    S, Cardinality(S))
<1> DEFINE R(v) == {w \in S : w <= v}
           c == Cardinality(S)
           m == [v \in Vars |-> IF v \in S THEN Cardinality(R(v)) ELSE 0]
           f == [v \in S |-> Cardinality(R(v))]
<1>1. IsFiniteSet(1..maxVar) /\ Cardinality(1..maxVar) = maxVar
  BY FS_Interval
<1>2. IsFiniteSet(S) /\ c \in Nat /\ c <= maxVar
  BY <1>1, FS_Subset, FS_CardinalityType DEF Vars
<1>3. \A v : R(v) \subseteq S /\ IsFiniteSet(R(v)) /\ Cardinality(R(v)) \in Nat /\ Cardinality(R(v)) <= c
  <2> SUFFICES ASSUME NEW v
               PROVE  R(v) \subseteq S /\ IsFiniteSet(R(v)) /\ Cardinality(R(v)) \in Nat /\ Cardinality(R(v)) <= c
    OBVIOUS
  <2>1. R(v) \subseteq S
    OBVIOUS
  <2> HIDE DEF R
  <2> QED
    BY <1>2, <2>1, FS_Subset, FS_CardinalityType
<1>4. \A v \in S : v \in R(v) /\ v \in Int
  BY DEF Vars
<1>5. ASSUME NEW v \in S, NEW w \in S, v < w PROVE Cardinality(R(v)) < Cardinality(R(w))
  <2>1. R(v) \subseteq R(w) /\ w \in R(w) /\ w \notin R(v)
    <3>1. v \in Int /\ w \in Int /\ \A x \in S : x \in Int
      BY <1>4
    <3>2. \A x \in S : x <= v => x <= w
      BY <1>5, <3>1
    <3>3. w <= w /\ ~(w <= v)
      BY <1>5, <3>1
    <3> QED
      BY <3>2, <3>3
  <2> HIDE DEF R
  <2>2. Cardinality(R(v)) <= Cardinality(R(w)) /\ Cardinality(R(w)) # Cardinality(R(v))
    BY <1>3, <2>1, FS_Subset
  <2> QED
    BY <1>3, <2>2
<1>6. \A v \in S : Cardinality(R(v)) \in 1..c
  <2> SUFFICES ASSUME NEW v \in S PROVE Cardinality(R(v)) # 0
    BY <1>2, <1>3
  <2>1. R(v) # {}
    BY <1>4
  <2> HIDE DEF R
  <2> QED
    BY <1>3, <2>1, FS_EmptySet
<1> HIDE DEF R
<1>7. \A v, w \in S : Cardinality(R(v)) = Cardinality(R(w)) => v = w
  <2> SUFFICES ASSUME NEW v \in S, NEW w \in S, Cardinality(R(v)) = Cardinality(R(w)) PROVE v = w
    OBVIOUS
  <2>1. ~(v < w) /\ ~(w < v)
    BY <1>3, <1>5
  <2> QED
    BY <1>4, <2>1
<1>8. f \in Injection(S, 1..c)
  BY <1>6, <1>7 DEF Injection, IsInjective
<1>9. IsFiniteSet(1..c) /\ Cardinality(1..c) = c
  BY <1>2, FS_Interval
<1>10. f \in Surjection(S, 1..c)
  BY <1>2, <1>8, <1>9, FS_Injection
<1>11. \A x \in 1..c : \E v \in S : Cardinality(R(v)) = x
  BY <1>10 DEF Surjection
<1>12. Renames(m, S, c)
  BY <1>2, <1>3, <1>6, <1>7, <1>11 DEF Renames
<1> QED
  BY <1>2, <1>12 DEF R

\* The number of variables that are left.
LEMMA RenamesMax ==
  ASSUME NEW m, NEW S, NEW c \in Nat, Renames(m, S, c)
  PROVE  Max({0} \cup Rng(m)) = c
<1> DEFINE A == {0} \cup Rng(m)
<1>1. DOMAIN m = Vars /\ \A v \in Vars : m[v] \in Nat
  BY DEF Renames
<1>2. \A x \in A : x \in Nat /\ x <= c
  <2>1. \A v \in Vars : m[v] <= c
    BY <1>1 DEF Renames
  <2> QED
    BY <1>1, <2>1 DEF Rng
<1>3. c \in A
  <2>1. CASE c = 0
    BY <2>1
  <2>2. CASE c # 0
    <3>1. PICK v \in S : m[v] = c
      BY <2>2 DEF Renames
    <3> QED
      BY <1>1, <3>1 DEF Rng, Renames
  <2> QED
    BY <2>1, <2>2
<1> HIDE DEF A
<1>4. Max(A) \in A /\ \A x \in A : x <= Max(A)
  <2>1. A \subseteq Nat /\ A # {}
    BY <1>2, <1>3
  <2> HIDE DEF Max
  <2> QED
    BY <1>2, <2>1, MaxIsGreatest
<1>5. Max(A) <= c /\ c <= Max(A) /\ Max(A) \in Nat
  BY <1>2, <1>3, <1>4
<1> HIDE DEF Max
<1> QED
  BY <1>5 DEF A

\* The tables under the new names.
LEMMA MapVectorFacts ==
  ASSUME NEW m, NEW S, NEW c, Renames(m, S, c), NEW f, NEW init, c \in 0..MaxVar, MaxVar \in Nat
  PROVE  LET g == MapVector(m, f, init) IN
         /\ \A v \in S : m[v] \in Idx /\ g[m[v]] = f[v]
         /\ \A x \in Idx \ (1..c) : g[x] = init
         /\ \A T : init \in T /\ (\A v \in S : f[v] \in T) => g \in [Idx -> T]
<1> DEFINE g == MapVector(m, f, init)
<1>1. DOMAIN m = Vars /\ S \subseteq Vars /\ 1..c \subseteq Idx
  BY DEF Renames, Idx
<1>2. g = [v \in Idx |-> IF v \in Rng(m) THEN f[CHOOSE w \in Vars : m[w] = v] ELSE init]
  BY DEF MapVector, Idx
<1> HIDE DEF g
<1>3. ASSUME NEW v \in S PROVE m[v] \in 1..c /\ m[v] \in Idx /\ g[m[v]] = f[v]
  <2>1. m[v] \in 1..c /\ m[v] \in Idx /\ m[v] # 0 /\ m[v] \in Rng(m)
    BY <1>1 DEF Renames, Rng
  <2>2. \A w \in Vars : m[w] = m[v] => w = v
    BY <1>1, <2>1 DEF Renames
  <2>3. (CHOOSE w \in Vars : m[w] = m[v]) = v
    BY <1>1, <2>2
  <2> QED
    BY <1>2, <2>1, <2>3
<1>4. ASSUME NEW x \in Idx, x \notin 1..c PROVE g[x] = init
  <2>1. x \notin Rng(m)
    <3> SUFFICES ASSUME NEW v \in Vars, m[v] = x PROVE FALSE
      BY <1>1 DEF Rng
    <3>1. v \in S
      BY <1>4 DEF Renames, Idx
    <3> QED
      BY <1>3, <1>4, <3>1
  <2> QED
    BY <1>2, <2>1
<1>5. ASSUME NEW T, init \in T, \A v \in S : f[v] \in T PROVE g \in [Idx -> T]
  <2>1. ASSUME NEW x \in Idx PROVE g[x] \in T
    <3>1. CASE x \in 1..c
      <4>1. PICK v \in S : m[v] = x
        BY <3>1 DEF Renames
      <4> QED
        BY <1>3, <1>5, <4>1
    <3>2. CASE x \notin 1..c
      BY <1>4, <1>5, <3>2
    <3> QED
      BY <3>1, <3>2
  <2>2. g = [x \in Idx |-> g[x]]
    BY <1>2
  <2> QED
    BY <2>1, <2>2
<1> QED
  BY <1>3, <1>4, <1>5 DEF g

\* The new names of the variables of E that stay and are not fixed.
Stays(m, v) == m[v] # 0 /\ v # FirstFixed
Renamed(m, E) == {m[v] : v \in {w \in E : Stays(m, w)}}

\* x holds the new names of those of the first i of seq that stay; the k-th of
\* them is at g[k].
Picks(m, seq, x, g, i) ==
  /\ x \in Seq(Nat) /\ g \in [1..Len(x) -> 1..i]
  /\ \A k \in 1..Len(x) : x[k] = m[seq[g[k]]] /\ Stays(m, seq[g[k]])
  /\ \A j, k \in 1..Len(x) : j < k => g[j] < g[k]
  /\ \A j \in 1..i : Stays(m, seq[j]) => \E k \in 1..Len(x) : g[k] = j

\* MapSeq picks.
LEMMA MapSeqPicks ==
  ASSUME NEW m, m \in [Vars -> Nat], NEW seq \in Seq(Vars)
  PROVE  \E g : Picks(m, seq, MapSeq(m, seq), g, Len(seq))
<1> DEFINE n == Len(seq)
           D == [i \in 0..n |-> {x \in Seq(Nat) : \E g : Picks(m, seq, x, g, i)}]
<1>1. n \in Nat /\ 0 \in 0..n /\ n \in 0..n /\ \A i \in 1..n : seq[i] \in Vars
  OBVIOUS
<1>2. <<>> \in D[0]
  <2> DEFINE g == [k \in 1..0 |-> k]
  <2>1. <<>> \in Seq(Nat) /\ Len(<<>>) = 0 /\ 1..0 = {}
    OBVIOUS
  <2>2. Picks(m, seq, <<>>, g, 0)
    BY <2>1 DEF Picks
  <2> HIDE DEF g
  <2> QED
    BY <1>1, <2>1, <2>2
<1>3. ASSUME NEW i \in 1..n, NEW x \in D[i - 1]
      PROVE  (IF m[seq[i]] # 0 /\ seq[i] # FirstFixed THEN Append(x, m[seq[i]]) ELSE x) \in D[i]
  <2>1. i - 1 \in 0..n /\ i \in 0..n /\ i \in Nat
    BY <1>1
  <2>2. x \in Seq(Nat) /\ \E g : Picks(m, seq, x, g, i - 1)
    BY <2>1
  <2>3. PICK g : Picks(m, seq, x, g, i - 1)
    BY <2>2
  <2>4. /\ g \in [1..Len(x) -> 1..i - 1] /\ Len(x) \in Nat
        /\ \A k \in 1..Len(x) : x[k] = m[seq[g[k]]] /\ Stays(m, seq[g[k]])
        /\ \A j, k \in 1..Len(x) : j < k => g[j] < g[k]
        /\ \A j \in 1..i - 1 : Stays(m, seq[j]) => \E k \in 1..Len(x) : g[k] = j
    BY <2>2, <2>3 DEF Picks
  <2>5. CASE ~Stays(m, seq[i])
    <3>1. g \in [1..Len(x) -> 1..i]
      BY <2>1, <2>4
    <3>2. \A j \in 1..i : j \in 1..i - 1 \/ j = i
      BY <2>1
    <3>3. Picks(m, seq, x, g, i)
      BY <2>2, <2>4, <2>5, <3>1, <3>2 DEF Picks
    <3>4. x \in D[i]
      BY <2>1, <2>2, <3>3
    <3> HIDE DEF D
    <3> QED
      BY <2>5, <3>4 DEF Stays
  <2>6. CASE Stays(m, seq[i])
    <3> DEFINE l == Len(x)
               y == Append(x, m[seq[i]])
               h == [k \in 1..l + 1 |-> IF k \in 1..l THEN g[k] ELSE i]
    <3>1. m[seq[i]] \in Nat
      BY <1>1
    <3>2. /\ y \in Seq(Nat) /\ Len(y) = l + 1 /\ y[l + 1] = m[seq[i]]
          /\ \A k \in 1..l : y[k] = x[k]
      BY <2>2, <3>1
    <3>3. /\ \A k \in 1..l : h[k] = g[k] /\ g[k] \in 1..i - 1
          /\ h[l + 1] = i
          /\ \A k \in 1..l + 1 : k \in 1..l \/ k = l + 1
      <4>1. l \in Nat /\ \A k \in 1..l : g[k] \in 1..i - 1
        BY <2>4
      <4> HIDE DEF l
      <4>2. \A k \in 1..l : k \in 1..l + 1
        BY <4>1
      <4>3. l + 1 \in 1..l + 1 /\ l + 1 \notin 1..l
        BY <4>1
      <4>4. \A k \in 1..l + 1 : k \in 1..l \/ k = l + 1
        BY <4>1
      <4> QED
        BY <4>1, <4>2, <4>3, <4>4
    <3>4. h \in [1..l + 1 -> 1..i]
      BY <2>1, <2>4
    <3> HIDE DEF h, y
    <3>5. \A k \in 1..l + 1 : y[k] = m[seq[h[k]]] /\ Stays(m, seq[h[k]])
      BY <2>4, <2>6, <3>2, <3>3
    <3>6. ASSUME NEW j \in 1..l + 1, NEW k \in 1..l + 1, j < k PROVE h[j] < h[k]
      <4>1. j \in 1..l
        BY <2>4, <3>6
      <4>2. CASE k \in 1..l
        BY <2>4, <3>3, <3>6, <4>1, <4>2
      <4>3. CASE k = l + 1
        <5>1. h[j] \in 1..i - 1 /\ h[k] = i
          BY <3>3, <4>1, <4>3
        <5> QED
          BY <2>1, <5>1
      <4> QED
        BY <3>3, <4>2, <4>3
    <3>7. ASSUME NEW j \in 1..i, Stays(m, seq[j]) PROVE \E k \in 1..l + 1 : h[k] = j
      <4>1. CASE j = i
        <5>1. l + 1 \in 1..l + 1
          BY <2>4
        <5> QED
          BY <3>3, <4>1, <5>1
      <4>2. CASE j # i
        <5>1. j \in 1..i - 1
          BY <2>1, <4>2
        <5>2. PICK k \in 1..l : g[k] = j
          BY <2>4, <3>7, <5>1
        <5>3. k \in 1..l + 1
          BY <2>4
        <5> QED
          BY <3>3, <5>2, <5>3
      <4> QED
        BY <4>1, <4>2
    <3>8. Picks(m, seq, y, h, i)
      BY <3>2, <3>4, <3>5, <3>6, <3>7 DEF Picks
    <3>9. y \in D[i]
      BY <2>1, <3>2, <3>8
    <3> HIDE DEF D
    <3> QED
      BY <2>6, <3>9 DEF Stays, y
  <2> QED
    BY <2>5, <2>6
<1>4. MapSeq(m, seq) \in D[n]
  <2> HIDE DEF D
  <2> QED
    BY <1>1, <1>2, <1>3, MapSeqStages
<1> QED
  BY <1>1, <1>4

\* The new names in a sequence that has every variable of E once.
LEMMA MapSeqFacts ==
  ASSUME NEW m, NEW S, NEW c, Renames(m, S, c), NEW E, E \subseteq Vars,
         NEW seq, Arranges(seq, E)
  PROVE  LET x == MapSeq(m, seq) IN
         /\ Arranges(x, Renamed(m, E))
         /\ \A key, new : Lists(seq, E, key) /\ (\A v \in S : new[m[v]] = key[v]) =>
              Lists(x, Renamed(m, E), new)
<1> DEFINE x == MapSeq(m, seq)
<1>1. /\ seq \in Seq(E) /\ Len(seq) \in Nat
      /\ \A w \in E : \E k \in 1..Len(seq) : seq[k] = w
      /\ \A j, k \in 1..Len(seq) : seq[j] = seq[k] => j = k
  BY DEF Arranges
<1>2. m \in [Vars -> Nat] /\ seq \in Seq(Vars) /\ \A k \in 1..Len(seq) : seq[k] \in E
  <2>1. \A k \in 1..Len(seq) : seq[k] \in E
    BY <1>1
  <2>2. seq \in [1..Len(seq) -> Vars]
    BY <1>1, <2>1
  <2> QED
    BY <1>1, <2>1, <2>2, FunctionIsSeq DEF Renames
<1> HIDE DEF x
<1>3. PICK g : Picks(m, seq, x, g, Len(seq))
  BY <1>2, MapSeqPicks DEF x
<1>4. /\ x \in Seq(Nat) /\ Len(x) \in Nat /\ \A k \in 1..Len(x) : g[k] \in 1..Len(seq) /\ g[k] \in Nat
      /\ \A k \in 1..Len(x) : x[k] = m[seq[g[k]]] /\ Stays(m, seq[g[k]])
      /\ \A j, k \in 1..Len(x) : j < k => g[j] < g[k]
      /\ \A j \in 1..Len(seq) : Stays(m, seq[j]) => \E k \in 1..Len(x) : g[k] = j
  BY <1>3 DEF Picks
<1>5. \A k \in 1..Len(x) : seq[g[k]] \in E /\ seq[g[k]] \in S /\ x[k] \in Renamed(m, E)
  BY <1>2, <1>4 DEF Renames, Stays, Renamed
<1>6. x \in Seq(Renamed(m, E))
  <2>1. x \in [1..Len(x) -> Renamed(m, E)]
    BY <1>4, <1>5
  <2> QED
    BY <1>4, <2>1, FunctionIsSeq
<1>7. \A w \in Renamed(m, E) : \E k \in 1..Len(x) : x[k] = w
  <2> SUFFICES ASSUME NEW v \in E, Stays(m, v) PROVE \E k \in 1..Len(x) : x[k] = m[v]
    BY DEF Renamed
  <2>1. PICK j \in 1..Len(seq) : seq[j] = v
    BY <1>1
  <2>2. PICK k \in 1..Len(x) : g[k] = j
    BY <1>4, <2>1
  <2> QED
    BY <1>4, <2>1, <2>2
<1>8. ASSUME NEW j \in 1..Len(x), NEW k \in 1..Len(x), x[j] = x[k] PROVE j = k
  <2>1. seq[g[j]] = seq[g[k]]
    BY <1>4, <1>5, <1>8 DEF Renames
  <2>2. g[j] = g[k]
    BY <1>1, <1>4, <2>1
  <2> QED
    BY <1>4, <2>2
<1>9. ASSUME NEW key, NEW new, Lists(seq, E, key), \A v \in S : new[m[v]] = key[v]
      PROVE  Lists(x, Renamed(m, E), new)
  <2>1. ASSUME NEW j \in 1..Len(x), NEW k \in 1..Len(x), j < k PROVE new[x[k]] < new[x[j]]
    <3>1. new[x[j]] = key[seq[g[j]]] /\ new[x[k]] = key[seq[g[k]]]
      BY <1>4, <1>5, <1>9
    <3>2. g[j] < g[k]
      BY <1>4, <2>1
    <3>3. key[seq[g[k]]] < key[seq[g[j]]]
      BY <1>4, <1>9, <3>2 DEF Lists
    <3> QED
      BY <3>1, <3>3
  <2> QED
    BY <1>6, <1>7, <2>1 DEF Lists
<1> QED
  BY <1>6, <1>7, <1>8, <1>9 DEF x, Arranges

\* The links between the variables of a sequence.
Nth(order, k) == IF k \in 1..Len(order) THEN order[k] ELSE 0
LinksOf(order, delta) ==
  [v \in 1..MaxVar |->
     IF v \in Rng(order)
     THEN Nth(order, (CHOOSE k \in 1..Len(order) : order[k] = v) + delta) ELSE 0]
Relinked(m, d, order) ==
  [first |-> Nth(order, 1), last |-> Nth(order, Len(order)),
   unassigned |-> Nth(order, Len(order)), bumped |-> d.bumped, stamp |-> d.stamp,
   prev |-> LinksOf(order, -1), next |-> LinksOf(order, 1), btab |-> MapVector(m, d.btab, 0)]

\* The queue is linked again along the sequence of the variables that stay.
LEMMA MapQueueRelinks ==
  ASSUME NEW m, NEW d
  PROVE  MapQueue(m, d) = Relinked(m, d, Reverse(MapSeq(m, Backwards(d))))
<1> DEFINE order == Reverse(MapSeq(m, Backwards(d)))
           f(x) == Relinked(m, d, x)
<1>1. MapQueue(m, d) = ByValue(f, order)
  BY DEF MapQueue, Relinked, LinksOf, Nth
<1>2. ByValue(f, order) = CHOOSE y \in {f(x) : x \in {order}} : TRUE
  BY DEF ByValue
<1> HIDE DEF order
<1>3. {Relinked(m, d, x) : x \in {order}} = {Relinked(m, d, order)}
  OBVIOUS
<1>4. ByValue(f, order) = Relinked(m, d, order)
  BY <1>2, <1>3
<1> QED
  BY <1>1, <1>4 DEF order

\* A sequence from the least key to the greatest links its variables.
LEMMA OrderLinks ==
  ASSUME NEW order, NEW R, R \subseteq Idx, order \in Seq(R), NEW key \in [Idx -> Int],
         \A w \in R : \E k \in 1..Len(order) : order[k] = w,
         \A j, k \in 1..Len(order) : j < k => key[order[j]] < key[order[k]]
  PROVE  /\ Keyed(R, key)
         /\ IsFirst(R, key, Nth(order, 1)) /\ IsLast(R, key, Nth(order, Len(order)))
         /\ \A v \in R : IsPrev(R, key, v, LinksOf(order, -1)[v]) /\ IsNext(R, key, v, LinksOf(order, 1)[v])
         /\ LinksOf(order, -1) \in [Idx -> Nat] /\ LinksOf(order, 1) \in [Idx -> Nat]
         /\ Nth(order, 1) \in Nat /\ Nth(order, Len(order)) \in Nat
         /\ IF R = {} THEN Nth(order, Len(order)) = 0 ELSE Nth(order, Len(order)) \in R
<1> DEFINE n == Len(order)
<1>1. /\ n \in Nat /\ DOMAIN order = 1..n
      /\ \A k \in 1..n : order[k] \in R /\ order[k] \in Nat /\ key[order[k]] \in Int
      /\ \A v \in R : v \in Nat /\ v # 0
  <2>1. n \in Nat /\ DOMAIN order = 1..n /\ \A k \in 1..n : order[k] \in R
    OBVIOUS
  <2>2. \A v \in R : v \in Nat /\ v # 0 /\ key[v] \in Int
    BY DEF Idx
  <2> QED
    BY <2>1, <2>2
<1>2. \A j, k \in 1..n : j <= k => key[order[j]] <= key[order[k]]
  <2> SUFFICES ASSUME NEW j \in 1..n, NEW k \in 1..n, j <= k PROVE key[order[j]] <= key[order[k]]
    OBVIOUS
  <2>1. CASE j = k
    BY <1>1, <2>1
  <2>2. CASE j # k
    BY <1>1, <2>2
  <2> QED
    BY <2>1, <2>2
<1>3. \A j, k \in 1..n : order[j] = order[k] => j = k
  <2> SUFFICES ASSUME NEW j \in 1..n, NEW k \in 1..n, order[j] = order[k] PROVE j = k
    OBVIOUS
  <2>1. ~(j < k) /\ ~(k < j)
    BY <1>1
  <2> QED
    BY <1>1, <2>1
<1>4. Keyed(R, key)
  <2> SUFFICES ASSUME NEW v \in R, NEW w \in R, key[v] = key[w] PROVE v = w
    BY DEF Keyed
  <2>1. PICK j \in 1..n : order[j] = v
    OBVIOUS
  <2>2. PICK k \in 1..n : order[k] = w
    OBVIOUS
  <2>3. ~(j < k) /\ ~(k < j)
    BY <1>1, <2>1, <2>2
  <2> QED
    BY <1>1, <2>1, <2>2, <2>3
<1>5. R = {} <=> n = 0
  <2>1. R # {} => n # 0
    BY <1>1
  <2>2. n # 0 => 1 \in 1..n
    BY <1>1
  <2> QED
    BY <1>1, <2>1, <2>2
<1>6. /\ n = 0 => Nth(order, 1) = 0 /\ Nth(order, n) = 0
      /\ n # 0 => /\ 1 \in 1..n /\ n \in 1..n
                  /\ Nth(order, 1) = order[1] /\ Nth(order, n) = order[n]
  BY <1>1 DEF Nth
<1>7. IsFirst(R, key, Nth(order, 1)) /\ IsLast(R, key, Nth(order, n))
  <2>1. CASE n = 0
    BY <1>5, <1>6, <2>1 DEF IsFirst, IsLast
  <2>2. CASE n # 0
    <3>1. \A w \in R : key[order[1]] <= key[w] /\ key[w] <= key[order[n]]
      <4> SUFFICES ASSUME NEW w \in R PROVE key[order[1]] <= key[w] /\ key[w] <= key[order[n]]
        OBVIOUS
      <4>1. PICK k \in 1..n : order[k] = w
        OBVIOUS
      <4>2. 1 <= k /\ k <= n
        BY <1>1
      <4> QED
        BY <1>2, <1>6, <2>2, <4>1, <4>2
    <3> QED
      BY <1>1, <1>5, <1>6, <2>2, <3>1 DEF IsFirst, IsLast
  <2> QED
    BY <2>1, <2>2
<1>8. ASSUME NEW k \in 1..n, NEW delta \in Int
      PROVE  LinksOf(order, delta)[order[k]] = Nth(order, k + delta)
  <2>1. order[k] \in Rng(order) /\ order[k] \in 1..MaxVar
    BY <1>1 DEF Rng, Idx
  <2>2. (CHOOSE j \in 1..n : order[j] = order[k]) = k
    BY <1>3
  <2> QED
    BY <2>1, <2>2 DEF LinksOf
<1>9. ASSUME NEW v \in R
      PROVE  IsPrev(R, key, v, LinksOf(order, -1)[v]) /\ IsNext(R, key, v, LinksOf(order, 1)[v])
  <2>1. PICK k \in 1..n : order[k] = v
    OBVIOUS
  <2>2. /\ LinksOf(order, -1)[v] = Nth(order, k - 1)
        /\ LinksOf(order, 1)[v] = Nth(order, k + 1)
    <3>0. -1 \in Int /\ k + (-1) = k - 1
      OBVIOUS
    <3>1. LinksOf(order, -1)[order[k]] = Nth(order, k + (-1)) /\ k + (-1) = k - 1
      BY <1>8, <3>0
    <3>2. LinksOf(order, 1)[order[k]] = Nth(order, k + 1)
      BY <1>8
    <3> QED
      BY <2>1, <3>1, <3>2
  <2>3. IsPrev(R, key, v, Nth(order, k - 1))
    <3>1. CASE k = 1
      <4>1. Nth(order, k - 1) = 0
        BY <3>1 DEF Nth
      <4>2. \A w \in R : key[v] <= key[w]
        <5> SUFFICES ASSUME NEW w \in R PROVE key[v] <= key[w]
          OBVIOUS
        <5>1. PICK j \in 1..n : order[j] = w
          OBVIOUS
        <5>2. k <= j
          BY <3>1, <1>1
        <5> QED
          BY <1>2, <2>1, <5>1, <5>2
      <4> QED
        BY <4>1, <4>2 DEF IsPrev
    <3>2. CASE k # 1
      <4>1. k - 1 \in 1..n /\ Nth(order, k - 1) = order[k - 1] /\ k - 1 < k
        BY <1>1, <3>2 DEF Nth
      <4>2. order[k - 1] \in R /\ key[order[k - 1]] < key[v]
        BY <1>1, <2>1, <4>1
      <4>3. \A w \in R : key[w] <= key[order[k - 1]] \/ key[v] <= key[w]
        <5> SUFFICES ASSUME NEW w \in R PROVE key[w] <= key[order[k - 1]] \/ key[v] <= key[w]
          OBVIOUS
        <5>1. PICK j \in 1..n : order[j] = w
          OBVIOUS
        <5>2. j <= k - 1 \/ k <= j
          BY <1>1
        <5> QED
          BY <1>2, <2>1, <4>1, <5>1, <5>2
      <4> QED
        BY <4>1, <4>2, <4>3 DEF IsPrev
    <3> QED
      BY <3>1, <3>2
  <2>4. IsNext(R, key, v, Nth(order, k + 1))
    <3>1. CASE k = n
      <4>1. Nth(order, k + 1) = 0
        BY <1>1, <3>1 DEF Nth
      <4>2. \A w \in R : key[w] <= key[v]
        <5> SUFFICES ASSUME NEW w \in R PROVE key[w] <= key[v]
          OBVIOUS
        <5>1. PICK j \in 1..n : order[j] = w
          OBVIOUS
        <5>2. j <= k
          BY <3>1, <1>1
        <5> QED
          BY <1>2, <2>1, <5>1, <5>2
      <4> QED
        BY <4>1, <4>2 DEF IsNext
    <3>2. CASE k # n
      <4>1. k + 1 \in 1..n /\ Nth(order, k + 1) = order[k + 1] /\ k < k + 1
        <5>1. n \in Nat
          BY <1>1
        <5>2. k + 1 \in 1..n /\ k < k + 1
          <6> HIDE DEF n
          <6> QED
            BY <3>2, <5>1
        <5> QED
          BY <5>2 DEF Nth
      <4>2. order[k + 1] \in R /\ key[v] < key[order[k + 1]]
        BY <1>1, <2>1, <4>1
      <4>3. \A w \in R : key[w] <= key[v] \/ key[order[k + 1]] <= key[w]
        <5> SUFFICES ASSUME NEW w \in R PROVE key[w] <= key[v] \/ key[order[k + 1]] <= key[w]
          OBVIOUS
        <5>1. PICK j \in 1..n : order[j] = w
          OBVIOUS
        <5>2. j <= k \/ k + 1 <= j
          BY <1>1
        <5> QED
          BY <1>2, <2>1, <4>1, <5>1, <5>2
      <4> QED
        BY <4>1, <4>2, <4>3 DEF IsNext
    <3> QED
      BY <3>1, <3>2
  <2> QED
    BY <2>2, <2>3, <2>4
<1>10. \A k : Nth(order, k) \in Nat
  BY <1>1 DEF Nth
<1>11. \A delta : LinksOf(order, delta) \in [Idx -> Nat]
  BY <1>10 DEF LinksOf, Idx
<1>12. IF R = {} THEN Nth(order, n) = 0 ELSE Nth(order, n) \in R
  BY <1>1, <1>5, <1>6
<1> QED
  BY <1>4, <1>7, <1>9, <1>10, <1>11, <1>12

\* Turning a sequence around.
LEMMA ReverseFacts ==
  ASSUME NEW R, NEW x \in Seq(R)
  PROVE  /\ Reverse(x) \in Seq(R) /\ Len(Reverse(x)) = Len(x)
         /\ \A k \in 1..Len(x) : Len(x) - k + 1 \in 1..Len(x) /\ Reverse(x)[k] = x[Len(x) - k + 1]
<1> DEFINE n == Len(x)
<1>1. n \in Nat /\ \A k \in 1..n : x[k] \in R
  OBVIOUS
<1>2. \A k \in 1..n : n - k + 1 \in 1..n
  <2> HIDE DEF n
  <2> QED
    BY <1>1
<1>3. Reverse(x) = [k \in 1..n |-> x[n - k + 1]]
  BY DEF Reverse
<1>4. Reverse(x) \in [1..n -> R]
  BY <1>1, <1>2, <1>3
<1>5. Reverse(x) \in Seq(R) /\ Len(Reverse(x)) = n
  BY <1>1, <1>4, FunctionIsSeq
<1> QED
  BY <1>2, <1>3, <1>5

\* The queue of the variables that stay, all of which are unassigned.
LEMMA MapQueueFacts ==
  ASSUME NEW m, NEW S, NEW c, Renames(m, S, c), c \in 0..MaxVar, MaxVar \in Nat,
         NEW d, NEW E, NEW U, QueueOK(d, E, U), E \subseteq Vars, maxVar \in Nat, Vars \subseteq Idx,
         \A v \in E : Stays(m, v) => v \in U
  PROVE  LET R == Renamed(m, E)
             e == MapQueue(m, d)
         IN  QueueOK(e, R, R) /\ Grounded(e, R)
<1> DEFINE R == Renamed(m, E)
           b == Backwards(d)
           x == MapSeq(m, b)
           order == Reverse(x)
           key == MapVector(m, d.btab, 0)
           e == Relinked(m, d, order)
<1>1. /\ d \in Queues /\ d.btab \in [Idx -> Int] /\ d.bumped \in Int /\ d.stamp \in Nat
      /\ Linked(d, E, d.btab) /\ d.bumped <= d.stamp
      /\ \A v \in E : v \in Idx /\ d.btab[v] \in Int /\ d.btab[v] <= d.stamp
      /\ \A u \in U : d.btab[u] <= d.bumped
  BY QueueTypes, ZenonT(30) DEF QueueOK
<1>2. \A v \in E : Stays(m, v) => v \in S
  BY DEF Renames, Stays
<1>3. /\ \A v \in S : m[v] \in Idx /\ key[m[v]] = d.btab[v]
      /\ key \in [Idx -> Int]
  <2>1. \A v \in S : v \in Idx /\ d.btab[v] \in Int
    BY <1>1 DEF Renames
  <2>2. 0 \in Int
    OBVIOUS
  <2> HIDE DEF key
  <2>3. \A v \in S : m[v] \in Idx /\ key[m[v]] = d.btab[v]
    BY MapVectorFacts DEF key
  <2>4. \A T : 0 \in T /\ (\A v \in S : d.btab[v] \in T) => key \in [Idx -> T]
    BY MapVectorFacts DEF key
  <2> QED
    BY <2>1, <2>2, <2>3, <2>4
<1> HIDE DEF key
<1>4. R \subseteq Idx /\ \A w \in R : key[w] <= d.bumped /\ key[w] <= d.stamp
  <2> SUFFICES ASSUME NEW v \in E, Stays(m, v)
               PROVE  m[v] \in Idx /\ key[m[v]] <= d.bumped /\ key[m[v]] <= d.stamp
    BY DEF Renamed
  <2>1. v \in S /\ v \in U
    BY <1>2
  <2> QED
    BY <1>1, <1>3, <2>1
<1>5. Lists(b, E, d.btab) /\ Arranges(b, E)
  <2>1. Lists(b, E, d.btab)
    BY <1>1, BackwardsFacts
  <2> HIDE DEF b
  <2> QED
    BY <1>1, <2>1, ListArranges
<1> HIDE DEF b
<1>6. Lists(x, R, key) /\ Arranges(x, R)
  <2>1. /\ Arranges(x, R)
        /\ Lists(b, E, d.btab) /\ (\A v \in S : key[m[v]] = d.btab[v]) => Lists(x, R, key)
    BY <1>5, MapSeqFacts
  <2> QED
    BY <1>3, <1>5, <2>1
<1> HIDE DEF x, R
<1>7. /\ x \in Seq(R) /\ Len(x) \in Nat /\ \A w \in R : \E k \in 1..Len(x) : x[k] = w
      /\ \A j, k \in 1..Len(x) : j < k => key[x[k]] < key[x[j]]
  <2>1. /\ x \in Seq(R) /\ \A w \in R : \E k \in 1..Len(x) : x[k] = w
        /\ \A j, k \in 1..Len(x) : j < k => key[x[k]] < key[x[j]]
    BY <1>6, Zenon DEF Lists
  <2>2. Len(x) \in Nat
    BY <2>1
  <2> QED
    BY <2>1, <2>2
<1>8. /\ order \in Seq(R) /\ Len(order) = Len(x)
      /\ \A k \in 1..Len(x) : Len(x) - k + 1 \in 1..Len(x) /\ order[k] = x[Len(x) - k + 1]
  BY <1>7, ReverseFacts
<1> HIDE DEF order
<1>9. \A w \in R : \E k \in 1..Len(order) : order[k] = w
  <2> SUFFICES ASSUME NEW w \in R PROVE \E k \in 1..Len(order) : order[k] = w
    OBVIOUS
  <2>1. PICK k \in 1..Len(x) : x[k] = w
    BY <1>7
  <2>2. Len(x) - k + 1 \in 1..Len(x) /\ Len(x) - (Len(x) - k + 1) + 1 = k
    BY <1>7
  <2> QED
    BY <1>8, <2>1, <2>2
<1>10. ASSUME NEW j \in 1..Len(order), NEW k \in 1..Len(order), j < k
       PROVE  key[order[j]] < key[order[k]]
  <2>1. Len(x) - k + 1 < Len(x) - j + 1
    BY <1>7, <1>8, <1>10, SMTT(30)
  <2> QED
    BY <1>7, <1>8, <2>1
<1>11. /\ Keyed(R, key)
       /\ IsFirst(R, key, Nth(order, 1)) /\ IsLast(R, key, Nth(order, Len(order)))
       /\ \A v \in R : IsPrev(R, key, v, LinksOf(order, -1)[v]) /\ IsNext(R, key, v, LinksOf(order, 1)[v])
       /\ LinksOf(order, -1) \in [Idx -> Nat] /\ LinksOf(order, 1) \in [Idx -> Nat]
       /\ Nth(order, 1) \in Nat /\ Nth(order, Len(order)) \in Nat
       /\ IF R = {} THEN Nth(order, Len(order)) = 0 ELSE Nth(order, Len(order)) \in R
  BY <1>3, <1>4, <1>8, <1>9, <1>10, OrderLinks
<1>12. /\ e.first = Nth(order, 1) /\ e.last = Nth(order, Len(order))
       /\ e.unassigned = Nth(order, Len(order)) /\ e.bumped = d.bumped /\ e.stamp = d.stamp
       /\ e.prev = LinksOf(order, -1) /\ e.next = LinksOf(order, 1) /\ e.btab = key
       /\ e \in Queues
  BY <1>1, <1>3, <1>11 DEF Relinked, Queues, key
<1>13. e = MapQueue(m, d)
  BY MapQueueRelinks DEF order, x, b
<1> HIDE DEF e
<1>14. Linked(e, R, e.btab)
  BY <1>11, <1>12 DEF Linked
<1>15. \A w \in R : ~(e.btab[w] > e.btab[e.unassigned])
  <2> SUFFICES ASSUME NEW w \in R PROVE ~(key[w] > key[e.unassigned])
    BY <1>12
  <2>1. e.unassigned \in R /\ key[w] <= key[e.unassigned]
    BY <1>11, <1>12 DEF IsLast
  <2>2. key[w] \in Int /\ key[e.unassigned] \in Int
    BY <1>3, <1>4, <2>1
  <2> QED
    BY <2>1, <2>2
<1>16. QueueOK(e, R, R)
  BY <1>1, <1>4, <1>11, <1>12, <1>14, <1>15 DEF QueueOK
<1>17. Grounded(e, R)
  BY <1>4, <1>12 DEF Grounded
<1> QED
  BY <1>13, <1>16, <1>17 DEF R

\* The heap of the variables that stay.
LEMMA MapScoresFacts ==
  ASSUME NEW m, NEW S, NEW c, Renames(m, S, c), c \in 0..MaxVar, MaxVar \in Nat, maxVar \in Nat,
         Vars \subseteq Idx,
         NEW h, HeapTree(h), NEW M, M \subseteq Vars, \A w : In(w, h.heap) <=> w \in M
  PROVE  LET R == Renamed(m, M)
             e == MapScores(m, h)
         IN  HeapTree(e) /\ e.stab = MapVector(m, h.stab, 0) /\ e.inc = h.inc /\ \A w : In(w, e.heap) <=> w \in R
<1> DEFINE R == Renamed(m, M)
           b == ByScore(h)
           x == MapSeq(m, b)
           g == MapVector(m, h.stab, 0)
           z == [heap |-> <<>>, stab |-> g, inc |-> h.inc]
           e == MapScores(m, h)
<1>1. /\ h.stab \in [Idx -> Nat] /\ h.inc \in Nat
  BY HeapTypes DEF HeapTree
<1>2. \A v \in M : Stays(m, v) => v \in S
  BY DEF Renames, Stays
<1>3. (\A v \in S : m[v] \in Idx) /\ g \in [Idx -> Nat]
  <2>1. \A v \in S : v \in Idx /\ h.stab[v] \in Nat
    BY <1>1 DEF Renames
  <2>2. 0 \in Nat
    OBVIOUS
  <2> HIDE DEF g
  <2>3. \A v \in S : m[v] \in Idx
    BY MapVectorFacts
  <2>4. \A T : 0 \in T /\ (\A v \in S : h.stab[v] \in T) => g \in [Idx -> T]
    BY MapVectorFacts DEF g
  <2> QED
    BY <2>1, <2>2, <2>3, <2>4
<1>4. Arranges(b, M)
  BY ByScoreFacts
<1> HIDE DEF b
<1>5. Arranges(x, R)
  BY <1>4, MapSeqFacts
<1>6. R \subseteq Idx
  BY <1>2, <1>3 DEF Renamed
<1>7. e = Fold(PushBack, z, x)
  BY DEF MapScores, b
<1> HIDE DEF g, x, R
<1>8. z \in Heaps /\ z.heap = <<>> /\ z.stab = g /\ z.inc = h.inc
  BY <1>1, <1>3 DEF Heaps
<1> HIDE DEF e, z
<1>9. HeapTree(e) /\ e.stab = z.stab /\ e.inc = z.inc /\ \A w : In(w, e.heap) <=> w \in R
  <2> DEFINE y == Fold(PushBack, z, x)
  <2>1. HeapTree(y) /\ y.stab = z.stab /\ y.inc = z.inc /\ \A w : In(w, y.heap) <=> w \in R
    BY <1>5, <1>6, <1>8, PushAllFacts
  <2>2. e = y
    BY <1>7
  <2> HIDE DEF y
  <2> QED
    BY <2>1, <2>2
<1> QED
  BY <1>8, <1>9 DEF e, R, g

-----------------------------------------------------------------------------
(* The invariant: queue, heap, trail, phases and names agree.              *)

\* The phases of the variables.
Marks == [saved : [Idx -> {1, -1}], forced : [Idx -> {-1, 0, 1}],
          target : [Idx -> {-1, 0, 1}], best : [Idx -> {-1, 0, 1}]]

\* Sizes of conflict-free trails of at most n variables.
Sizes(n) == [target : 0..n, best : 0..n, until : 0..n]

\* A literal assigned at the root.
Rooted(tr, l) == Assigned(tr, l) /\ LevelOf(tr, l) = 0

\* The queue d, which holds the variables of E, and the heap h find what is
\* unassigned of the first n variables; what is not queued is fixed.
Found(d, h, tr, n, E) ==
  /\ E \subseteq 1..n /\ QueueOK(d, E, Free(tr, n)) /\ Grounded(d, E)
  /\ HeapOK(h, 1..n, Free(tr, n))
  /\ \A v \in (1..n) \ E : Rooted(tr, v)

\* The saved phases are the values above the root.
Agrees(tr, saved) ==
  \A k \in Positions(tr) :
    tr.trail[k].level > 0 => saved[VarOf(tr.trail[k].lit)] = Sign(tr.trail[k].lit)

\* External variables that are not fixed have internal variables of their own.
Named(names, tr, n) ==
  /\ names \in [Idx -> Int]
  /\ \A e \in Idx :
       /\ VarOf(names[e]) \in 0..n
       /\ names[e] # 0 /\ ~Rooted(tr, names[e]) =>
            names[e] > 0 /\ \A f \in Idx \ {e} : VarOf(names[f]) # names[e]

\* What every step keeps.
Decides ==
  /\ opts \in Options /\ maxVar \in 0..MaxVar /\ inactive \subseteq 1..maxVar
  /\ conflicts \in Nat /\ compacts \in Nat
  /\ Stack(t, maxVar)
  /\ \E E : Found(q, s, t, maxVar, E)
  /\ Scaled(s)
  /\ phases \in Marks /\ Agrees(t, phases.saved)
  /\ Named(e2i, t, maxVar)
  /\ assigned \in Sizes(maxVar)

\* Fewer unassigned variables.
LEMMA FewerFree ==
  ASSUME NEW d, NEW h, NEW E, NEW M, NEW U, NEW V, V \subseteq U
  PROVE  /\ QueueOK(d, E, U) => QueueOK(d, E, V)
         /\ HeapOK(h, M, U) => HeapOK(h, M, V)
BY DEF QueueOK, HeapOK

\* The constants and the number of variables.
LEMMA ConstantFacts ==
  ASSUME maxVar \in 0..MaxVar
  PROVE  /\ MaxVar \in Nat /\ maxVar \in Nat /\ Vars = 1..maxVar /\ Vars \subseteq Idx
         /\ \A v \in Idx : v \in Nat /\ v # 0 /\ VarOf(v) = v /\ VarOf(-v) = v
<1>1. MaxVar \in Nat
  BY DecideAssumption
<1> QED
  BY <1>1 DEF Vars, Idx, VarOf

\* What stays fixed keeps its place.
LEMMA FoundStays ==
  ASSUME NEW d, NEW h, NEW tr, NEW u, NEW n \in Nat, NEW E, Found(d, h, tr, n, E),
         \A l \in Int : Rooted(tr, l) => Rooted(u, l), Free(u, n) \subseteq Free(tr, n)
  PROVE  Found(d, h, u, n, E)
<1>1. QueueOK(d, E, Free(u, n)) /\ HeapOK(h, 1..n, Free(u, n))
  BY FewerFree DEF Found
<1>2. \A v \in (1..n) \ E : Rooted(u, v)
  BY DEF Found
<1> QED
  BY <1>1, <1>2 DEF Found

\* The names stay while what is fixed stays fixed.
LEMMA NamedStays ==
  ASSUME NEW names, NEW tr, NEW u, NEW n, Named(names, tr, n),
         \A l \in Int : Rooted(tr, l) => Rooted(u, l)
  PROVE  Named(names, u, n)
BY DEF Named

\* A literal put on the trail is saved.
LEMMA AgreesOnTop ==
  ASSUME NEW tr, NEW u, NEW n \in Nat, n <= MaxVar, Stack(tr, n), NEW l \in Int, VarOf(l) \in 1..n,
         ~Assigned(tr, l), Positions(u) = Positions(tr) \cup {Len(tr.trail) + 1},
         \A k \in Positions(tr) : u.trail[k] = tr.trail[k], u.trail[Len(tr.trail) + 1].lit = l,
         NEW saved \in [Idx -> {1, -1}], Agrees(tr, saved)
  PROVE  Agrees(u, [saved EXCEPT ![VarOf(l)] = Sign(l)])
<1> DEFINE new == [saved EXCEPT ![VarOf(l)] = Sign(l)]
<1>1. MaxVar \in Nat /\ 1..n \subseteq Idx
  BY DecideAssumption DEF Idx
<1>2. new[VarOf(l)] = Sign(l) /\ \A v \in Idx : v # VarOf(l) => new[v] = saved[v]
  BY <1>1
<1> HIDE DEF new
<1>3. ASSUME NEW k \in Positions(tr)
      PROVE  VarOf(tr.trail[k].lit) \in Idx /\ VarOf(tr.trail[k].lit) # VarOf(l)
  <2>1. VarOf(tr.trail[k].lit) \in 1..n /\ Assigned(tr, VarOf(tr.trail[k].lit))
    BY StackFacts
  <2>2. ~Assigned(tr, VarOf(l))
    BY StackFacts
  <2> QED
    BY <1>1, <2>1, <2>2
<1> QED
  BY <1>2, <1>3 DEF Agrees, new

\* What is left of the trail agrees with the saved phases.
LEMMA AgreesLess ==
  ASSUME NEW tr, NEW u, NEW saved, Agrees(tr, saved),
         \A i \in Positions(u) : \E k \in Positions(tr) : u.trail[i] = tr.trail[k]
  PROVE  Agrees(u, saved)
BY DEF Agrees

\* Saving the phase of a literal.
LEMMA SavedFacts ==
  ASSUME NEW p \in Marks, NEW l \in Int, VarOf(l) \in Idx
  PROVE  LET new == Saved(p, l) IN
         /\ new \in Marks /\ new.saved = [p.saved EXCEPT ![VarOf(l)] = Sign(l)]
         /\ new.target = p.target /\ new.best = p.best /\ new.forced = p.forced
<1> DEFINE sv == [p.saved EXCEPT ![VarOf(l)] = Sign(l)]
<1>1. p.saved \in [Idx -> {1, -1}] /\ Sign(l) \in {1, -1}
  BY DEF Marks, Sign
<1>2. sv \in [Idx -> {1, -1}]
  BY <1>1
<1>3. Saved(p, l) = [p EXCEPT !.saved = sv]
  BY DEF Saved
<1> HIDE DEF sv
<1> QED
  BY <1>2, <1>3 DEF Marks, sv

\* The greater of two numbers.
LEMMA MaxOfTwo ==
  ASSUME NEW n \in Nat, NEW a \in 0..n, NEW b \in 0..n
  PROVE  Max({a, b}) \in {a, b} /\ Max({a, b}) \in 0..n
<1>1. {a, b} \subseteq Nat /\ {a, b} # {} /\ \A x \in {a, b} : x <= n
  OBVIOUS
<1>2. Max({a, b}) \in {a, b}
  BY <1>1, MaxIsGreatest
<1> QED
  BY <1>2

\* Target and best phases are those saved now or those they were.
LEMMA UpdateFacts ==
  ASSUME phases \in Marks, maxVar \in Nat, assigned \in Sizes(maxVar), NEW until \in 0..maxVar
  PROVE  LET p == UpdateTargetAndBest(until) IN
         /\ p.phases \in Marks /\ p.phases.saved = phases.saved /\ p.phases.forced = phases.forced
         /\ p.phases.target # phases.target => p.phases.target = phases.saved
         /\ p.assigned \in Sizes(maxVar) /\ p.assigned.until = until
<1> DEFINE target == IF Reset THEN 0 ELSE assigned.target
           best == IF Reset /\ rephased.type = "best" THEN 0 ELSE assigned.best
           T == IF until > target THEN phases.saved ELSE phases.target
           B == IF until > best THEN phases.saved ELSE phases.best
           p == UpdateTargetAndBest(until)
<1>1. target \in 0..maxVar /\ best \in 0..maxVar
  BY DEF Sizes
<1>2. /\ p.phases = [phases EXCEPT !.target = T, !.best = B]
      /\ p.assigned = [target |-> Max({target, until}), best |-> Max({best, until}), until |-> until]
  <2>1. p.phases = [phases EXCEPT !.target = IF until > target THEN phases.saved ELSE @,
                                  !.best = IF until > best THEN phases.saved ELSE @]
    BY DEF UpdateTargetAndBest
  <2> HIDE DEF target, best
  <2>2. p.phases = [phases EXCEPT !.target = T, !.best = B]
    BY <2>1 DEF Marks
  <2>3. p.assigned = [target |-> Max({target, until}), best |-> Max({best, until}), until |-> until]
    BY DEF UpdateTargetAndBest, target, best
  <2> QED
    BY <2>2, <2>3
<1>3. Max({target, until}) \in 0..maxVar /\ Max({best, until}) \in 0..maxVar
  <2> HIDE DEF target, best
  <2> QED
    BY <1>1, MaxOfTwo
<1>4. T \in [Idx -> {-1, 0, 1}] /\ B \in [Idx -> {-1, 0, 1}]
  BY DEF Marks
<1>5. T # phases.target => T = phases.saved
  OBVIOUS
<1> HIDE DEF T, B, target, best, p
<1>6. /\ p.phases \in Marks /\ p.phases.saved = phases.saved /\ p.phases.forced = phases.forced
      /\ p.phases.target = T
  BY <1>2, <1>4 DEF Marks
<1>7. p.assigned \in Sizes(maxVar) /\ p.assigned.until = until
  BY <1>2, <1>3 DEF Sizes
<1> QED
  BY <1>5, <1>6, <1>7 DEF p

\* The same for backtracking.
LEMMA OnBacktrackFacts ==
  ASSUME phases \in Marks, maxVar \in Nat, assigned \in Sizes(maxVar), NEW new
  PROVE  LET p == OnBacktrack(new) IN
         /\ p.phases \in Marks /\ p.phases.saved = phases.saved
         /\ p.assigned \in Sizes(maxVar)
<1> DEFINE p == OnBacktrack(new)
           r == UpdateTargetAndBest(assigned.until)
<1>1. assigned.until \in 0..maxVar
  BY DEF Sizes
<1>2. /\ r.phases \in Marks /\ r.phases.saved = phases.saved /\ r.assigned \in Sizes(maxVar)
  BY <1>1, UpdateFacts
<1>3. p = IF new < Level(t) THEN r
          ELSE [phases |-> phases, assigned |-> assigned, rephased |-> rephased]
  BY DEF OnBacktrack
<1> HIDE DEF p, r
<1>4. CASE new < Level(t)
  BY <1>2, <1>3, <1>4 DEF p
<1>5. CASE ~(new < Level(t))
  BY <1>3, <1>5 DEF p
<1> QED
  BY <1>4, <1>5

-----------------------------------------------------------------------------
(* Assigning, deciding and new variables.                                  *)

\* A literal was put on the trail tr.
Topped(tr, u, l, n) ==
  /\ Stack(u, n) /\ Free(u, n) = Free(tr, n) \ {VarOf(l)}
  /\ Positions(u) = Positions(tr) \cup {Len(tr.trail) + 1}
  /\ \A k \in Positions(tr) : u.trail[k] = tr.trail[k]
  /\ u.trail[Len(tr.trail) + 1].lit = l
  /\ \A k \in Int : Assigned(tr, k) => Val(u, k) = Val(tr, k) /\ LevelOf(u, k) = LevelOf(tr, k)

\* What a literal on top of the trail does to the phases and to what is fixed.
LEMMA TopFacts ==
  ASSUME maxVar \in 0..MaxVar, NEW tr, Stack(tr, maxVar), NEW l \in Int, VarOf(l) \in 1..maxVar,
         ~Assigned(tr, l), NEW u, Topped(tr, u, l, maxVar), NEW p \in Marks, Agrees(tr, p.saved)
  PROVE  /\ Saved(p, l) \in Marks /\ Agrees(u, Saved(p, l).saved) /\ Stack(u, maxVar)
         /\ Saved(p, l).target = p.target
         /\ Free(u, maxVar) \subseteq Free(tr, maxVar)
         /\ \A k \in Int : Rooted(tr, k) => Rooted(u, k)
<1>1. maxVar \in Nat /\ maxVar <= MaxVar /\ VarOf(l) \in Idx
  BY ConstantFacts DEF Vars
<1>2. /\ Saved(p, l) \in Marks /\ Saved(p, l).saved = [p.saved EXCEPT ![VarOf(l)] = Sign(l)]
      /\ Saved(p, l).target = p.target
  BY <1>1, SavedFacts
<1>3. p.saved \in [Idx -> {1, -1}]
  BY DEF Marks
<1>4. Agrees(u, Saved(p, l).saved)
  BY <1>1, <1>2, <1>3, AgreesOnTop DEF Topped
<1>5. \A k \in Int : Rooted(tr, k) => Rooted(u, k)
  BY DEF Topped, Rooted, Assigned
<1> QED
  BY <1>2, <1>4, <1>5 DEF Topped

\* A literal is assigned and queue and heap are as before.
LEMMA TopKeeps ==
  ASSUME Decides, NEW l \in Int, VarOf(l) \in 1..maxVar, ~Assigned(t, l), Topped(t, t', l, maxVar),
         phases' = Saved(phases, l),
         UNCHANGED <<opts, maxVar, e2i, inactive, conflicts, assigned, compacts>>,
         Scaled(s'), \E E : Found(q', s', t, maxVar, E)
  PROVE  Decides'
<1>1. /\ phases' \in Marks /\ Agrees(t', phases'.saved) /\ Stack(t', maxVar)
      /\ Free(t', maxVar) \subseteq Free(t, maxVar)
      /\ \A k \in Int : Rooted(t, k) => Rooted(t', k)
  BY TopFacts DEF Decides
<1>2. maxVar \in Nat
  BY ConstantFacts DEF Decides
<1>3. \E E : Found(q', s', t', maxVar, E)
  BY <1>1, <1>2, FoundStays
<1>4. Named(e2i, t', maxVar)
  BY <1>1, NamedStays DEF Decides
<1> QED
  BY <1>1, <1>3, <1>4 DEF Decides

\* AddUnit.
LEMMA AddUnitDecides ==
  ASSUME Decides, NEW l \in LitsOf(maxVar), AddUnit(l)
  PROVE  Decides'
<1>1. maxVar \in Nat /\ Stack(t, maxVar)
  BY ConstantFacts DEF Decides
<1>2. l \in Int /\ VarOf(l) \in 1..maxVar
  BY <1>1, LitFacts
<1>3. ~Assigned(t, l) /\ 0 \in 0..Level(t)
  <2>1. Positions(t) = {} /\ Level(t) \in Nat
    BY <1>1, TrailTypes DEF AddUnit, Positions, Stack
  <2> QED
    BY <1>1, <1>2, <2>1, StackFacts
<1>4. Topped(t, SaveAssign(t, l, 0), l, maxVar)
  BY <1>1, <1>2, <1>3, StackOnTop DEF Topped
<1> QED
  BY <1>2, <1>3, <1>4, TopKeeps DEF AddUnit, Decides

\* Propagate.
LEMMA PropagateDecides ==
  ASSUME Decides, NEW l \in LitsOf(maxVar), Propagate(l)
  PROVE  Decides'
<1>1. maxVar \in Nat /\ Stack(t, maxVar)
  BY ConstantFacts DEF Decides
<1>2. l \in Int /\ VarOf(l) \in 1..maxVar
  BY <1>1, LitFacts
<1>3. PICK lev \in {0, Level(t)} : t' = SaveAssign(t, l, lev)
  BY DEF Propagate
<1>4. lev \in 0..Level(t)
  BY <1>1, TrailTypes DEF Stack
<1>5. Topped(t, SaveAssign(t, l, lev), l, maxVar)
  BY <1>1, <1>2, <1>4, StackOnTop DEF Topped, Propagate
<1> QED
  BY <1>2, <1>3, <1>5, TopKeeps DEF Propagate, Decides

\* How far propagation is does not change what is assigned.
LEMMA PropagatedStack ==
  ASSUME NEW tr, NEW n, Stack(tr, n), NEW k \in Nat
  PROVE  LET u == [tr EXCEPT !.propagated = k] IN
         /\ Stack(u, n) /\ Positions(u) = Positions(tr) /\ Level(u) = Level(tr)
         /\ u.trail = tr.trail /\ u.control = tr.control
         /\ \A l : Val(u, l) = Val(tr, l) /\ LevelOf(u, l) = LevelOf(tr, l)
<1> DEFINE u == [tr EXCEPT !.propagated = k]
<1>1. tr \in Trails
  BY DEF Stack
<1>2. u = [trail |-> tr.trail, control |-> tr.control, propagated |-> k] /\ u \in Trails
  <2>1. u = [trail |-> tr.trail, control |-> tr.control, propagated |-> k]
    BY <1>1, TrailFields
  <2> QED
    BY <1>1, <2>1 DEF Trails
<1>3. u.trail = tr.trail /\ u.control = tr.control
  BY <1>2
<1>4. /\ Positions(u) = Positions(tr) /\ Level(u) = Level(tr) /\ Distinct(u) = Distinct(tr)
      /\ \A l : Val(u, l) = Val(tr, l) /\ LevelOf(u, l) = LevelOf(tr, l)
  BY <1>3 DEF Positions, Level, Distinct, Val, LevelOf, Pos, TrueLits
<1>5. Stack(u, n)
  BY <1>2, <1>3, <1>4 DEF Stack
<1> QED
  BY <1>3, <1>4, <1>5

\* PropagateDone.
LEMMA PropagateDoneDecides ==
  ASSUME Decides, PropagateDone
  PROVE  Decides'
<1>1. maxVar \in Nat /\ Stack(t, maxVar)
  BY ConstantFacts DEF Decides
<1>2. Len(t.trail) \in 0..maxVar /\ Len(t.trail) \in Nat
  BY <1>1, StackLength
<1>3. t' = [t EXCEPT !.propagated = Len(t.trail)]
  BY DEF PropagateDone
<1>4. /\ Stack(t', maxVar) /\ Positions(t') = Positions(t) /\ t'.trail = t.trail
      /\ \A k : Val(t', k) = Val(t, k) /\ LevelOf(t', k) = LevelOf(t, k)
  BY <1>1, <1>2, <1>3, PropagatedStack
<1>5. Agrees(t', phases.saved)
  BY <1>4 DEF Decides, Agrees
<1>6. Free(t', maxVar) \subseteq Free(t, maxVar) /\ \A k \in Int : Rooted(t, k) => Rooted(t', k)
  BY <1>4 DEF Free, Rooted, Assigned
<1>7. assigned' \in Sizes(maxVar)
  <2>1. assigned' = [assigned EXCEPT !.until = Len(t.trail)] /\ assigned \in Sizes(maxVar)
    BY DEF PropagateDone, Decides
  <2> QED
    BY <1>2, <2>1 DEF Sizes
<1>8. \E E : Found(q', s', t', maxVar, E)
  <2>1. q' = q /\ s' = s
    BY DEF PropagateDone
  <2>2. PICK E : Found(q, s, t, maxVar, E)
    BY DEF Decides
  <2> QED
    BY <1>1, <1>6, <2>1, <2>2, FoundStays
<1>9. Named(e2i, t', maxVar)
  BY <1>6, NamedStays DEF Decides
<1> QED
  BY <1>4, <1>5, <1>7, <1>8, <1>9 DEF Decides, PropagateDone

\* Stabilize and Eliminate.
LEMMA StabilizeDecides ==
  ASSUME Decides, Stabilize \/ \E v \in Vars : Eliminate(v)
  PROVE  Decides'
<1>1. /\ UNCHANGED <<opts, maxVar, conflicts, compacts, t, q, s, phases, e2i, assigned>>
      /\ inactive' = inactive \/ \E v \in Vars : inactive' = inactive \cup {v}
  BY DEF Stabilize, Eliminate
<1> QED
  BY <1>1 DEF Decides, Vars

\* Phase.
LEMMA PhaseDecides ==
  ASSUME Decides, NEW l \in Int, Phase(l)
  PROVE  Decides'
<1>1. VarOf(l) \in Idx /\ Sign(l) \in {-1, 0, 1} /\ phases \in Marks
  BY ConstantFacts DEF Decides, Phase, Sign
<1>2. PICK x \in {-1, 0, 1} : phases' = [phases EXCEPT !.forced[VarOf(l)] = x]
  BY <1>1 DEF Phase
<1>3. phases' \in Marks /\ phases'.saved = phases.saved
  <2>1. [phases.forced EXCEPT ![VarOf(l)] = x] \in [Idx -> {-1, 0, 1}]
    BY <1>1 DEF Marks
  <2> DEFINE f == [phases.forced EXCEPT ![VarOf(l)] = x]
  <2>2. phases' = [phases EXCEPT !.forced = f]
    BY <1>2
  <2> HIDE DEF f
  <2> QED
    BY <1>1, <2>1, <2>2 DEF Marks, f
<1>4. UNCHANGED <<opts, maxVar, e2i, inactive, q, s, t, assigned, conflicts, compacts>>
  BY DEF Phase
<1> QED
  BY <1>3, <1>4 DEF Decides

\* The values a phase is taken from are phases or 0.
LEMMA DecidePhaseFacts ==
  ASSUME phases \in Marks, opts \in Options, NEW v \in Idx
  PROVE  DecidePhase(v) \in {1, -1}
<1> DEFINE tried ==
        << phases.forced[v], IF opts.forcephase THEN opts.phase ELSE 0,
           IF opts.target = 2 \/ (stable /\ opts.target = 1) THEN phases.target[v] ELSE 0,
           phases.saved[v], opts.phase >>
           S == {i \in 1..5 : tried[i] # 0}
<1>1. opts.phase \in {1, -1} /\ phases.saved[v] \in {1, -1} /\ phases.forced[v] \in {-1, 0, 1}
      /\ phases.target[v] \in {-1, 0, 1}
  BY DecideAssumption DEF Marks
<1>2. \A i \in 1..5 : tried[i] \in {-1, 0, 1}
  BY <1>1
<1>3. 5 \in S
  BY <1>1
<1>4. DecidePhase(v) = tried[Min(S)]
  BY DEF DecidePhase
<1> HIDE DEF tried
<1>5. S \subseteq Nat /\ S # {} /\ S \subseteq 1..5
  BY <1>3
<1>6. Min(S) \in S
  BY <1>5, MinIsLeast
<1>7. tried[Min(S)] \in {-1, 0, 1} /\ tried[Min(S)] # 0
  BY <1>2, <1>6
<1> QED
  BY <1>4, <1>7

\* The heap after the pops that lead to a decision or a restart.
LEMMA FoundPops ==
  ASSUME maxVar \in Nat, NEW d, NEW h, NEW E, Found(d, h, t, maxVar, E), Free(t, maxVar) # {}
  PROVE  LET e == PopAssigned(h, t) IN
         /\ Found(d, e, t, maxVar, E) /\ (Scaled(h) => Scaled(e))
         /\ e.stab = h.stab /\ e.inc = h.inc /\ e.heap[1] \in Free(t, maxVar)
         /\ \A u \in Free(t, maxVar) : h.stab[u] <= h.stab[e.heap[1]]
<1> DEFINE e == PopAssigned(h, t)
<1>1. HeapOK(h, 1..maxVar, Free(t, maxVar))
  BY DEF Found
<1>2. PICK u \in Free(t, maxVar) : In(u, h.heap) /\ ~Assigned(t, u)
  BY <1>1 DEF HeapOK, Free
<1>3. /\ HeapTree(e) /\ e.stab = h.stab /\ e.inc = h.inc
      /\ \A x : In(x, e.heap) => In(x, h.heap)
      /\ \A x : In(x, h.heap) /\ ~Assigned(t, x) => In(x, e.heap)
      /\ Len(e.heap) >= 1 /\ ~Assigned(t, e.heap[1])
      /\ \A x : In(x, e.heap) => e.stab[x] <= e.stab[e.heap[1]]
  BY <1>1, <1>2, PopAssignedFacts DEF HeapOK
<1> HIDE DEF e
<1>4. HeapOK(e, 1..maxVar, Free(t, maxVar))
  BY <1>1, <1>3 DEF HeapOK, Free
<1>5. e.heap[1] \in 1..maxVar
  <2>1. Len(e.heap) \in Nat
    BY <1>3, HeapTypes DEF HeapTree
  <2>2. In(e.heap[1], e.heap)
    BY <1>3, <2>1 DEF In
  <2> QED
    BY <1>4, <2>2 DEF HeapOK
<1>6. \A w \in Free(t, maxVar) : h.stab[w] <= h.stab[e.heap[1]]
  BY <1>1, <1>3 DEF HeapOK, Free
<1>7. Found(d, e, t, maxVar, E)
  BY <1>4 DEF Found
<1>8. Scaled(h) => Scaled(e)
  BY <1>3 DEF Scaled
<1> QED
  BY <1>3, <1>5, <1>6, <1>7, <1>8 DEF e, Free

\* What is queued is unassigned or not, and all that is unassigned is queued.
LEMMA QueuedFree ==
  ASSUME NEW d, NEW h, NEW tr, NEW n, NEW E, Found(d, h, tr, n, E)
  PROVE  /\ E \subseteq 1..n /\ Free(tr, n) \subseteq E
         /\ \A v \in E : Assigned(tr, v) = (v \notin Free(tr, n))
<1>1. E \subseteq 1..n /\ Free(tr, n) \subseteq E
  BY DEF Found, QueueOK
<1>2. \A v \in E : Assigned(tr, v) \in BOOLEAN
  BY DEF Assigned
<1>3. \A v \in E : v \in Free(tr, n) <=> ~Assigned(tr, v)
  BY <1>1 DEF Free
<1> QED
  BY <1>1, <1>2, <1>3

\* The queue after the search for a decision.
LEMMA FoundSearch ==
  ASSUME maxVar \in Nat, NEW d, NEW h, NEW E, Found(d, h, t, maxVar, E), Free(t, maxVar) # {}
  PROVE  LET e == SearchQueue(d, t) IN
         /\ Found(e, h, t, maxVar, E) /\ e.unassigned \in Free(t, maxVar) /\ e.btab = d.btab
         /\ \A u \in Free(t, maxVar) : e.btab[u] <= e.btab[e.unassigned]
<1> DEFINE e == SearchQueue(d, t)
           U == Free(t, maxVar)
<1>1. QueueOK(d, E, U) /\ Grounded(d, E) /\ E \subseteq Vars
  BY DEF Found, Vars
<1>2. \A v \in E : Assigned(t, v) = (v \notin U)
  BY QueuedFree
<1> HIDE DEF U
<1>3. /\ QueueOK(e, E, U) /\ (Grounded(d, E) => Grounded(e, E))
      /\ e.unassigned \in U /\ \A u \in U : e.btab[u] <= e.btab[e.unassigned]
  BY <1>1, <1>2, SearchQueueFacts DEF U
<1>4. e.btab = d.btab
  <2>1. \E v : e = IF v = d.unassigned THEN d ELSE UpdateQueueUnassigned(d, v)
    BY DEF SearchQueue
  <2>2. d \in Queues
    BY <1>1, QueueTypes
  <2> QED
    BY <2>1, <2>2 DEF UpdateQueueUnassigned, Queues
<1> HIDE DEF e
<1> QED
  BY <1>1, <1>3, <1>4 DEF Found, e, U

\* TakeDecision.
LEMMA TakeDecisionFacts ==
  ASSUME Decides, TakeDecision
  PROVE  LET v == NextVariable(q', s')
             l == DecidePhase(v) * v
         IN  /\ v \in Free(t, maxVar) /\ l \in Int /\ VarOf(l) = v
             /\ t' = AssumeDecision(t, l) /\ phases' = Saved(phases, l)
             /\ Scaled(s') /\ (\E E : Found(q', s', t, maxVar, E))
             /\ s'.stab = s.stab /\ s'.inc = s.inc
             /\ \A u \in Free(t, maxVar) : IF UseScores THEN s.stab[u] <= s.stab[v]
                                                        ELSE q.btab[u] <= q.btab[v]
<1> DEFINE v == NextVariable(q', s')
           l == DecidePhase(v) * v
           Best(x) == \A u \in Free(t, maxVar) : IF UseScores THEN s.stab[u] <= s.stab[x]
                                                              ELSE q.btab[u] <= q.btab[x]
<1>1. PICK E : Found(q, s, t, maxVar, E)
  BY DEF Decides
<1>2. maxVar \in Nat /\ Vars = 1..maxVar /\ Vars \subseteq Idx
  BY ConstantFacts DEF Decides
<1>3. Free(t, maxVar) # {}
  BY <1>2 DEF TakeDecision, CanDecide, Free
<1>4. /\ v \in Free(t, maxVar) /\ Scaled(s') /\ Found(q', s', t, maxVar, E) /\ Best(v)
      /\ s'.stab = s.stab /\ s'.inc = s.inc
  <2>1. CASE UseScores
    <3>1. q' = q /\ s' = PopAssigned(s, t) /\ v = s'.heap[1]
      BY <2>1 DEF TakeDecision, Searched, NextVariable
    <3> QED
      BY <1>1, <1>2, <1>3, <2>1, <3>1, FoundPops DEF Decides
  <2>2. CASE ~UseScores
    <3>1. q' = SearchQueue(q, t) /\ s' = s /\ v = q'.unassigned
      BY <2>2 DEF TakeDecision, Searched, NextVariable
    <3> QED
      BY <1>1, <1>2, <1>3, <2>2, <3>1, FoundSearch DEF Decides
  <2> QED
    BY <2>1, <2>2
<1>5. t' = AssumeDecision(t, l) /\ phases' = Saved(phases, l)
  BY DEF TakeDecision
<1> HIDE DEF v
<1>6. l \in Int /\ VarOf(l) = v
  <2>1. v \in Idx /\ v \in Nat
    BY <1>2, <1>4 DEF Free
  <2>2. DecidePhase(v) \in {1, -1}
    BY <2>1, DecidePhaseFacts DEF Decides
  <2>3. l = v \/ l = -v
    BY <2>1, <2>2
  <2> QED
    BY <2>1, <2>3, ConstantFacts DEF Decides, VarOf
<1> HIDE DEF l
<1> QED
  BY <1>4, <1>5, <1>6 DEF v, l

\* TakeDecision.
LEMMA TakeDecisionDecides ==
  ASSUME Decides, TakeDecision
  PROVE  Decides'
<1> DEFINE v == NextVariable(q', s')
           l == DecidePhase(v) * v
<1>1. /\ v \in Free(t, maxVar) /\ l \in Int /\ VarOf(l) = v
      /\ t' = AssumeDecision(t, l) /\ phases' = Saved(phases, l)
      /\ Scaled(s') /\ (\E E : Found(q', s', t, maxVar, E))
  BY TakeDecisionFacts
<1> HIDE DEF l
<1>2. maxVar \in Nat /\ Stack(t, maxVar)
  BY ConstantFacts DEF Decides
<1>3. ~Assigned(t, l) /\ VarOf(l) \in 1..maxVar
  <2>1. v \in 1..maxVar /\ ~Assigned(t, v)
    BY <1>1 DEF Free
  <2> QED
    BY <1>1, <1>2, <2>1, StackFacts
<1>4. Topped(t, AssumeDecision(t, l), l, maxVar)
  BY <1>1, <1>2, <1>3, StackDecide DEF Topped
<1> QED
  BY <1>1, <1>3, <1>4, TopKeeps DEF TakeDecision

\* NewVar.
LEMMA NewVarDecides ==
  ASSUME Decides, NEW x \in Idx, NewVar(x)
  PROVE  Decides' /\ s'.stab = s.stab /\ s'.inc = s.inc
<1> DEFINE n == maxVar
           v == maxVar + 1
           r == [q |-> q, s |-> s]
           d == NewVariable(r, v)
<1>1. n \in Nat /\ Stack(t, n) /\ v \in Idx /\ v \in 0..MaxVar /\ maxVar' = v /\ opts \in Options
  <2>1. n \in Nat /\ MaxVar \in Nat /\ n < MaxVar
    BY ConstantFacts DEF Decides, NewVar
  <2> QED
    BY <2>1 DEF Decides, NewVar, Idx
<1>2. PICK E : Found(q, s, t, n, E)
  BY DEF Decides
<1>3. Ready(r, E, 1..n, Free(t, n)) /\ Grounded(q, E) /\ E \subseteq 1..n
  BY <1>2 DEF Found, Ready
<1>4. v \notin 1..n /\ opts.reverse \in BOOLEAN
  BY <1>1, DecideAssumption
<1>5. /\ d \in [q : Queues, s : Heaps]
      /\ Ready(d, E \cup {v}, (1..n) \cup {v}, Free(t, n) \cup {v}) /\ Grounded(d.q, E \cup {v})
      /\ d.s.stab = s.stab /\ d.s.inc = s.inc
  <2>1. r.q = q /\ r.s = s
    OBVIOUS
  <2> DEFINE M == 1..n
             U == Free(t, n)
  <2>2. Ready(r, E, M, U) /\ E \subseteq M /\ v \notin M /\ v \in Idx /\ opts.reverse \in BOOLEAN
    BY <1>1, <1>3, <1>4
  <2>3. Grounded(r.q, E)
    BY <1>3, <2>1
  <2> HIDE DEF v, n, d, r, M, U
  <2>4. /\ d \in [q : Queues, s : Heaps]
        /\ Ready(d, E \cup {v}, M \cup {v}, U \cup {v}) /\ Grounded(d.q, E \cup {v})
        /\ d.s.stab = r.s.stab /\ d.s.inc = r.s.inc
    BY ONLY <2>2, <2>3, NewVariableFacts DEF d
  <2> QED
    BY <2>1, <2>4 DEF M, U
<1>6. q' = d.q /\ s' = d.s
  BY DEF NewVar
<1> HIDE DEF d
<1>7. Stack(t, v) /\ Free(t, v) = Free(t, n) \cup {v} /\ 1..v = (1..n) \cup {v}
  BY <1>1, StackMore
<1>8. t' = t /\ Found(q', s', t, v, E \cup {v})
  <2>1. t' = t
    BY DEF NewVar
  <2>2. QueueOK(q', E \cup {v}, Free(t, v)) /\ HeapOK(s', 1..v, Free(t, v))
    BY <1>5, <1>6, <1>7 DEF Ready
  <2>3. \A w \in (1..v) \ (E \cup {v}) : Rooted(t, w)
    BY <1>2, <1>7 DEF Found
  <2> QED
    BY <1>3, <1>5, <1>6, <1>7, <2>1, <2>2, <2>3 DEF Found
<1>9. Named(e2i', t, v)
  <2>1. e2i' = [e2i EXCEPT ![x] = v] /\ e2i \in [Idx -> Int]
        /\ \A e \in Idx : VarOf(e2i[e]) \in 0..n
    BY DEF NewVar, Decides, Named
  <2>2. e2i' \in [Idx -> Int] /\ e2i'[x] = v /\ \A e \in Idx \ {x} : e2i'[e] = e2i[e]
    BY <1>1, <2>1
  <2>3. VarOf(v) = v
    BY <1>1, ConstantFacts DEF Decides
  <2>4. ASSUME NEW e \in Idx
        PROVE  /\ VarOf(e2i'[e]) \in 0..v
               /\ e2i'[e] # 0 /\ ~Rooted(t, e2i'[e]) =>
                    e2i'[e] > 0 /\ \A f \in Idx \ {e} : VarOf(e2i'[f]) # e2i'[e]
    <3>1. CASE e = x
      <4>1. \A f \in Idx \ {x} : VarOf(e2i'[f]) # v
        BY <1>1, <2>1, <2>2
      <4> QED
        BY <1>1, <2>2, <2>3, <3>1, <4>1
    <3>2. CASE e # x
      <4>1. e2i'[e] = e2i[e] /\ VarOf(e2i[e]) \in 0..n /\ e2i[e] \in Int
        BY <2>1, <2>2, <3>2
      <4>2. ASSUME e2i[e] # 0, ~Rooted(t, e2i[e])
            PROVE  e2i[e] > 0 /\ \A f \in Idx \ {e} : VarOf(e2i'[f]) # e2i[e]
        <5>1. e2i[e] > 0 /\ \A f \in Idx \ {e} : VarOf(e2i[f]) # e2i[e]
          BY <4>2 DEF Decides, Named
        <5>2. e2i[e] # v
          <6>1. VarOf(e2i[e]) = e2i[e]
            BY <4>1, <5>1 DEF VarOf
          <6> QED
            BY <1>1, <4>1, <6>1
        <5> QED
          BY <2>2, <2>3, <5>1, <5>2
      <4> QED
        BY <1>1, <4>1, <4>2
    <3> QED
      BY <3>1, <3>2
  <2> QED
    BY <2>2, <2>4 DEF Named
<1>10. assigned \in Sizes(v)
  <2>1. assigned \in Sizes(n) /\ 0..n \subseteq 0..v
    BY <1>1 DEF Decides
  <2> QED
    BY <2>1 DEF Sizes
<1>11. Scaled(s')
  BY <1>5, <1>6 DEF Scaled, Decides
<1>12. inactive \subseteq 1..v
  BY <1>7 DEF Decides
<1>13. /\ opts' \in Options /\ conflicts' \in Nat /\ compacts' \in Nat /\ inactive' = inactive
       /\ phases' \in Marks /\ Agrees(t, phases'.saved) /\ assigned' = assigned
  BY DEF Decides, NewVar
<1> HIDE DEF v
<1>14. s'.stab = s.stab /\ s'.inc = s.inc
  BY <1>5, <1>6
<1> QED
  BY <1>1, <1>7, <1>8, <1>9, <1>10, <1>11, <1>12, <1>13, <1>14 DEF Decides

\* The empty trail.
LEMMA EmptyStack ==
  ASSUME NEW n \in Nat
  PROVE  /\ Stack(EmptyTrail, n) /\ Positions(EmptyTrail) = {} /\ Level(EmptyTrail) = 0
         /\ \A l \in Int : ~Assigned(EmptyTrail, l)
         /\ Free(EmptyTrail, n) = 1..n /\ \A saved : Agrees(EmptyTrail, saved)
<1>1. EmptyTrail.trail = <<>> /\ EmptyTrail.control = <<>> /\ EmptyTrail \in Trails
  BY DEF EmptyTrail, Trails
<1>2. Positions(EmptyTrail) = {} /\ Level(EmptyTrail) = 0
  BY <1>1 DEF Positions, Level
<1>3. Stack(EmptyTrail, n)
  BY <1>1, <1>2 DEF Stack, Distinct
<1>4. \A l \in Int : ~Assigned(EmptyTrail, l)
  BY <1>2, <1>3, StackFacts
<1>5. Free(EmptyTrail, n) = 1..n
  <2>1. \A v \in 1..n : v \in Int
    OBVIOUS
  <2> QED
    BY <1>4, <2>1 DEF Free
<1> QED
  BY <1>2, <1>3, <1>4, <1>5 DEF Agrees

\* The empty queue and the empty heap.
LEMMA EmptyReady ==
  ASSUME NEW d \in Queues, d.first = 0, d.last = 0, d.unassigned = 0, d.bumped <= d.stamp,
         NEW h \in Heaps, h.heap = <<>>, NEW x, x.q = d, x.s = h
  PROVE  Ready(x, {}, {}, {}) /\ Grounded(x.q, {})
<1>1. d.btab \in [Idx -> Int]
  BY DEF Queues
<1>2. Linked(d, {}, d.btab)
  BY <1>1 DEF Linked, Keyed, IsFirst, IsLast
<1>3. QueueOK(d, {}, {})
  BY <1>2 DEF QueueOK
<1>4. HeapTree(h) /\ \A w : ~In(w, h.heap)
  BY DEF HeapTree, Once, In
<1> QED
  BY <1>3, <1>4 DEF Ready, HeapOK, Grounded

\* The first states.
LEMMA InitDecides ==
  ASSUME DecideInit
  PROVE  Decides /\ s.stab = Zero /\ s.inc = One
<1> DEFINE d0 == [first |-> 0, last |-> 0, unassigned |-> 0, bumped |-> 0,
                  stamp |-> 0, prev |-> Zero, next |-> Zero, btab |-> Zero]
           h0 == [heap |-> <<>>, stab |-> Zero, inc |-> One]
           x0 == [q |-> d0, s |-> h0]
           d == Fold(NewVariable, x0, Times(maxVar))
           P(x, i) == /\ Ready(x, 1..i, 1..i, 1..i) /\ Grounded(x.q, 1..i)
                      /\ x.s.stab = Zero /\ x.s.inc = One
           D == [i \in 0..maxVar |-> {x \in [q : Queues, s : Heaps] : P(x, i)}]
<1>1. MaxVar \in Nat /\ maxVar = MaxVar /\ opts \in Options /\ opts.reverse \in BOOLEAN
      /\ opts.phase \in {1, -1}
  BY DecideAssumption DEF DecideInit
<1>2. Zero \in [Idx -> Nat] /\ Zero \in [Idx -> Int] /\ \A v \in Idx : Zero[v] = 0
  BY DEF Zero, Idx
<1>3. x0 \in [q : Queues, s : Heaps] /\ P(x0, 0)
  <2>1. x0.q = d0 /\ x0.s = h0
    OBVIOUS
  <2>2. d0 \in Queues /\ h0 \in Heaps
    BY <1>2, LimitFacts DEF Queues, Heaps
  <2>3. /\ d0.first = 0 /\ d0.last = 0 /\ d0.unassigned = 0 /\ d0.bumped <= d0.stamp
        /\ h0.heap = <<>> /\ h0.stab = Zero /\ h0.inc = One
    OBVIOUS
  <2>4. x0 \in [q : Queues, s : Heaps]
    BY <2>2
  <2> HIDE DEF x0, d0, h0
  <2>5. Ready(x0, {}, {}, {}) /\ Grounded(x0.q, {})
    BY <2>1, <2>2, <2>3, EmptyReady
  <2>6. 1..0 = {}
    OBVIOUS
  <2>7. P(x0, 0)
    BY <2>1, <2>3, <2>5, <2>6
  <2> QED
    BY <2>4, <2>7
<1> HIDE DEF x0
<1>4. ASSUME NEW i \in 1..maxVar, NEW x \in D[i - 1]
      PROVE  NewVariable(x, i) \in D[i]
  <2> DEFINE k == i - 1
             e == NewVariable(x, i)
             A == 1..k
  <2>1. k \in 0..maxVar /\ x \in {y \in [q : Queues, s : Heaps] : P(y, k)}
    BY <1>1
  <2>2. P(x, k)
    BY <2>1
  <2>3. i \in Idx /\ i \notin A /\ A \cup {i} = 1..i /\ i \in 0..maxVar
    BY <1>1 DEF Idx
  <2>4. Ready(x, A, A, A) /\ Grounded(x.q, A) /\ A \subseteq A
    BY <2>2
  <2> HIDE DEF A, P, D, k
  <2>5. /\ e \in [q : Queues, s : Heaps]
        /\ Ready(e, A \cup {i}, A \cup {i}, A \cup {i}) /\ Grounded(e.q, A \cup {i})
        /\ e.s.stab = x.s.stab /\ e.s.inc = x.s.inc
    BY <1>1, <2>3, <2>4, NewVariableFacts
  <2> HIDE DEF e
  <2>6. P(e, i)
    BY <2>2, <2>3, <2>5 DEF P
  <2>7. e \in {y \in [q : Queues, s : Heaps] : P(y, i)}
    BY <2>5, <2>6
  <2> QED
    BY <2>3, <2>7 DEF D, e
<1>5. x0 \in D[0]
  <2> HIDE DEF P
  <2> QED
    BY <1>1, <1>3
<1>6. d \in D[maxVar]
  <2> HIDE DEF D, P
  <2> QED
    BY <1>1, <1>4, <1>5, NewVariableStages
<1>7. P(d, maxVar)
  <2> HIDE DEF P, d
  <2>1. maxVar \in 0..maxVar
    BY <1>1
  <2> QED
    BY <1>6, <2>1
<1>8. q = d.q /\ s = d.s
  BY DEF DecideInit, x0
<1> HIDE DEF d, D
<1>9. t = EmptyTrail
  BY DEF DecideInit
<1>10. Found(q, s, t, maxVar, 1..maxVar)
  <2>1. Free(t, maxVar) = 1..maxVar
    BY <1>1, <1>9, EmptyStack
  <2>2. (1..maxVar) \ (1..maxVar) = {} /\ 1..maxVar \subseteq 1..maxVar
    OBVIOUS
  <2> QED
    BY <1>7, <1>8, <2>1, <2>2 DEF Found, Ready
<1>11. Scaled(s)
  <2>1. One <= ScoreLimit /\ 0 <= ScoreLimit
    BY LimitFacts
  <2> QED
    BY <1>2, <1>7, <1>8, <2>1 DEF Scaled
<1>12. phases \in Marks /\ Agrees(t, phases.saved)
  <2>1. phases = [saved |-> [v \in 1..MaxVar |-> opts.phase],
                  forced |-> Zero, target |-> Zero, best |-> Zero]
    BY DEF DecideInit
  <2>2. Zero \in [Idx -> {-1, 0, 1}] /\ [v \in 1..MaxVar |-> opts.phase] \in [Idx -> {1, -1}]
    BY <1>1 DEF Idx, Zero
  <2>3. phases \in Marks
    BY <2>1, <2>2 DEF Marks
  <2> QED
    BY <1>1, <1>9, <2>3, EmptyStack
<1>13. Named(e2i, t, maxVar)
  <2>1. e2i \in [Idx -> Int] /\ \A e \in Idx : e2i[e] = e
    BY <1>1 DEF DecideInit, Idx
  <2>2. \A e \in Idx : e \in 0..maxVar /\ e > 0 /\ VarOf(e) = e
    BY <1>1 DEF Idx, VarOf
  <2> QED
    BY <2>1, <2>2 DEF Named
<1>14. assigned \in Sizes(maxVar)
  <2>1. 0 \in 0..maxVar
    BY <1>1
  <2> QED
    BY <2>1 DEF DecideInit, Sizes
<1>15. /\ maxVar \in 0..MaxVar /\ inactive \subseteq 1..maxVar
       /\ conflicts \in Nat /\ compacts \in Nat
  BY <1>1 DEF DecideInit
<1>16. Stack(t, maxVar)
  BY <1>1, <1>9, EmptyStack
<1>17. s.stab = Zero /\ s.inc = One
  BY <1>7, <1>8
<1> QED
  BY <1>17, <1>1, <1>10, <1>11, <1>12, <1>13, <1>14, <1>15, <1>16 DEF Decides

-----------------------------------------------------------------------------
(* Conflicts, restarts and rephasing.                                      *)

\* Something is unassigned: the queue is grounded.
LEMMA FreeGrounds ==
  ASSUME NEW d, NEW E, NEW U, QueueOK(d, E, U), NEW v \in U
  PROVE  Grounded(d, E)
BY DEF QueueOK, Grounded

\* Bumping assigned variables one after the other.
LEMMA BumpAllFacts ==
  ASSUME NEW d, NEW E, NEW U, QueueOK(d, E, U), NEW order \in Seq(E \ U)
  PROVE  QueueOK(Fold(BumpQueue, d, order), E, U)
<1> DEFINE n == Len(order)
           S == {x \in Queues : QueueOK(x, E, U)}
           D == [i \in 0..n |-> S]
<1>1. n \in Nat /\ \A i \in 1..n : order[i] \in E \ U
  OBVIOUS
<1>2. d \in S
  BY QueueTypes
<1>3. \A i \in 1..n : \A x \in S : BumpQueue(x, order[i]) \in S
  <2> SUFFICES ASSUME NEW i \in 1..n, NEW x \in S
               PROVE  BumpQueue(x, order[i]) \in S
    OBVIOUS
  <2>1. order[i] \in E /\ order[i] \notin U
    BY <1>1
  <2>2. QueueOK(BumpQueue(x, order[i]), E, U)
    BY <2>1, BumpQueueFacts
  <2> QED
    BY <2>2, QueueTypes
<1> HIDE DEF S, n
<1>4. D[0] = S /\ D[n] = S /\ \A i \in 1..n : D[i - 1] = S /\ D[i] = S
  BY <1>1
<1> HIDE DEF D
<1>5. Fold(BumpQueue, d, order) \in D[Len(order)]
  BY <1>1, <1>2, <1>3, <1>4, BumpQueueStages DEF n
<1> QED
  BY <1>4, <1>5 DEF S, n

\* What is found once the queue is grounded.
Queued(d, h, tr, n, E) ==
  /\ E \subseteq 1..n /\ QueueOK(d, E, Free(tr, n)) /\ HeapOK(h, 1..n, Free(tr, n))
  /\ \A v \in (1..n) \ E : Rooted(tr, v)

\* Found is Queued with a grounded queue.
LEMMA QueuedFound ==
  ASSUME NEW d, NEW h, NEW tr, NEW n, NEW E
  PROVE  Found(d, h, tr, n, E) <=> Queued(d, h, tr, n, E) /\ Grounded(d, E)
BY DEF Found, Queued

\* The state that going back to a lower level leaves.
WentBack(tr, u, down, new, E) ==
  /\ Stack(down, maxVar) /\ Level(down) = new
  /\ Queued(u.q, u.s, down, maxVar, E)
  /\ \A k \in Int : Rooted(tr, k) => Rooted(down, k)
  /\ \A saved : Agrees(tr, saved) => Agrees(down, saved)

\* What backtracking unassigns is in the queue and given back.
LEMMA UndoFound ==
  ASSUME maxVar \in Nat, Stack(t, maxVar), NEW new \in 0..Level(t), NEW d, NEW h, NEW E,
         Queued(d, h, t, maxVar, E)
  PROVE  LET down == Backtrack(t, new)
             u == Undo(d, h, down)
         IN  /\ WentBack(t, u, down, new, E)
             /\ u.q.btab = d.btab /\ (Grounded(d, E) => Grounded(u.q, E))
             /\ u.s.stab = h.stab /\ u.s.inc = h.inc
             /\ Free(t, maxVar) \subseteq Free(down, maxVar)
<1> DEFINE down == Backtrack(t, new)
           u == Undo(d, h, down)
<1>1. /\ Stack(down, maxVar) /\ Level(down) = new
      /\ \A k \in Int : Assigned(down, k) =>
           Assigned(t, k) /\ Val(down, k) = Val(t, k) /\ LevelOf(down, k) = LevelOf(t, k)
      /\ \A k \in Int : Assigned(t, k) => (Assigned(down, k) <=> LevelOf(t, k) <= new)
      /\ \A i \in Positions(down) : \E k \in Positions(t) : down.trail[i] = t.trail[k]
  BY StackBacktrack
<1> HIDE DEF down
<1>2. new \in Nat /\ 0 <= new /\ Len(t.trail) \in Nat
  BY StackLength, TrailTypes DEF Stack
<1>3. \A k \in Int : Rooted(t, k) => Rooted(down, k)
  <2> SUFFICES ASSUME NEW k \in Int, Rooted(t, k)
               PROVE  Rooted(down, k)
    OBVIOUS
  <2>1. Assigned(t, k) /\ LevelOf(t, k) = 0
    BY DEF Rooted
  <2>2. Assigned(down, k)
    BY <1>1, <1>2, <2>1
  <2> QED
    BY <1>1, <2>1, <2>2 DEF Rooted
<1>4. Released(down) \subseteq E
  <2> SUFFICES ASSUME NEW v \in Released(down)
               PROVE  v \in E
    OBVIOUS
  <2>1. PICK k \in Positions(t) : v = VarOf(t.trail[k].lit) /\ ~Assigned(down, v)
    BY DEF Released, Positions
  <2>2. v \in 1..maxVar
    BY <2>1, StackFacts
  <2>3. ~Rooted(down, v)
    BY <2>1 DEF Rooted
  <2>4. ~Rooted(t, v)
    BY <1>3, <2>2, <2>3
  <2> QED
    BY <2>2, <2>4 DEF Queued
<1>5. Free(down, maxVar) = Free(t, maxVar) \cup Released(down)
  <2>1. ASSUME NEW v \in Free(down, maxVar), v \notin Free(t, maxVar)
        PROVE  v \in Released(down)
    <3>1. v \in 1..maxVar /\ v \in Int /\ v \in Nat /\ Assigned(t, v) /\ ~Assigned(down, v)
      BY <2>1 DEF Free
    <3>2. PICK k \in Positions(t) : VarOf(t.trail[k].lit) = VarOf(v)
      BY <3>1, StackFacts
    <3>3. VarOf(v) = v
      BY <3>1, VarFacts
    <3> QED
      BY <3>1, <3>2, <3>3 DEF Released, Positions
  <2>2. ASSUME NEW v \in Free(t, maxVar)
        PROVE  v \in Free(down, maxVar)
    <3>1. v \in Int
      BY DEF Free
    <3> QED
      BY <1>1, <3>1 DEF Free
  <2>3. ASSUME NEW v \in Released(down)
        PROVE  v \in Free(down, maxVar)
    BY <1>4 DEF Released, Free, Queued
  <2> QED
    BY <2>1, <2>2, <2>3
<1>6. /\ Ready(u, E, 1..maxVar, Free(t, maxVar) \cup Released(down))
      /\ u.q.btab = d.btab /\ (Grounded(d, E) => Grounded(u.q, E))
      /\ u.s.stab = h.stab /\ u.s.inc = h.inc
  <2> DEFINE M == 1..maxVar
             U == Free(t, maxVar)
  <2>1. Ready([q |-> d, s |-> h], E, M, U) /\ E \subseteq M /\ Len(t.trail) \in Nat
        /\ Released(down) \subseteq E
    BY <1>2, <1>4 DEF Ready, Queued
  <2> HIDE DEF M, U
  <2>2. /\ Ready(u, E, M, U \cup Released(down))
        /\ u.q.btab = d.btab /\ (Grounded(d, E) => Grounded(u.q, E))
        /\ u.s.stab = h.stab /\ u.s.inc = h.inc
    BY ONLY <2>1, UndoFacts, SMTT(30) DEF u
  <2> QED
    BY <2>2 DEF M, U
<1> HIDE DEF u
<1>7. \A saved : Agrees(t, saved) => Agrees(down, saved)
  BY <1>1, AgreesLess
<1>8. Queued(u.q, u.s, down, maxVar, E)
  BY <1>3, <1>5, <1>6 DEF Queued, Ready
<1>9. WentBack(t, u, down, new, E)
  BY <1>1, <1>3, <1>5, <1>6, <1>7, <1>8 DEF WentBack
<1> QED
  BY <1>5, <1>6, <1>9 DEF u, down

\* A conflict on level L whose analysis bumps order and flips v.
Conflicts(order, new, v) ==
  LET d == IF UseScores THEN q ELSE Fold(BumpQueue, q, order)
      h == IF UseScores THEN BumpScoreInc(Fold(BumpScore, s, order)) ELSE s
      down == Backtrack(t, new)
      u == Undo(d, h, down)
      flip == -(Val(t, v) * v)
      p == UpdateTargetAndBest(t.control[Level(t)].trail)
  IN /\ Once(order) /\ \A i \in 1..Len(order) : ~Rooted(t, order[i])
     /\ new \in 0..Level(t) - 1 /\ v \in Idx /\ Assigned(t, v) /\ LevelOf(t, v) = Level(t)
     /\ q' = u.q /\ s' = u.s
     /\ t' = SaveAssign(down, flip, new)
     /\ phases' = Saved(p.phases, flip) /\ assigned' = p.assigned

\* Analyzed variables are assigned above the root.
LEMMA ConflictSteps ==
  ASSUME Decides, Conflict, NEW E, Found(q, s, t, maxVar, E)
  PROVE  \E order \in Seq(E \ Free(t, maxVar)) : \E new, v : Conflicts(order, new, v)
<1>1. maxVar \in Nat /\ Stack(t, maxVar) /\ Level(t) > 0 /\ Vars \subseteq Idx /\ Vars = 1..maxVar
  BY ConstantFacts DEF Decides, Conflict
<1>2. PICK B \in SUBSET {VarOf(l) : l \in {k \in TrueLits(t) : LevelOf(t, k) > 0}} :
      \E order \in SetToSeqs(B) : \E new \in 0..Level(t) - 1, v \in B :
       LET d == IF UseScores THEN q ELSE Fold(BumpQueue, q, order)
           h == IF UseScores THEN BumpScoreInc(Fold(BumpScore, s, order)) ELSE s
           down == Backtrack(t, new)
           u == Undo(d, h, down)
           flip == -(Val(t, v) * v)
           p == UpdateTargetAndBest(t.control[Level(t)].trail)
       IN /\ LevelOf(t, v) = Level(t)
          /\ q' = u.q /\ s' = u.s
          /\ t' = SaveAssign(down, flip, new)
          /\ phases' = Saved(p.phases, flip) /\ assigned' = p.assigned
  BY DEF Conflict
<1>3. PICK order \in SetToSeqs(B) : \E new \in 0..Level(t) - 1, v \in B :
       LET d == IF UseScores THEN q ELSE Fold(BumpQueue, q, order)
           h == IF UseScores THEN BumpScoreInc(Fold(BumpScore, s, order)) ELSE s
           down == Backtrack(t, new)
           u == Undo(d, h, down)
           flip == -(Val(t, v) * v)
           p == UpdateTargetAndBest(t.control[Level(t)].trail)
       IN /\ LevelOf(t, v) = Level(t)
          /\ q' = u.q /\ s' = u.s
          /\ t' = SaveAssign(down, flip, new)
          /\ phases' = Saved(p.phases, flip) /\ assigned' = p.assigned
  BY <1>2
<1>4. \A w \in B : w \in 1..maxVar /\ Assigned(t, w) /\ w \in E \ Free(t, maxVar) /\ ~Rooted(t, w)
  <2> SUFFICES ASSUME NEW w \in B
               PROVE  /\ w \in 1..maxVar /\ Assigned(t, w) /\ w \in E \ Free(t, maxVar)
                      /\ ~Rooted(t, w)
    OBVIOUS
  <2>1. PICK k \in Positions(t) : w = VarOf(t.trail[k].lit) /\ LevelOf(t, t.trail[k].lit) > 0
    BY DEF TrueLits
  <2>2. w \in 1..maxVar /\ Assigned(t, w) /\ LevelOf(t, w) > 0
    BY <1>1, <2>1, StackFacts
  <2>3. ~Rooted(t, w)
    BY <2>2 DEF Rooted
  <2>4. w \in E
    BY <2>2, <2>3 DEF Found
  <2> QED
    BY <2>2, <2>3, <2>4 DEF Free
<1>5. order \in Seq(E \ Free(t, maxVar)) /\ Once(order) /\ \A i \in 1..Len(order) : ~Rooted(t, order[i])
  <2>1. IsFiniteSet(B)
    <3>1. \A x, y \in Int : IsFiniteSet(x..y)
      BY FS_Interval
    <3>2. IsFiniteSet(1..maxVar) /\ B \subseteq 1..maxVar
      BY <1>1, <1>4, <3>1
    <3> QED
      BY <3>2, FS_Subset
  <2>2. order \in Seq(B) /\ \A j, k \in 1..Len(order) : order[j] = order[k] => j = k
    BY <2>1, PermutationFacts DEF Arranges
  <2>3. \A i \in 1..Len(order) : order[i] \in E \ Free(t, maxVar) /\ ~Rooted(t, order[i])
    BY <1>4, <2>2
  <2>4. Once(order)
    BY <2>2 DEF Once
  <2> QED
    BY <2>2, <2>3, <2>4
<1>6. ASSUME NEW v \in B
      PROVE  v \in Idx /\ Assigned(t, v)
  BY <1>1, <1>4
<1>7. PICK new \in 0..Level(t) - 1, v \in B : Conflicts(order, new, v)
  BY <1>3, <1>5, <1>6 DEF Conflicts
<1> QED
  BY <1>5, <1>7

\* The queue and the heap after the analysis.
LEMMA AnalysisFound ==
  ASSUME Decides, NEW E, Found(q, s, t, maxVar, E), NEW order \in Seq(E \ Free(t, maxVar))
  PROVE  LET d == IF UseScores THEN q ELSE Fold(BumpQueue, q, order)
             h == IF UseScores THEN BumpScoreInc(Fold(BumpScore, s, order)) ELSE s
         IN  Queued(d, h, t, maxVar, E) /\ Scaled(h)
<1> DEFINE d == IF UseScores THEN q ELSE Fold(BumpQueue, q, order)
           f == Fold(BumpScore, s, order)
           h == IF UseScores THEN BumpScoreInc(f) ELSE s
           U == Free(t, maxVar)
<1>1. maxVar \in Nat /\ Vars = 1..maxVar /\ Vars \subseteq Idx
  BY ConstantFacts DEF Decides
<1>2. QueueOK(q, E, U) /\ HeapOK(s, 1..maxVar, U) /\ Scaled(s) /\ E \subseteq 1..maxVar
  BY DEF Found, Decides
<1>3. QueueOK(d, E, U)
  BY <1>2, BumpAllFacts
<1>4. HeapOK(h, 1..maxVar, U) /\ Scaled(h)
  <2>1. order \in Seq(Vars)
    <3>1. \A i \in 1..Len(order) : order[i] \in E
      OBVIOUS
    <3>2. \A i \in 1..Len(order) : order[i] \in Vars
      BY <1>1, <1>2, <3>1
    <3> QED
      BY <3>2
  <2>2. HeapTree(s)
    BY <1>2 DEF HeapOK
  <2>3. HeapTree(f) /\ (\A w : In(w, f.heap) <=> In(w, s.heap)) /\ (Scaled(s) => Scaled(f))
    BY <1>1, <2>1, <2>2, BumpScoresFacts
  <2> DEFINE g == BumpScoreInc(f)
  <2> HIDE DEF f
  <2>4. HeapTree(g) /\ g.heap = f.heap /\ (Scaled(f) => Scaled(g))
    BY <1>1, <2>3, BumpScoreIncFacts
  <2> HIDE DEF g
  <2>5. HeapOK(g, 1..maxVar, U) /\ Scaled(g)
    BY <1>2, <2>3, <2>4 DEF HeapOK
  <2> QED
    BY <1>2, <2>5 DEF g
<1> HIDE DEF d, h
<1> QED
  BY <1>2, <1>3, <1>4 DEF Queued, Found, d, h

\* Conflict.
LEMMA ConflictDecides ==
  ASSUME Decides, Conflict
  PROVE  Decides'
<1>1. PICK E : Found(q, s, t, maxVar, E)
  BY DEF Decides
<1>2. PICK order \in Seq(E \ Free(t, maxVar)) : \E new, v : Conflicts(order, new, v)
  BY <1>1, ConflictSteps
<1>3. PICK new, v : Conflicts(order, new, v)
  BY <1>2
<1> DEFINE d == IF UseScores THEN q ELSE Fold(BumpQueue, q, order)
           h == IF UseScores THEN BumpScoreInc(Fold(BumpScore, s, order)) ELSE s
           down == Backtrack(t, new)
           u == Undo(d, h, down)
           flip == -(Val(t, v) * v)
           until == t.control[Level(t)].trail
           p == UpdateTargetAndBest(until)
<1>4. /\ new \in 0..Level(t) - 1 /\ v \in Idx /\ Assigned(t, v) /\ LevelOf(t, v) = Level(t)
      /\ q' = u.q /\ s' = u.s /\ t' = SaveAssign(down, flip, new)
      /\ phases' = Saved(p.phases, flip) /\ assigned' = p.assigned
  BY <1>3 DEF Conflicts
<1>5. Queued(d, h, t, maxVar, E) /\ Scaled(h)
  BY <1>1, AnalysisFound
<1> HIDE DEF d, h
<1>6. /\ maxVar \in Nat /\ Stack(t, maxVar) /\ Level(t) > 0 /\ Level(t) \in Nat /\ new \in 0..Level(t)
  <2>1. maxVar \in Nat /\ Stack(t, maxVar) /\ Level(t) \in Nat
    BY ConstantFacts, TrailTypes DEF Decides, Stack
  <2> QED
    BY <1>4, <2>1 DEF Conflict
<1>7. /\ WentBack(t, u, down, new, E) /\ u.s.stab = h.stab /\ u.s.inc = h.inc
  BY ONLY <1>5, <1>6, UndoFound
<1> HIDE DEF u, down
<1>8. Stack(down, maxVar) /\ Level(down) = new /\ Queued(u.q, u.s, down, maxVar, E)
  BY <1>7 DEF WentBack
<1>9. v \in 1..maxVar /\ v \in Free(down, maxVar) /\ flip \in Int /\ VarOf(flip) = v /\ ~Assigned(down, flip)
  <2>1. v \in Int /\ v \in Nat /\ v \in 1..maxVar
    <3>1. v \in Int /\ v \in Nat
      BY <1>4, ConstantFacts DEF Decides
    <3>2. VarOf(v) \in 1..maxVar /\ VarOf(v) = v
      BY <1>4, <1>6, <3>1, StackFacts, VarFacts
    <3> QED
      BY <3>1, <3>2
  <2>2. flip = v \/ flip = -v
    <3>1. Val(t, v) \in {1, -1}
      BY <1>4 DEF Assigned, Val
    <3> QED
      BY <2>1, <3>1
  <2>3. flip \in Int /\ VarOf(flip) = v
    BY <2>1, <2>2, VarFacts
  <2>4. ~Assigned(down, v)
    <3>1. \A k \in Int : Assigned(down, k) => LevelOf(down, k) \in 0..new /\ LevelOf(down, k) = LevelOf(t, k)
      BY <1>6, <1>8, StackFacts, StackBacktrack DEF down
    <3> QED
      BY <1>4, <1>6, <2>1, <3>1
  <2>5. ~Assigned(down, flip)
    BY <1>6, <1>8, <2>3, <2>4, StackFacts
  <2> QED
    BY <2>1, <2>3, <2>4, <2>5 DEF Free
<1>10. Found(u.q, u.s, down, maxVar, E)
  <2>1. QueueOK(u.q, E, Free(down, maxVar))
    BY <1>8 DEF Queued
  <2>2. Grounded(u.q, E)
    BY <1>9, <2>1, FreeGrounds
  <2> QED
    BY <1>8, <2>2, QueuedFound
<1>11. until \in 0..maxVar
  <2>1. until \in Nat /\ until <= Len(t.trail) /\ Len(t.trail) \in 0..maxVar
    <3>1. Level(t) \in 1..Level(t)
      BY <1>6
    <3> QED
      BY <1>6, <3>1, StackLength, TrailTypes DEF Stack
  <2> QED
    BY <1>6, <2>1
<1>12. /\ p.phases \in Marks /\ p.phases.saved = phases.saved /\ p.assigned \in Sizes(maxVar)
  BY <1>6, <1>11, UpdateFacts DEF Decides
<1> HIDE DEF p, until, flip
<1>13. Agrees(down, p.phases.saved)
  BY <1>7, <1>12 DEF WentBack, Decides
<1>14. Topped(down, t', flip, maxVar)
  <2>1. new \in 0..Level(down)
    BY <1>6, <1>8
  <2>2. VarOf(flip) \in 1..maxVar
    BY <1>9
  <2>3. Topped(down, SaveAssign(down, flip, new), flip, maxVar)
    BY <1>6, <1>8, <1>9, <2>1, <2>2, StackOnTop DEF Topped
  <2> QED
    BY <1>4, <2>3
<1>15. /\ phases' \in Marks /\ Agrees(t', phases'.saved) /\ Stack(t', maxVar)
       /\ Free(t', maxVar) \subseteq Free(down, maxVar)
       /\ \A k \in Int : Rooted(down, k) => Rooted(t', k)
  <2>1. maxVar \in 0..MaxVar /\ VarOf(flip) \in 1..maxVar
    BY <1>9 DEF Decides
  <2> QED
    BY <1>4, <1>8, <1>9, <1>12, <1>13, <1>14, <2>1, TopFacts
<1>16. Found(q', s', t', maxVar, E)
  BY <1>4, <1>6, <1>10, <1>15, FoundStays
<1>17. Named(e2i, t', maxVar)
  <2>1. \A k \in Int : Rooted(t, k) => Rooted(t', k)
    BY <1>7, <1>15 DEF WentBack
  <2> QED
    BY <2>1, NamedStays DEF Decides
<1>18. Scaled(s')
  BY <1>4, <1>5, <1>7 DEF Scaled
<1>19. /\ UNCHANGED <<opts, maxVar, e2i, inactive, compacts>>
       /\ conflicts' \in Nat /\ assigned' \in Sizes(maxVar)
  BY <1>4, <1>12 DEF Conflict, Decides
<1> QED
  BY <1>15, <1>16, <1>17, <1>18, <1>19 DEF Decides

\* The level that a restart keeps.
LEMMA ReuseTrailFacts ==
  ASSUME NEW x, Level(t) \in Nat
  PROVE  ReuseTrail(x) \in 0..Level(t)
<1> DEFINE Keeps(i) == LET v == VarOf(t.control[i].decision) IN
             IF UseScores THEN ~ScoreSmaller(s, v, x) ELSE q.btab[v] >= q.btab[x]
           S == {i \in 0..Level(t) : \A j \in 1..i : Keeps(j)}
<1>1. ReuseTrail(x) = IF ~opts.restartreusetrail THEN 0 ELSE Max(S)
  BY DEF ReuseTrail
<1> HIDE DEF Keeps
<1>2. 0 \in S /\ S \subseteq Nat /\ \A i \in S : i <= Level(t) /\ i \in 0..Level(t)
  OBVIOUS
<1> HIDE DEF S
<1>3. Max(S) \in S
  BY <1>2, MaxIsGreatest
<1>4. Max(S) \in 0..Level(t) /\ 0 \in 0..Level(t)
  BY <1>2, <1>3
<1> QED
  BY <1>1, <1>4

\* A step that goes back to a lower level, with queue and heap found before.
LEMMA BackKeeps ==
  ASSUME Decides, NEW d, NEW h, NEW new \in 0..Level(t), NEW E, Found(d, h, t, maxVar, E), Scaled(h)
  PROVE  LET down == Backtrack(t, new)
             u == Undo(d, h, down)
         IN  /\ Stack(down, maxVar) /\ Found(u.q, u.s, down, maxVar, E) /\ Scaled(u.s)
             /\ Agrees(down, phases.saved) /\ Named(e2i, down, maxVar)
             /\ \A k \in Int : Rooted(t, k) => Rooted(down, k)
             /\ u.q.btab = d.btab /\ u.s.stab = h.stab /\ u.s.inc = h.inc
<1> DEFINE down == Backtrack(t, new)
           u == Undo(d, h, down)
<1>1. maxVar \in Nat /\ Stack(t, maxVar) /\ Agrees(t, phases.saved) /\ Named(e2i, t, maxVar)
  BY ConstantFacts DEF Decides
<1>2. Queued(d, h, t, maxVar, E) /\ Grounded(d, E)
  BY QueuedFound
<1>3. /\ WentBack(t, u, down, new, E)
      /\ u.q.btab = d.btab /\ (Grounded(d, E) => Grounded(u.q, E))
      /\ u.s.stab = h.stab /\ u.s.inc = h.inc
  BY <1>1, <1>2, UndoFound
<1> HIDE DEF down, u
<1>4. Found(u.q, u.s, down, maxVar, E)
  BY <1>2, <1>3, QueuedFound DEF WentBack
<1>5. Stack(down, maxVar) /\ Agrees(down, phases.saved) /\ \A k \in Int : Rooted(t, k) => Rooted(down, k)
  BY <1>1, <1>3 DEF WentBack
<1>6. Named(e2i, down, maxVar)
  BY <1>1, <1>5, NamedStays
<1>7. Scaled(u.s)
  BY <1>3 DEF Scaled
<1> QED
  BY <1>3, <1>4, <1>5, <1>6, <1>7 DEF down, u

\* Restart.
LEMMA RestartDecides ==
  ASSUME Decides, Restart
  PROVE  Decides'
<1> DEFINE d == IF opts.restartreusetrail /\ ~UseScores THEN SearchQueue(q, t) ELSE q
           h == IF opts.restartreusetrail /\ UseScores THEN PopAssigned(s, t) ELSE s
           new == ReuseTrail(NextVariable(d, h))
           down == Backtrack(t, new)
           u == Undo(d, h, down)
           p == OnBacktrack(new)
<1>1. /\ t' = down /\ q' = u.q /\ s' = u.s
      /\ phases' = p.phases /\ assigned' = p.assigned
      /\ UNCHANGED <<opts, maxVar, e2i, inactive, conflicts, compacts>>
  BY DEF Restart
<1>2. PICK E : Found(q, s, t, maxVar, E)
  BY DEF Decides
<1>3. maxVar \in Nat /\ Stack(t, maxVar) /\ Level(t) \in Nat /\ Vars = 1..maxVar
  BY ConstantFacts, TrailTypes DEF Decides, Stack
<1>4. Free(t, maxVar) # {}
  BY <1>3 DEF Restart, CanDecide, Free
<1>5. Found(d, h, t, maxVar, E) /\ Scaled(h)
  <2>1. Found(SearchQueue(q, t), s, t, maxVar, E)
    BY <1>2, <1>3, <1>4, FoundSearch
  <2>2. Found(q, PopAssigned(s, t), t, maxVar, E) /\ (Scaled(s) => Scaled(PopAssigned(s, t)))
    BY <1>2, <1>3, <1>4, FoundPops
  <2> QED
    BY <1>2, <2>1, <2>2 DEF Decides
<1>6. new \in 0..Level(t)
  BY <1>3, ReuseTrailFacts
<1> HIDE DEF d, h, new
<1>7. /\ p.phases \in Marks /\ p.phases.saved = phases.saved /\ p.assigned \in Sizes(maxVar)
  BY <1>3, OnBacktrackFacts DEF Decides
<1> HIDE DEF p
<1>8. /\ Stack(down, maxVar) /\ Found(u.q, u.s, down, maxVar, E) /\ Scaled(u.s)
      /\ Agrees(down, phases.saved) /\ Named(e2i, down, maxVar)
  BY <1>5, <1>6, BackKeeps
<1> HIDE DEF down, u
<1> QED
  BY <1>1, <1>7, <1>8 DEF Decides

\* Every variable has a saved phase after a reset.
LEMMA NewPhasesFacts ==
  ASSUME phases.saved \in [Idx -> {1, -1}], opts.phase \in {1, -1}, MaxVar \in Nat,
         NEW best \in [Idx -> {-1, 0, 1}], NEW type, NEW saved \in NewPhases(type, best),
         Vars \subseteq Idx
  PROVE  saved \in [Idx -> {1, -1}]
<1> DEFINE Is(g) == saved = [v \in 1..MaxVar |-> IF v \in Vars THEN g[v] ELSE phases.saved[v]]
<1>1. \E g \in [Vars -> {1, -1}] : Is(g)
  <2>1. CASE type = "original"
    <3> DEFINE g == [v \in Vars |-> opts.phase]
    <3>1. g \in [Vars -> {1, -1}]
      OBVIOUS
    <3>2. saved = [v \in 1..MaxVar |-> IF v \in Vars THEN opts.phase ELSE phases.saved[v]]
      BY <2>1 DEF NewPhases
    <3>3. Is(g)
      BY <3>2
    <3> QED
      BY <3>1, <3>3
  <2>2. CASE type = "inverted"
    <3> DEFINE g == [v \in Vars |-> -opts.phase]
    <3>1. g \in [Vars -> {1, -1}]
      OBVIOUS
    <3>2. saved = [v \in 1..MaxVar |-> IF v \in Vars THEN -opts.phase ELSE phases.saved[v]]
      BY <2>2 DEF NewPhases
    <3>3. Is(g)
      BY <3>2
    <3> QED
      BY <3>1, <3>3
  <2>3. CASE type = "flipping"
    <3> DEFINE g == [v \in Vars |-> -phases.saved[v]]
    <3>1. g \in [Vars -> {1, -1}]
      OBVIOUS
    <3>2. saved = [v \in 1..MaxVar |-> IF v \in Vars THEN -phases.saved[v] ELSE phases.saved[v]]
      BY <2>3 DEF NewPhases
    <3>3. Is(g)
      BY <3>2
    <3> QED
      BY <3>1, <3>3
  <2>4. CASE type = "best"
    <3> DEFINE g == [v \in Vars |-> IF best[v] # 0 THEN best[v] ELSE phases.saved[v]]
    <3>1. g \in [Vars -> {1, -1}]
      OBVIOUS
    <3>2. saved = [v \in 1..MaxVar |->
                     IF v \in Vars THEN (IF best[v] # 0 THEN best[v] ELSE phases.saved[v])
                                   ELSE phases.saved[v]]
      BY <2>4 DEF NewPhases
    <3>3. Is(g)
      BY <3>2
    <3> QED
      BY <3>1, <3>3
  <2>5. CASE type \notin {"original", "inverted", "flipping", "best"}
    <3>1. saved \in UNION {{[v \in 1..MaxVar |-> IF v \in Vars THEN f[v] ELSE phases.saved[v]]} :
                           f \in [Vars -> {1, -1}]}
      BY <2>5 DEF NewPhases
    <3>2. PICK f \in [Vars -> {1, -1}] :
            saved \in {[v \in 1..MaxVar |-> IF v \in Vars THEN f[v] ELSE phases.saved[v]]}
      BY <3>1
    <3> QED
      BY <3>2
  <2> QED
    BY <2>1, <2>2, <2>3, <2>4, <2>5
<1>2. PICK g \in [Vars -> {1, -1}] : Is(g)
  BY <1>1
<1>3. \A v \in 1..MaxVar : (IF v \in Vars THEN g[v] ELSE phases.saved[v]) \in {1, -1}
  BY DEF Idx
<1> QED
  BY <1>2, <1>3 DEF Idx

\* Shuffling the queue: all variables are queued, or those that were.
LEMMA ShuffledQueue ==
  ASSUME maxVar \in Nat, Vars \subseteq Idx, Vars = 1..maxVar, NEW d, NEW h, NEW tr, NEW E,
         Found(d, h, tr, maxVar, E),
         NEW order \in (IF opts.shufflerandom THEN SetToSeqs(Vars) ELSE {Backwards(d)})
  PROVE  \E F : Found(ShuffleQueue(d, order), h, tr, maxVar, F)
<1>1. /\ QueueOK(d, E, Free(tr, maxVar)) /\ E \subseteq Vars /\ HeapOK(h, 1..maxVar, Free(tr, maxVar))
      /\ \A v \in (1..maxVar) \ E : Rooted(tr, v)
  BY DEF Found
<1>2. d \in Queues /\ d.bumped <= d.stamp /\ Linked(d, E, d.btab) /\ d.btab \in [Idx -> Int]
  BY <1>1, QueueTypes, ZenonT(30) DEF QueueOK
<1>3. \E F \in SUBSET Vars : E \subseteq F /\ Arranges(order, F)
  <2>1. CASE opts.shufflerandom
    <3>1. \A x, y \in Int : IsFiniteSet(x..y)
      BY FS_Interval
    <3>2. IsFiniteSet(Vars) /\ order \in SetToSeqs(Vars)
      BY <2>1, <3>1
    <3>3. Arranges(order, Vars)
      BY <3>2, PermutationFacts
    <3> QED
      BY <1>1, <3>3
  <2>2. CASE ~opts.shufflerandom
    <3>1. Lists(order, E, d.btab)
      BY <1>1, <1>2, <2>2, BackwardsFacts
    <3>2. \A w \in E : d.btab[w] \in Int
      BY <1>1, <1>2
    <3>3. Arranges(order, E)
      BY <3>1, <3>2, ListArranges
    <3> QED
      BY <1>1, <3>3
  <2> QED
    BY <2>1, <2>2
<1>4. PICK F \in SUBSET Vars : E \subseteq F /\ Arranges(order, F)
  BY <1>3
<1> DEFINE e == ShuffleQueue(d, order)
<1>5. Free(tr, maxVar) \subseteq F /\ F \subseteq Idx
  <2>1. Free(tr, maxVar) \subseteq E
    BY QueuedFree
  <2> QED
    BY <1>4, <2>1
<1>6. QueueOK(e, F, Free(tr, maxVar)) /\ Grounded(e, F)
  BY <1>2, <1>4, <1>5, ShuffleQueueFacts
<1> HIDE DEF e
<1>7. \A v \in (1..maxVar) \ F : Rooted(tr, v)
  BY <1>1, <1>4
<1> QED
  BY <1>1, <1>4, <1>6, <1>7 DEF Found, e

\* Shuffling the scores: all variables are on the heap, or those that were.
LEMMA ShuffledScores ==
  ASSUME maxVar \in Nat, Vars \subseteq Idx, Vars = 1..maxVar, NEW d, NEW h, NEW tr, NEW E,
         Found(d, h, tr, maxVar, E),
         NEW order \in (IF opts.shufflerandom THEN SetToSeqs(Vars) ELSE {ByScore(h)})
  PROVE  LET e == ShuffleScores(h, order) IN
         /\ Found(d, e, tr, maxVar, E) /\ (Scaled(h) => Scaled(e))
         /\ Free(tr, maxVar) # {} => e.inc > 0
         /\ \A w \in Free(tr, maxVar) : e.stab[w] <= e.inc
         /\ \A w \in Idx \ Vars : e.stab[w] = h.stab[w]
<1> DEFINE e == ShuffleScores(h, order)
           M == IF opts.shufflerandom THEN Vars ELSE {x \in Vars : In(x, h.heap)}
           U == Free(tr, maxVar)
<1>1. HeapTree(h) /\ h \in Heaps /\ (\A w : In(w, h.heap) => w \in Vars)
      /\ \A u \in U : In(u, h.heap)
  BY DEF Found, HeapOK, HeapTree
<1>2. M \subseteq Vars /\ U \subseteq Vars /\ \A u \in U : u \in M
  BY <1>1 DEF Free
<1>3. Arranges(order, M)
  <2>1. CASE opts.shufflerandom
    <3>1. \A x, y \in Int : IsFiniteSet(x..y)
      BY FS_Interval
    <3>2. IsFiniteSet(Vars) /\ order \in SetToSeqs(Vars)
      BY <2>1, <3>1
    <3> QED
      BY <2>1, <3>2, PermutationFacts
  <2>2. CASE ~opts.shufflerandom
    <3>1. \A x : In(x, h.heap) <=> x \in M
      BY <1>1, <2>2
    <3>2. order = ByScore(h)
      BY <2>2
    <3> HIDE DEF M
    <3> QED
      BY <1>1, <3>1, <3>2, ByScoreFacts
  <2> QED
    BY <2>1, <2>2
<1> HIDE DEF M
<1>4. /\ HeapTree(e) /\ (\A w : In(w, e.heap) <=> w \in M) /\ (Scaled(h) => Scaled(e))
      /\ M # {} => e.inc > 0
      /\ \A w \in M : e.stab[w] <= e.inc
      /\ \A w \in Idx \ M : e.stab[w] = h.stab[w]
  <2>1. h \in Heaps /\ M \subseteq Idx
    BY <1>1, <1>2
  <2> HIDE DEF e
  <2>2. e = ShuffleScores(h, order)
    BY DEF e
  <2> QED
    BY ONLY <2>1, <2>2, <1>3, ShuffleScoresFacts
<1> HIDE DEF e, U
<1>6. /\ U # {} => e.inc > 0
      /\ \A w \in U : e.stab[w] <= e.inc
      /\ \A w \in Idx \ Vars : e.stab[w] = h.stab[w]
  BY <1>2, <1>4
<1>5. HeapOK(e, 1..maxVar, U)
  BY <1>2, <1>4 DEF HeapOK
<1> QED
  BY <1>4, <1>5, <1>6 DEF Found, e, U

\* Rephase.
LEMMA RephaseDecides ==
  ASSUME Decides, Rephase
  PROVE  Decides'
<1> DEFINE n == rephased.count[stable]
           down == Backtrack(t, 0)
           u == Undo(q, s, down)
           p == OnBacktrack(0)
<1>1. PICK saved \in NewPhases(Schedule(n), p.phases.best) :
        phases' = [p.phases EXCEPT !.saved = saved,
                     !.target = [v \in 1..MaxVar |-> IF v \in Vars THEN 0 ELSE @[v]]]
  BY ZenonT(30) DEF Rephase
<1>2. /\ t' = down /\ assigned' = [p.assigned EXCEPT !.target = 0]
      /\ UNCHANGED <<opts, maxVar, e2i, inactive, conflicts, compacts>>
  BY DEF Rephase
<1>3. \/ \E order \in (IF opts.shufflerandom THEN SetToSeqs(Vars) ELSE {ByScore(u.s)}) :
           s' = ShuffleScores(u.s, order) /\ q' = u.q
      \/ \E order \in (IF opts.shufflerandom THEN SetToSeqs(Vars) ELSE {Backwards(u.q)}) :
           q' = ShuffleQueue(u.q, order) /\ s' = u.s
  BY DEF Rephase
<1>4. maxVar \in Nat /\ Stack(t, maxVar) /\ 0 \in 0..Level(t) /\ Vars = 1..maxVar /\ Vars \subseteq Idx
      /\ MaxVar \in Nat
  BY ConstantFacts, TrailTypes DEF Decides, Stack
<1>5. PICK E : Found(q, s, t, maxVar, E)
  BY DEF Decides
<1>6. /\ Stack(down, maxVar) /\ Found(u.q, u.s, down, maxVar, E) /\ Scaled(u.s)
      /\ Named(e2i, down, maxVar) /\ Level(down) = 0
  <2>1. Level(down) = 0
    BY <1>4, StackBacktrack
  <2> QED
    BY <1>4, <1>5, <2>1, BackKeeps DEF Decides
<1>7. p.phases \in Marks /\ p.phases.saved = phases.saved /\ p.assigned \in Sizes(maxVar)
  BY <1>4, OnBacktrackFacts DEF Decides
<1> HIDE DEF p, u, down, n
<1>8. saved \in [Idx -> {1, -1}]
  <2>1. phases.saved \in [Idx -> {1, -1}] /\ p.phases.best \in [Idx -> {-1, 0, 1}]
        /\ opts.phase \in {1, -1}
    BY <1>7, DecideAssumption DEF Decides, Marks
  <2> QED
    BY <1>1, <1>4, <2>1, NewPhasesFacts
<1>9. phases' \in Marks /\ phases'.saved = saved
  <2> DEFINE T == [v \in 1..MaxVar |-> IF v \in Vars THEN 0 ELSE p.phases.target[v]]
  <2>1. T \in [Idx -> {-1, 0, 1}]
    <3>1. p.phases.target \in [Idx -> {-1, 0, 1}]
      BY <1>7 DEF Marks
    <3> QED
      BY <3>1 DEF Idx
  <2>2. phases' = [p.phases EXCEPT !.saved = saved, !.target = T]
    BY <1>1, <1>7 DEF Marks
  <2> HIDE DEF T
  <2> QED
    BY <1>7, <1>8, <2>1, <2>2 DEF Marks
<1>10. assigned' \in Sizes(maxVar)
  <2>1. 0 \in 0..maxVar
    BY <1>4
  <2> QED
    BY <1>2, <1>7, <2>1 DEF Sizes
<1>11. Agrees(down, saved)
  <2>1. \A k \in Positions(down) : down.trail[k].level <= 0
    BY <1>6 DEF Stack
  <2>2. \A k \in Positions(down) : down.trail[k].level \in Nat
    BY <1>6, TrailTypes DEF Stack
  <2> QED
    BY <2>1, <2>2 DEF Agrees
<1>12. Scaled(s') /\ \E F : Found(q', s', down, maxVar, F)
  <2>1. CASE \E order \in (IF opts.shufflerandom THEN SetToSeqs(Vars) ELSE {ByScore(u.s)}) :
               s' = ShuffleScores(u.s, order) /\ q' = u.q
    BY <1>4, <1>6, <2>1, ShuffledScores
  <2>2. CASE \E order \in (IF opts.shufflerandom THEN SetToSeqs(Vars) ELSE {Backwards(u.q)}) :
               q' = ShuffleQueue(u.q, order) /\ s' = u.s
    BY <1>4, <1>6, <2>2, ShuffledQueue
  <2> QED
    BY <1>3, <2>1, <2>2
<1> QED
  BY <1>2, <1>6, <1>9, <1>10, <1>11, <1>12 DEF Decides

-----------------------------------------------------------------------------
(* Compaction.                                                             *)

\* The variables that compaction keeps.
Staying == {w \in Vars : (w \notin inactive /\ ~Assigned(t, w)) \/ w = FirstFixed}

\* The trail after compaction.
CompactTrail(m) ==
  IF FirstFixed = 0 THEN EmptyTrail
  ELSE [SaveAssign(EmptyTrail, Val(t, FirstFixed) * m[FirstFixed], 0) EXCEPT !.propagated = 1]

\* The first fixed variable, if there is one.
LEMMA FirstFixedFacts ==
  ASSUME maxVar \in Nat
  PROVE  /\ FirstFixed # 0 => FirstFixed \in Vars /\ Assigned(t, FirstFixed) /\ FirstFixed \in Staying
         /\ \A v \in Vars : Assigned(t, v) => FirstFixed # 0
         /\ \A v \in Staying : v # FirstFixed => v \in Vars /\ v \notin inactive /\ ~Assigned(t, v)
<1>1. FixedVars \subseteq Nat /\ FixedVars \subseteq Vars /\ \A v \in Vars : v # 0
  BY DEF FixedVars, Vars
<1>2. ASSUME FixedVars # {}
      PROVE  FirstFixed \in FixedVars
  <2>1. FirstFixed = Min(FixedVars)
    BY <1>2 DEF FirstFixed
  <2> QED
    BY <1>1, <1>2, <2>1, MinIsLeast
<1>3. FixedVars = {} => FirstFixed = 0
  BY DEF FirstFixed
<1> QED
  BY <1>1, <1>2, <1>3 DEF FixedVars, Staying

\* The trail is empty or holds a literal of the first fixed variable.
LEMMA CompactTrailFacts ==
  ASSUME maxVar \in Nat, Stack(t, maxVar), NEW m, NEW c \in Nat, Renames(m, Staying, c)
  PROVE  LET u == CompactTrail(m) IN
         /\ Stack(u, c) /\ Level(u) = 0 /\ \A saved : Agrees(u, saved)
         /\ \A x \in 1..c : Assigned(u, x) <=> FirstFixed # 0 /\ x = m[FirstFixed]
         /\ FirstFixed # 0 =>
              LET x == m[FirstFixed] IN
              /\ x \in 1..c /\ Rooted(u, x) /\ Rooted(u, -x)
              /\ Val(t, FirstFixed) \in {1, -1}
              /\ Val(u, x) = Val(t, FirstFixed) /\ Val(u, -x) = -Val(t, FirstFixed)
<1> DEFINE u == CompactTrail(m)
<1>1. \A tr : Level(tr) = 0 /\ Stack(tr, c) => \A saved : Agrees(tr, saved)
  <2> SUFFICES ASSUME NEW tr, Level(tr) = 0, Stack(tr, c), NEW saved
               PROVE  Agrees(tr, saved)
    OBVIOUS
  <2>1. \A k \in Positions(tr) : tr.trail[k].level <= 0 /\ tr.trail[k].level \in Nat
    BY TrailTypes DEF Stack
  <2> QED
    BY <2>1 DEF Agrees
<1>2. CASE FirstFixed = 0
  <2>1. u = EmptyTrail
    BY <1>2 DEF CompactTrail
  <2>2. \A x \in 1..c : x \in Int
    OBVIOUS
  <2> HIDE DEF u
  <2> QED
    BY <1>1, <1>2, <2>1, <2>2, EmptyStack DEF u
<1>3. CASE FirstFixed # 0
  <2> DEFINE x == m[FirstFixed]
             l == Val(t, FirstFixed) * x
             a == SaveAssign(EmptyTrail, l, 0)
  <2>1. u = [a EXCEPT !.propagated = 1]
    BY <1>3 DEF CompactTrail
  <2>2. FirstFixed \in Staying /\ Assigned(t, FirstFixed)
    BY <1>3, FirstFixedFacts
  <2>3. x \in 1..c /\ x \in Int /\ x \in Nat
    BY <2>2 DEF Renames
  <2>4. Val(t, FirstFixed) \in {1, -1}
    BY <2>2 DEF Assigned, Val
  <2> HIDE DEF x
  <2>5. l \in {x, -x} /\ (Val(t, FirstFixed) = 1 => l = x) /\ (Val(t, FirstFixed) = -1 => l = -x)
    BY <2>3, <2>4
  <2> HIDE DEF l
  <2>6. l \in Int /\ VarOf(l) = x /\ VarOf(l) \in 1..c /\ VarOf(x) = x /\ VarOf(-x) = x /\ -x \in Int
        /\ x # -x /\ -(-x) = x
    BY <2>3, <2>5, VarFacts
  <2>7. ~Assigned(EmptyTrail, l) /\ Level(EmptyTrail) = 0 /\ Stack(EmptyTrail, c)
        /\ Free(EmptyTrail, c) = 1..c /\ Positions(EmptyTrail) = {} /\ 0 \in 0..Level(EmptyTrail)
    BY <2>6, EmptyStack
  <2>8. /\ Stack(a, c) /\ Level(a) = 0 /\ Free(a, c) = (1..c) \ {x}
        /\ Positions(a) = {1} /\ a.trail[1].lit = l
    <3>1. EmptyTrail.trail = <<>> /\ Len(EmptyTrail.trail) + 1 = 1
      BY DEF EmptyTrail
    <3> HIDE DEF a
    <3> QED
      BY <2>6, <2>7, <3>1, StackOnTop DEF a
  <2> HIDE DEF a
  <2>9. /\ Stack(u, c) /\ Positions(u) = {1} /\ Level(u) = 0 /\ u.trail = a.trail
        /\ \A k : Val(u, k) = Val(a, k) /\ LevelOf(u, k) = LevelOf(a, k)
    <3>1. 1 \in Nat
      OBVIOUS
    <3> HIDE DEF u
    <3> QED
      BY <2>1, <2>8, <3>1, PropagatedStack
  <2> HIDE DEF u
  <2>10. \A y \in 1..c : Assigned(u, y) <=> y = x
    <3>1. \A y \in 1..c : y \in Free(a, c) <=> y # x
      BY <2>8
    <3> QED
      BY <2>9, <3>1 DEF Assigned, Free
  <2>11. TrueLits(u) = {l}
    BY <2>8, <2>9 DEF TrueLits
  <2>12. Val(u, x) = Val(t, FirstFixed) /\ Val(u, -x) = -Val(t, FirstFixed)
    BY <2>4, <2>5, <2>6, <2>11 DEF Val
  <2>13. Rooted(u, x) /\ Rooted(u, -x)
    <3>1. Assigned(u, x) /\ Assigned(u, -x)
      BY <2>4, <2>12 DEF Assigned
    <3>2. LevelOf(u, x) \in 0..0 /\ LevelOf(u, -x) \in 0..0
      BY <2>3, <2>6, <2>9, <3>1, StackFacts
    <3> QED
      BY <3>1, <3>2 DEF Rooted
  <2> QED
    BY <1>1, <1>3, <2>3, <2>4, <2>9, <2>10, <2>12, <2>13 DEF u, x
<1> QED
  BY <1>2, <1>3

\* The literal x is the new name of l.
Maps(m, u, l, x) ==
  \/ x = 0 /\ (l = 0 \/ (m[VarOf(l)] = 0 /\ ~Assigned(t, l)))
  \/ /\ VarOf(l) \in Staying \ {FirstFixed} /\ x = Sign(l) * m[VarOf(l)]
     /\ VarOf(x) = m[VarOf(l)] /\ x # 0 /\ ~Assigned(t, l)
  \/ /\ l # 0 /\ Assigned(t, l) /\ FirstFixed # 0 /\ VarOf(x) = m[FirstFixed]
     /\ Rooted(u, x) /\ Val(u, x) = Val(t, l)

\* What becomes of a literal.
LEMMA MapLitFacts ==
  ASSUME maxVar \in Nat, Stack(t, maxVar), NEW m, NEW c \in Nat, Renames(m, Staying, c),
         NEW l \in Int, VarOf(l) \in 0..maxVar
  PROVE  LET x == MapLit(m, l) IN
         x \in Int /\ VarOf(x) \in 0..c /\ Maps(m, CompactTrail(m), l, x)
<1> DEFINE x == MapLit(m, l)
           u == CompactTrail(m)
           v == VarOf(l)
           f == FirstFixed
<1>1. x = IF l = 0 THEN 0
          ELSE IF m[v] # 0 THEN Sign(l) * m[v]
          ELSE IF Assigned(t, l)
          THEN (IF Val(t, l) = Val(t, f) THEN 1 ELSE -1) * m[f]
          ELSE 0
  BY DEF MapLit
<1>2. /\ f # 0 => /\ m[f] \in 1..c /\ Rooted(u, m[f]) /\ Rooted(u, -m[f])
                  /\ Val(t, f) \in {1, -1}
                  /\ Val(u, m[f]) = Val(t, f) /\ Val(u, -m[f]) = -Val(t, f)
  BY CompactTrailFacts
<1>3. /\ f # 0 => f \in Vars /\ Assigned(t, f) /\ f \in Staying
      /\ \A w \in Vars : Assigned(t, w) => f # 0
      /\ \A w \in Staying : w # f => w \in Vars /\ w \notin inactive /\ ~Assigned(t, w)
  BY FirstFixedFacts
<1>4. /\ v \in Nat /\ l = Sign(l) * v /\ Sign(l) \in {1, -1} /\ (l = 0 <=> v = 0)
      /\ \A w \in Nat : VarOf(w) = w /\ VarOf(-w) = w /\ VarOf(w) \in Nat
  BY VarFacts
<1>5. Assigned(t, l) <=> Assigned(t, v)
  BY StackFacts
<1>6. VarOf(0) = 0
  BY <1>4
<1>7. l # 0 => v \in Vars
  BY <1>4 DEF Vars
<1>8. Val(t, l) \in {-1, 0, 1}
  BY DEF Val
<1> HIDE DEF x, u, v, f
<1>9. CASE l = 0 \/ (m[v] = 0 /\ ~Assigned(t, l))
  <2>1. x = 0
    BY <1>1, <1>9
  <2> QED
    BY <1>6, <1>9, <2>1 DEF Maps, x, u, v
<1>10. CASE l # 0 /\ m[v] # 0 /\ v # f
  <2>1. v \in Staying /\ m[v] \in 1..c /\ ~Assigned(t, v) /\ x = Sign(l) * m[v]
    BY <1>1, <1>3, <1>7, <1>10 DEF Renames
  <2> DEFINE y == m[v]
  <2>2. y \in Nat /\ y # 0 /\ VarOf(y) = y /\ VarOf(-y) = y
    BY <1>4, <2>1
  <2> HIDE DEF y
  <2>3. x = y \/ x = -y
    BY <1>4, <2>1, <2>2 DEF y
  <2>4. x \in Int /\ x # 0 /\ VarOf(x) = y
    BY <2>2, <2>3
  <2> QED
    BY <1>5, <1>10, <2>1, <2>4 DEF Maps, x, u, v, f, y
<1>11. CASE l # 0 /\ f # 0 /\ Assigned(t, l) /\ (m[v] = 0 \/ v = f)
  <2> DEFINE y == m[f]
  <2>1. /\ y \in 1..c /\ y \in Nat /\ Rooted(u, y) /\ Rooted(u, -y) /\ VarOf(y) = y /\ VarOf(-y) = y
        /\ Val(t, f) \in {1, -1} /\ Val(u, y) = Val(t, f) /\ Val(u, -y) = -Val(t, f)
    BY <1>2, <1>4, <1>11
  <2>2. y # 0 /\ -y \in Int
    BY <2>1
  <2> HIDE DEF y
  <2>3. (x = y /\ Val(t, l) = Val(t, f)) \/ (x = -y /\ Val(t, l) = -Val(t, f))
    <3>1. CASE v = f
      <4>1. x = Sign(l) * y
        BY <1>1, <1>11, <2>2, <3>1 DEF y
      <4>2. f \in Nat /\ (l = f \/ l = -f)
        BY <1>4, <3>1
      <4>3. Val(t, -f) = -Val(t, f)
        <5>1. t \in Trails /\ Distinct(t) /\ f \in Int
          BY <4>2 DEF Stack
        <5>2. /\ Val(t, f) = 1 <=> Val(t, -f) = -1
              /\ Val(t, f) = -1 <=> Val(t, -f) = 1
          BY <5>1, Values
        <5> QED
          BY <2>1, <5>2
      <4>4. CASE Sign(l) = 1
        <5>1. x = y /\ l = f
          BY <1>4, <2>1, <3>1, <4>1, <4>4
        <5> QED
          BY <5>1
      <4>5. CASE Sign(l) = -1
        <5>1. x = -y /\ l = -f
          BY <1>4, <2>1, <3>1, <4>1, <4>5
        <5> QED
          BY <4>3, <5>1
      <4> QED
        BY <1>4, <4>4, <4>5
    <3>2. CASE m[v] = 0
      <4>1. x = (IF Val(t, l) = Val(t, f) THEN 1 ELSE -1) * y
        BY <1>1, <1>11, <3>2 DEF y
      <4>2. Val(t, l) \in {1, -1}
        BY <1>8, <1>11 DEF Assigned
      <4> QED
        BY <2>1, <4>1, <4>2
    <3> QED
      BY <1>11, <3>1, <3>2
  <2>4. x \in Int /\ VarOf(x) = y /\ Rooted(u, x) /\ Val(u, x) = Val(t, l)
    BY <2>1, <2>2, <2>3
  <2> QED
    BY <1>11, <2>1, <2>4 DEF Maps, x, u, v, f, y
<1>12. ASSUME l # 0, m[v] # 0, v = f
       PROVE  Assigned(t, l) /\ f # 0
  BY <1>3, <1>4, <1>5, <1>12
<1>13. ASSUME l # 0, Assigned(t, l)
       PROVE  f # 0
  BY <1>3, <1>5, <1>7, <1>13
<1> QED
  BY <1>9, <1>10, <1>11, <1>12, <1>13

\* What compaction does to the state, with m the new names and c their number.
Compacts(m, c) ==
  /\ c \in 0..maxVar /\ Renames(m, Staying, c) /\ maxVar' = c /\ inactive' = {}
  /\ e2i' = [e \in DOMAIN e2i |-> MapLit(m, e2i[e])]
  /\ q' = MapQueue(m, q) /\ s' = MapScores(m, s) /\ t' = CompactTrail(m)
  /\ phases' = [saved |-> MapVector(m, phases.saved, opts.phase),
                forced |-> MapVector(m, phases.forced, 0),
                target |-> MapVector(m, phases.target, 0), best |-> MapVector(m, phases.best, 0)]
  /\ assigned' = [target |-> Cardinality({v \in 1..c : MapVector(m, phases.target, 0)[v] # 0}),
                  best |-> Cardinality({v \in 1..c : MapVector(m, phases.best, 0)[v] # 0}),
                  until |-> 0]

\* Compaction gives ranks as names.
LEMMA CompactSteps ==
  ASSUME maxVar \in Nat, Compact
  PROVE  \E m, c : Compacts(m, c)
<1>1. PICK m \in {MapIdx} :
       LET n == Max({0} \cup Rng(m))
           target == MapVector(m, phases.target, 0)
           best == MapVector(m, phases.best, 0)
       IN /\ maxVar' = n /\ inactive' = {}
          /\ e2i' = [e \in DOMAIN e2i |-> MapLit(m, e2i[e])]
          /\ q' = MapQueue(m, q) /\ s' = MapScores(m, s)
          /\ t' = IF FirstFixed = 0 THEN EmptyTrail
                  ELSE [SaveAssign(EmptyTrail, Val(t, FirstFixed) * m[FirstFixed], 0)
                          EXCEPT !.propagated = 1]
          /\ phases' = [saved |-> MapVector(m, phases.saved, opts.phase),
                        forced |-> MapVector(m, phases.forced, 0),
                        target |-> target, best |-> best]
          /\ assigned' = [target |-> Cardinality({v \in 1..n : target[v] # 0}),
                          best |-> Cardinality({v \in 1..n : best[v] # 0}), until |-> 0]
  BY DEF Compact
<1>2. m = [v \in Vars |-> IF v \in Staying THEN Cardinality({w \in Staying : w <= v}) ELSE 0]
  BY DEF MapIdx, Staying
<1> DEFINE c == Cardinality(Staying)
<1>3. Staying \subseteq Vars
  BY DEF Staying
<1>4. c \in 0..maxVar /\ Renames(m, Staying, c)
  BY <1>2, <1>3, RanksRename
<1> HIDE DEF c
<1>5. Max({0} \cup Rng(m)) = c
  BY <1>4, RenamesMax
<1>6. t' = CompactTrail(m)
  BY <1>1 DEF CompactTrail
<1> QED
  BY <1>1, <1>4, <1>5, <1>6 DEF Compacts

\* Counting some of the first n numbers.
LEMMA CountBounded ==
  ASSUME NEW n \in Nat, NEW S, S \subseteq 1..n
  PROVE  Cardinality(S) \in 0..n
<1>1. \A x, y \in Int : IsFiniteSet(x..y) /\ Cardinality(x..y) = IF x > y THEN 0 ELSE (y - x) + 1
  BY FS_Interval
<1>2. IsFiniteSet(1..n) /\ Cardinality(1..n) = n
  BY <1>1
<1>3. IsFiniteSet(S) /\ Cardinality(S) <= Cardinality(1..n)
  BY <1>2, FS_Subset
<1>4. Cardinality(S) \in Nat
  BY <1>3, FS_CardinalityType
<1> QED
  BY <1>2, <1>3, <1>4

\* Queue and heap find the new names of what they found.
LEMMA CompactFound ==
  ASSUME Decides, NEW m, NEW c, Compacts(m, c)
  PROVE  /\ Scaled(s') /\ \E R : Found(q', s', t', c, R)
         /\ s'.stab = MapVector(m, s.stab, 0) /\ s'.inc = s.inc
<1> DEFINE f == FirstFixed
           U == Free(t, maxVar)
           V == Free(t', c)
<1>1. /\ maxVar \in Nat /\ Vars = 1..maxVar /\ Vars \subseteq Idx /\ MaxVar \in Nat /\ Stack(t, maxVar)
      /\ c \in 0..MaxVar /\ c \in Nat /\ Renames(m, Staying, c)
  <2>1. maxVar \in Nat /\ Vars = 1..maxVar /\ Vars \subseteq Idx /\ MaxVar \in Nat /\ maxVar <= MaxVar
    BY ConstantFacts DEF Decides
  <2> QED
    BY <2>1 DEF Decides, Compacts
<1>2. PICK E : Found(q, s, t, maxVar, E)
  BY DEF Decides
<1>3. QueueOK(q, E, U) /\ E \subseteq Vars /\ HeapOK(s, 1..maxVar, U) /\ U \subseteq E
      /\ \A v \in (1..maxVar) \ E : Rooted(t, v)
  BY <1>1, <1>2 DEF Found, QueueOK
<1>4. /\ f # 0 => f \in Vars /\ Assigned(t, f) /\ f \in Staying
      /\ \A w \in Staying : w # f => w \in U
      /\ \A w \in U : w # f /\ w \in Vars
  BY <1>1, FirstFixedFacts DEF Free
<1>5. /\ \A x \in 1..c : Assigned(t', x) <=> f # 0 /\ x = m[f]
      /\ f # 0 => m[f] \in 1..c /\ Rooted(t', m[f])
  BY <1>1, CompactTrailFacts DEF Compacts
<1>6. \A v \in Vars : Stays(m, v) => v \in U
  BY <1>1, <1>4 DEF Stays, Renames
<1> HIDE DEF U, f
<1>7. ASSUME NEW x \in V
      PROVE  \E w \in U : Stays(m, w) /\ m[w] = x
  <2>1. x \in 1..c /\ ~Assigned(t', x)
    BY <1>7 DEF Free
  <2>2. PICK w \in Staying : m[w] = x
    BY <1>1, <2>1 DEF Renames
  <2>3. w # f
    <3>1. SUFFICES ASSUME w = f
                   PROVE  FALSE
      OBVIOUS
    <3>2. f # 0
      BY <1>1, <2>2, <3>1 DEF Renames, Vars
    <3> QED
      BY <1>5, <2>1, <2>2, <3>1, <3>2
  <2>4. Stays(m, w)
    BY <2>1, <2>2, <2>3 DEF Stays, f
  <2> QED
    BY <1>4, <2>2, <2>3, <2>4
<1> DEFINE R == Renamed(m, E)
           M == {x \in Vars : In(x, s.heap)}
           N == Renamed(m, M)
<1>8. /\ \A A \in SUBSET Vars : Renamed(m, A) \subseteq 1..c
      /\ \A A \in SUBSET Vars : U \subseteq A => V \subseteq Renamed(m, A)
  <2>1. \A w \in Vars : Stays(m, w) => m[w] \in 1..c
    BY <1>1 DEF Stays, Renames
  <2> QED
    BY <1>7, <2>1 DEF Renamed
<1>9. QueueOK(q', R, R) /\ Grounded(q', R)
  <2>1. q' = MapQueue(m, q)
    BY DEF Compacts
  <2>2. \A v \in E : Stays(m, v) => v \in U
    BY <1>3, <1>6
  <2> QED
    BY <1>1, <1>3, <2>1, <2>2, MapQueueFacts
<1>10. \A w : In(w, s.heap) <=> w \in M
  BY <1>1, <1>3 DEF HeapOK
<1>11. U \subseteq M
  BY <1>3, <1>4 DEF HeapOK
<1>12. HeapTree(s') /\ s'.stab = MapVector(m, s.stab, 0) /\ s'.inc = s.inc
       /\ \A w : In(w, s'.heap) <=> w \in N
  <2>1. s' = MapScores(m, s) /\ HeapTree(s) /\ M \subseteq Vars
    BY <1>3 DEF Compacts, HeapOK
  <2> HIDE DEF M
  <2> QED
    BY <1>1, <1>10, <2>1, MapScoresFacts
<1> HIDE DEF R, M, N
<1>13. R \subseteq 1..c /\ N \subseteq 1..c /\ V \subseteq R /\ V \subseteq N
  <2>1. E \in SUBSET Vars /\ M \in SUBSET Vars
    BY <1>3 DEF M
  <2> QED
    BY <1>3, <1>8, <1>11, <2>1 DEF R, N
<1> HIDE DEF V
<1>14. QueueOK(q', R, V)
  BY <1>9, <1>13, FewerFree
<1>15. HeapOK(s', 1..c, V)
  BY <1>12, <1>13 DEF HeapOK
<1>16. ASSUME NEW x \in (1..c) \ R
       PROVE  Rooted(t', x)
  <2>1. PICK w \in Staying : m[w] = x
    BY <1>1 DEF Renames
  <2>2. w = f
    <3>1. SUFFICES ASSUME w # f
                   PROVE  FALSE
      OBVIOUS
    <3>2. w \in E
      BY <1>3, <1>4, <2>1, <3>1
    <3>3. Stays(m, w)
      BY <2>1, <3>1 DEF Stays, f
    <3> QED
      BY <2>1, <3>2, <3>3 DEF R, Renamed
  <2>3. f # 0
    BY <1>1, <2>1, <2>2 DEF Renames, Vars
  <2> QED
    BY <1>5, <2>1, <2>2, <2>3
<1>17. Found(q', s', t', c, R)
  BY <1>9, <1>13, <1>14, <1>15, <1>16 DEF Found, V
<1>18. Scaled(s')
  <2> DEFINE T == 0..ScoreLimit
             g == MapVector(m, s.stab, 0)
  <2>1. ScoreLimit \in Nat /\ 0 \in T
    BY LimitFacts
  <2>2. \A v \in Staying : s.stab[v] \in T
    <3>1. Staying \subseteq Idx
      BY <1>1 DEF Renames
    <3>2. \A v \in Idx : s.stab[v] \in Nat
      BY <1>3, HeapTypes DEF HeapOK, HeapTree
    <3>3. \A v \in Idx : s.stab[v] <= ScoreLimit
      BY DEF Decides, Scaled
    <3> QED
      BY <2>1, <3>1, <3>2, <3>3
  <2> HIDE DEF T, g
  <2>3. g \in [Idx -> T]
    BY <1>1, <2>1, <2>2, MapVectorFacts DEF g
  <2>4. \A v \in Idx : g[v] <= ScoreLimit
    BY <2>1, <2>3 DEF T
  <2> QED
    BY <1>12, <2>4 DEF Scaled, Decides, g
<1> QED
  BY <1>12, <1>17, <1>18

\* External variables that are not fixed keep internal variables of their own.
LEMMA CompactNamed ==
  ASSUME Decides, NEW m, NEW c, Compacts(m, c)
  PROVE  Named(e2i', t', c)
<1>1. maxVar \in Nat /\ Stack(t, maxVar) /\ c \in Nat /\ Renames(m, Staying, c)
  BY ConstantFacts DEF Decides, Compacts
<1>2. e2i \in [Idx -> Int] /\ (\A e \in Idx : VarOf(e2i[e]) \in 0..maxVar)
      /\ e2i' = [e \in Idx |-> MapLit(m, e2i[e])] /\ t' = CompactTrail(m)
  BY DEF Decides, Named, Compacts
<1>3. \A e \in Idx : LET x == MapLit(m, e2i[e]) IN
        x \in Int /\ VarOf(x) \in 0..c /\ Maps(m, t', e2i[e], x)
  BY <1>1, <1>2, MapLitFacts
<1>4. \A e \in Idx : /\ e2i'[e] \in Int /\ VarOf(e2i'[e]) \in 0..c
                     /\ Maps(m, t', e2i[e], e2i'[e])
  BY <1>2, <1>3
<1>5. ASSUME NEW e \in Idx, e2i'[e] # 0, ~Rooted(t', e2i'[e])
      PROVE  e2i'[e] > 0 /\ \A g \in Idx \ {e} : VarOf(e2i'[g]) # e2i'[e]
  <2> DEFINE l == e2i[e]
             v == VarOf(l)
             x == e2i'[e]
  <2>1. v \in Staying \ {FirstFixed} /\ x = Sign(l) * m[v] /\ VarOf(x) = m[v] /\ ~Assigned(t, l)
    BY <1>4, <1>5 DEF Maps
  <2>2. v \in Vars /\ m[v] \in 1..c /\ l \in Int
    BY <1>1, <1>2, <2>1 DEF Renames
  <2>3. l # 0 /\ ~Rooted(t, l)
    BY <2>1, <2>2, VarFacts DEF Rooted, Vars
  <2>4. l > 0 /\ \A g \in Idx \ {e} : VarOf(e2i[g]) # l
    BY <2>3 DEF Decides, Named
  <2>5. v = l /\ Sign(l) = 1
    BY <2>2, <2>4 DEF VarOf, Sign
  <2>6. x = m[v] /\ x > 0
    BY <2>1, <2>2, <2>5
  <2>7. ASSUME NEW g \in Idx \ {e}
        PROVE  VarOf(e2i'[g]) # x
    <3>1. VarOf(e2i[g]) # v
      BY <2>4, <2>5
    <3>2. CASE e2i'[g] = 0
      BY <2>2, <2>6, <3>2 DEF VarOf
    <3>3. CASE VarOf(e2i[g]) \in Staying /\ VarOf(e2i'[g]) = m[VarOf(e2i[g])]
      BY <1>1, <2>1, <2>6, <3>1, <3>3 DEF Renames
    <3>4. CASE FirstFixed # 0 /\ VarOf(e2i'[g]) = m[FirstFixed]
      <4>1. FirstFixed \in Staying
        BY <1>1, <3>4, FirstFixedFacts
      <4> QED
        BY <1>1, <2>1, <2>6, <3>4, <4>1 DEF Renames
    <3> QED
      BY <1>4, <3>2, <3>3, <3>4 DEF Maps
  <2> QED
    BY <2>6, <2>7
<1>6. e2i' \in [Idx -> Int]
  BY <1>2, <1>4
<1> QED
  BY <1>4, <1>5, <1>6 DEF Named

\* Compact.
LEMMA CompactDecides ==
  ASSUME Decides, Compact
  PROVE  Decides'
<1>1. maxVar \in Nat /\ Stack(t, maxVar) /\ MaxVar \in Nat
  BY ConstantFacts DEF Decides
<1>2. PICK m, c : Compacts(m, c)
  BY <1>1, CompactSteps
<1>3. /\ c \in 0..MaxVar /\ c \in Nat /\ Renames(m, Staying, c) /\ maxVar' = c /\ inactive' = {}
      /\ t' = CompactTrail(m) /\ Staying \subseteq Idx
  BY <1>1, <1>2, ConstantFacts DEF Decides, Compacts, Renames
<1>4. Scaled(s') /\ \E R : Found(q', s', t', c, R)
  BY <1>2, CompactFound
<1>5. Named(e2i', t', c)
  BY <1>2, CompactNamed
<1>6. Stack(t', c) /\ \A saved : Agrees(t', saved)
  BY <1>1, <1>3, CompactTrailFacts
<1>7. phases' \in Marks
  <2>1. /\ phases.saved \in [Idx -> {1, -1}] /\ phases.forced \in [Idx -> {-1, 0, 1}]
        /\ phases.target \in [Idx -> {-1, 0, 1}] /\ phases.best \in [Idx -> {-1, 0, 1}]
        /\ opts.phase \in {1, -1}
    BY DecideAssumption DEF Decides, Marks
  <2>2. /\ \A v \in Staying : phases.saved[v] \in {1, -1}
        /\ \A v \in Staying : phases.forced[v] \in {-1, 0, 1}
        /\ \A v \in Staying : phases.target[v] \in {-1, 0, 1}
        /\ \A v \in Staying : phases.best[v] \in {-1, 0, 1}
    BY <1>3, <2>1
  <2>3. MapVector(m, phases.saved, opts.phase) \in [Idx -> {1, -1}]
    <3> DEFINE T == {1, -1}
    <3>1. opts.phase \in T /\ \A v \in Staying : phases.saved[v] \in T
      BY <2>1, <2>2
    <3> HIDE DEF T
    <3>2. MapVector(m, phases.saved, opts.phase) \in [Idx -> T]
      BY <1>1, <1>3, <3>1, MapVectorFacts
    <3> QED
      BY <3>2 DEF T
  <2>4. \A f : (\A v \in Staying : f[v] \in {-1, 0, 1}) => MapVector(m, f, 0) \in [Idx -> {-1, 0, 1}]
    <3> SUFFICES ASSUME NEW f, \A v \in Staying : f[v] \in {-1, 0, 1}
                 PROVE  MapVector(m, f, 0) \in [Idx -> {-1, 0, 1}]
      OBVIOUS
    <3> DEFINE T == {-1, 0, 1}
    <3>1. 0 \in T /\ \A v \in Staying : f[v] \in T
      OBVIOUS
    <3> HIDE DEF T
    <3>2. MapVector(m, f, 0) \in [Idx -> T]
      BY <1>1, <1>3, <3>1, MapVectorFacts
    <3> QED
      BY <3>2 DEF T
  <2>5. phases' = [saved |-> MapVector(m, phases.saved, opts.phase),
                   forced |-> MapVector(m, phases.forced, 0),
                   target |-> MapVector(m, phases.target, 0), best |-> MapVector(m, phases.best, 0)]
    BY <1>2 DEF Compacts
  <2>6. /\ MapVector(m, phases.forced, 0) \in [Idx -> {-1, 0, 1}]
        /\ MapVector(m, phases.target, 0) \in [Idx -> {-1, 0, 1}]
        /\ MapVector(m, phases.best, 0) \in [Idx -> {-1, 0, 1}]
    BY <2>2, <2>4
  <2> QED
    BY <2>3, <2>5, <2>6 DEF Marks
<1>8. assigned' \in Sizes(c)
  <2>1. \A f : Cardinality({v \in 1..c : f[v] # 0}) \in 0..c
    <3> SUFFICES ASSUME NEW f
                 PROVE  Cardinality({v \in 1..c : f[v] # 0}) \in 0..c
      OBVIOUS
    <3>1. {v \in 1..c : f[v] # 0} \subseteq 1..c
      OBVIOUS
    <3> QED
      BY <1>3, <3>1, CountBounded
  <2>2. assigned' = [target |-> Cardinality({v \in 1..c : MapVector(m, phases.target, 0)[v] # 0}),
                     best |-> Cardinality({v \in 1..c : MapVector(m, phases.best, 0)[v] # 0}),
                     until |-> 0]
    BY <1>2 DEF Compacts
  <2>3. 0 \in 0..c
    BY <1>3
  <2> QED
    BY <2>1, <2>2, <2>3 DEF Sizes
<1>9. opts' \in Options /\ conflicts' \in Nat /\ compacts' \in Nat
  BY DEF Decides, Compact
<1> QED
  BY <1>3, <1>4, <1>5, <1>6, <1>7, <1>8, <1>9 DEF Decides

\* Every step keeps the invariant.
LEMMA DecidesStep ==
  ASSUME Decides, [DecideNext]_vars
  PROVE  Decides'
<1>1. CASE UNCHANGED vars
  BY <1>1 DEF Decides, vars
<1>2. CASE \E e \in DOMAIN e2i : NewVar(e)
  <2>1. DOMAIN e2i = Idx
    BY DEF Decides, Named
  <2> QED
    BY <1>2, <2>1, NewVarDecides
<1>3. CASE \E l \in Forcible : Phase(l)
  <2>1. \A l \in Forcible : l \in Int
    BY DecideAssumption, LitFacts
  <2> QED
    BY <1>3, <2>1, PhaseDecides
<1>4. CASE \E l \in Implied \cap LitsOf(maxVar) : AddUnit(l) \/ Propagate(l)
  BY <1>4, AddUnitDecides, PropagateDecides
<1>5. CASE PropagateDone
  BY <1>5, PropagateDoneDecides
<1>6. CASE Conflict
  BY <1>6, ConflictDecides
<1>7. CASE TakeDecision
  BY <1>7, TakeDecisionDecides
<1>8. CASE Stabilize \/ \E v \in Vars \cap Eliminable : Eliminate(v)
  BY <1>8, StabilizeDecides
<1>9. CASE Restart
  BY <1>9, RestartDecides
<1>10. CASE Rephase
  BY <1>10, RephaseDecides
<1>11. CASE Compact
  BY <1>11, CompactDecides
<1> QED
  BY <1>1, <1>2, <1>3, <1>4, <1>5, <1>6, <1>7, <1>8, <1>9, <1>10, <1>11 DEF DecideNext

-----------------------------------------------------------------------------
(* The score increment stays positive.                                     *)

\* A quotient is below a bound if the dividend is below its product.
LEMMA QuotientBelow ==
  ASSUME NEW z \in Nat, NEW d \in Nat, d > 0, NEW k \in Nat, z < d * k
  PROVE  z \div d < k
<1> DEFINE p == z \div d
<1>1. p \in Int /\ z = d * p + (z % d) /\ z % d \in 0..d - 1
  OBVIOUS
<1> HIDE DEF p
<1>2. d * p < d * k
  BY <1>1
<1>3. ~(p >= k)
  <2> SUFFICES ASSUME p >= k PROVE FALSE
    OBVIOUS
  <2>1. p - k \in Nat /\ d * (p - k) >= 0 /\ d * (p - k) = d * p - d * k
    BY <1>1
  <2> QED
    BY <1>1, <1>2, <2>1
<1> QED
  BY <1>1, <1>3 DEF p

\* Rescaling keeps how far scores are ahead of the increment: the divider is
\* more than one and a half times the score 1.0.
LEMMA RescaleAhead ==
  ASSUME NEW d \in Nat, d > 0, 2 * d > 3 * One, NEW x \in Nat, NEW y \in Nat
  PROVE  LET u == (x * One) \div d
             w == (y * One) \div d
         IN  /\ y <= x + 3 => w <= u + 3
             /\ y <= 2 * x + 3 => w <= 2 * u + 3
<1> DEFINE X == x * One
           Y == y * One
           u == X \div d
           w == Y \div d
<1>1. One \in Nat
  BY LimitFacts
<1>2. X \in Nat /\ Y \in Nat
  BY <1>1
<1>3. /\ y <= x + 3 => Y <= X + 3 * One
      /\ y <= 2 * x + 3 => Y <= 2 * X + 3 * One
  <2>1. ASSUME NEW a \in Nat, y <= a PROVE Y <= a * One
    <3>1. a - y \in Nat
      BY <2>1
    <3>2. (a - y) * One >= 0 /\ (a - y) * One = a * One - Y /\ a * One \in Int
      BY <1>1, <3>1
    <3> QED
      BY <1>2, <3>2
  <2>2. (x + 3) * One = X + 3 * One /\ (2 * x + 3) * One = 2 * X + 3 * One
    BY <1>1
  <2>3. x + 3 \in Nat /\ 2 * x + 3 \in Nat
    OBVIOUS
  <2> HIDE DEF X, Y
  <2> QED
    BY <2>1, <2>2, <2>3
<1> HIDE DEF X, Y
<1>4. /\ u \in Int /\ X = d * u + (X % d) /\ X % d \in 0..d - 1
      /\ w \in Int
  BY <1>2
<1>5. u >= 0
  <2> SUFFICES ASSUME u <= -1 PROVE FALSE
    BY <1>4
  <2> HIDE DEF u
  <2>1. -(u + 1) \in Nat /\ d * (-(u + 1)) >= 0 /\ d * (-(u + 1)) = -(d * u) - d
    BY <1>4
  <2> QED
    BY <1>2, <1>4, <2>1
<1> HIDE DEF u
<1>6. u \in Nat /\ X < d * u + d /\ d * u \in Int
  BY <1>4, <1>5
<1>7. d * (u + 4) = d * u + 4 * d /\ d * (2 * u + 4) = 2 * (d * u) + 4 * d
  BY <1>6
<1>8. /\ y <= x + 3 => Y < d * (u + 4)
      /\ y <= 2 * x + 3 => Y < d * (2 * u + 4)
  BY <1>1, <1>2, <1>3, <1>6, <1>7
<1>9. u + 4 \in Nat /\ 2 * u + 4 \in Nat
  BY <1>6
<1>10. /\ y <= x + 3 => w < u + 4
       /\ y <= 2 * x + 3 => w < 2 * u + 4
  BY <1>2, <1>8, <1>9, QuotientBelow
<1> HIDE DEF w
<1>11. /\ y <= x + 3 => w <= u + 3
       /\ y <= 2 * x + 3 => w <= 2 * u + 3
  BY <1>4, <1>6, <1>10
<1> QED
  BY <1>11 DEF u, w, X, Y

\* The score increment is positive; scores of the variables in W are not far
\* ahead of it, of those bumped since it grew (B) not of twice that; and the
\* variables that are not there have no score.
Growing(h, W, B) ==
  /\ h.inc > 0
  /\ \A v \in W : IF v \in B THEN h.stab[v] <= 2 * h.inc + 3 ELSE h.stab[v] <= h.inc + 3
  /\ \A v \in Idx \ Vars : h.stab[v] = 0

\* Rescaling leaves the increment positive: the variable that made it
\* necessary has no score far ahead of the increment.
LEMMA RescaleGrows ==
  ASSUME NEW h, HeapTree(h), Scaled(h), maxVar \in Nat, Vars \subseteq Idx,
         NEW W, W \subseteq Vars, NEW B, Growing(h, W, B), 2 * h.inc + 3 > ScoreLimit,
         2 * h.inc > ScoreLimit \/ \E v \in Vars : 2 * h.stab[v] > ScoreLimit
  PROVE  Growing(Rescale(h), W, B)
<1> DEFINE e == Rescale(h)
<1>1. h \in Heaps /\ h.inc \in Nat /\ \A v \in Idx : h.stab[v] \in Nat
  BY HeapTypes DEF HeapTree
<1>2. h.inc > 0
  BY DEF Growing
<1>3. PICK d \in {h.inc} \cup {h.stab[v] : v \in Vars} :
         /\ d \in Nat /\ d > 0 /\ h.inc <= d /\ \A v \in Vars : h.stab[v] <= d
         /\ e.inc = (h.inc * One) \div d
         /\ \A v \in Idx : e.stab[v] = (h.stab[v] * One) \div d
  BY <1>2, RescaleFacts
<1> HIDE DEF e
<1>4. One \in Nat /\ One > 3 /\ ScoreLimit \in Nat /\ ScoreLimit > 3 * One
  <2>1. One \in Nat /\ One > 3 /\ ScoreLimit \in Nat /\ ScoreLimit > MaxVar * One /\ MaxVar \in Nat /\ MaxVar > 2
    BY DecideAssumption
  <2>2. MaxVar - 3 \in Nat /\ (MaxVar - 3) * One >= 0 /\ (MaxVar - 3) * One = MaxVar * One - 3 * One
        /\ MaxVar * One \in Int
    BY <2>1
  <2> QED
    BY <2>1, <2>2
<1>5. 2 * d > ScoreLimit /\ d <= ScoreLimit
  <2>1. \A v \in Vars : h.stab[v] \in Nat /\ h.stab[v] <= ScoreLimit
    BY <1>1 DEF Scaled
  <2>2. d <= ScoreLimit
    BY <1>3, <2>1 DEF Scaled
  <2>3. CASE 2 * h.inc > ScoreLimit
    BY <1>1, <1>3, <1>4, <2>2, <2>3
  <2>4. CASE \E v \in Vars : 2 * h.stab[v] > ScoreLimit
    <3>1. PICK v \in Vars : 2 * h.stab[v] > ScoreLimit
      BY <2>4
    <3>2. h.stab[v] \in Nat /\ h.stab[v] <= d
      BY <1>3, <2>1
    <3> QED
      BY <1>3, <1>4, <2>2, <3>1, <3>2
  <2> QED
    BY <2>3, <2>4
<1>6. e.inc \in Nat /\ e.inc > 0
  <2>1. h.inc * One \in Nat /\ h.inc * One >= h.inc * 4
    <3>1. One - 4 \in Nat /\ (One - 4) * h.inc >= 0 /\ (One - 4) * h.inc = h.inc * One - h.inc * 4
          /\ h.inc * One \in Int
      BY <1>1, <1>4
    <3> QED
      BY <1>1, <3>1
  <2>2. h.inc * One >= d
    BY <1>1, <1>3, <1>4, <1>5, <2>1
  <2> DEFINE z == h.inc * One
             p == z \div d
  <2>3. p \in Int /\ z = d * p + (z % d) /\ z % d \in 0..d - 1
    BY <1>3, <2>1
  <2> HIDE DEF z
  <2>4. z >= d /\ p = e.inc
    BY <1>3, <2>2 DEF z
  <2> HIDE DEF p
  <2>5. ~(p <= 0)
    <3> SUFFICES ASSUME p <= 0 PROVE FALSE
      OBVIOUS
    <3>1. -p \in Nat /\ d * (-p) >= 0 /\ d * (-p) = -(d * p)
      BY <1>3, <2>3
    <3> QED
      BY <1>3, <2>3, <2>4, <3>1
  <2> QED
    BY <2>3, <2>4, <2>5
<1>7. ASSUME NEW v \in W
      PROVE  IF v \in B THEN e.stab[v] <= 2 * e.inc + 3 ELSE e.stab[v] <= e.inc + 3
  <2>1. v \in Idx /\ h.stab[v] \in Nat /\ 2 * d > 3 * One
    BY <1>1, <1>3, <1>4, <1>5
  <2>2. IF v \in B THEN h.stab[v] <= 2 * h.inc + 3 ELSE h.stab[v] <= h.inc + 3
    BY DEF Growing
  <2>3. e.inc = (h.inc * One) \div d /\ e.stab[v] = (h.stab[v] * One) \div d
    BY <1>3, <2>1
  <2> QED
    BY <1>1, <1>3, <2>1, <2>2, <2>3, RescaleAhead
<1>8. ASSUME NEW v \in Idx \ Vars PROVE e.stab[v] = 0
  <2>1. h.stab[v] = 0 /\ 0 * One = 0 /\ 0 \div d = 0
    BY <1>3, <1>4 DEF Growing
  <2> QED
    BY <1>3, <2>1
<1> QED
  BY <1>6, <1>7, <1>8 DEF Growing, e

\* Bumping a variable of W that was not bumped yet.
LEMMA BumpScoreGrows ==
  ASSUME NEW h, HeapTree(h), Scaled(h), maxVar \in Nat, Vars \subseteq Idx,
         NEW W, W \subseteq Vars, NEW B, Growing(h, W, B), NEW v \in W, v \notin B
  PROVE  Growing(BumpScore(h, v), W, B \cup {v})
<1> DEFINE a == IF h.stab[v] + h.inc > ScoreLimit THEN Rescale(h) ELSE h
           x == a.stab[v] + a.inc
           b == [a EXCEPT !.stab[v] = x]
           e == IF OnHeap(b, v) THEN HeapUpdate(b, v) ELSE b
<1>1. h \in Heaps /\ v \in Idx /\ v \in Vars /\ h.stab[v] \in Nat /\ h.inc \in Nat /\ ScoreLimit \in Nat
  BY HeapTypes, DecideAssumption DEF HeapTree
<1>2. HeapTree(a) /\ Growing(a, W, B)
  <2>1. CASE h.stab[v] + h.inc > ScoreLimit
    <3>1. h.stab[v] <= h.inc + 3 /\ h.inc > 0
      BY DEF Growing
    <3>2. 2 * h.inc + 3 > ScoreLimit
      BY <1>1, <2>1, <3>1
    <3>3. 2 * h.inc > ScoreLimit \/ 2 * h.stab[v] > ScoreLimit
      BY <1>1, <2>1
    <3>4. HeapTree(Rescale(h))
      BY <3>1, RescaleFacts
    <3>5. Growing(Rescale(h), W, B)
      BY <1>1, <3>2, <3>3, RescaleGrows
    <3> QED
      BY <2>1, <3>4, <3>5
  <2>2. CASE ~(h.stab[v] + h.inc > ScoreLimit)
    BY <2>2
  <2> QED
    BY <2>1, <2>2
<1>3. BumpScore(h, v) = e
  BY DEF BumpScore
<1> HIDE DEF a
<1>4. a.stab[v] \in Nat /\ a.inc \in Nat /\ x \in Nat /\ a.stab[v] <= x
  BY <1>1, <1>2, HeapTypes DEF HeapTree
<1> HIDE DEF x
<1>5. e.inc = a.inc /\ e.stab[v] = x /\ \A w \in Idx \ {v} : e.stab[w] = a.stab[w]
  BY <1>1, <1>2, <1>4, GrowFacts
<1> HIDE DEF e, b
<1>6. x <= 2 * a.inc + 3
  <2>1. a.stab[v] <= a.inc + 3
    BY <1>2 DEF Growing
  <2> QED
    BY <1>4, <2>1 DEF x
<1>7. \A w \in W : w # v => e.stab[w] = a.stab[w]
  BY <1>5
<1>8. \A w \in Idx \ Vars : e.stab[w] = a.stab[w]
  BY <1>1, <1>5
<1>9. Growing(e, W, B \cup {v})
  BY <1>2, <1>5, <1>6, <1>7, <1>8 DEF Growing
<1> QED
  BY <1>3, <1>9

\* Bumping the variables of a conflict, no one twice.
LEMMA BumpScoresGrow ==
  ASSUME NEW h, HeapTree(h), Scaled(h), maxVar \in Nat, Vars \subseteq Idx,
         NEW W, W \subseteq Vars, Growing(h, W, {}), NEW order \in Seq(W), Once(order)
  PROVE  LET e == Fold(BumpScore, h, order)
         IN  HeapTree(e) /\ Scaled(e) /\ Growing(e, W, {order[k] : k \in 1..Len(order)})
<1> DEFINE n == Len(order)
           F(i) == {order[k] : k \in 1..i}
           Same(e, i) == HeapTree(e) /\ Scaled(e) /\ Growing(e, W, F(i))
           D == [i \in 0..n |-> {x \in Heaps : Same(x, i)}]
<1>1. /\ n \in Nat /\ \A i \in 1..n : order[i] \in W
      /\ \A j, k \in 1..n : order[j] = order[k] => j = k
  BY DEF Once
<1> HIDE DEF n
<1>2. h \in D[0]
  <2>1. 0 \in 0..n /\ h \in Heaps /\ F(0) = {}
    BY <1>1 DEF HeapTree
  <2> HIDE DEF F
  <2>2. Same(h, 0)
    BY <2>1
  <2> HIDE DEF Same
  <2> QED
    BY <2>1, <2>2
<1>3. ASSUME NEW i \in 1..n, NEW x \in D[i - 1] PROVE BumpScore(x, order[i]) \in D[i]
  <2>1. i - 1 \in 0..n /\ i \in 0..n
    BY <1>1
  <2>2. Same(x, i - 1)
    <3> HIDE DEF Same
    <3> QED
      BY <2>1
  <2>3. F(i) = F(i - 1) \cup {order[i]}
    <3>1. 1..i = (1..i - 1) \cup {i}
      OBVIOUS
    <3> QED
      BY <3>1
  <2>4. order[i] \in W /\ order[i] \in Vars /\ order[i] \notin F(i - 1)
    <3>1. \A k \in 1..i - 1 : k \in 1..n /\ k # i
      BY <1>1
    <3> QED
      BY <1>1, <3>1
  <2> HIDE DEF F
  <2> DEFINE e == BumpScore(x, order[i])
  <2>5. HeapTree(e) /\ Scaled(e)
    BY <2>2, <2>4, BumpScoreFacts
  <2>6. Growing(e, W, F(i - 1) \cup {order[i]})
    BY <2>2, <2>4, BumpScoreGrows
  <2> HIDE DEF e
  <2>7. e \in Heaps /\ Same(e, i)
    BY <2>3, <2>5, <2>6 DEF HeapTree
  <2> HIDE DEF Same
  <2> QED
    BY <2>1, <2>7 DEF e
<1>4. Fold(BumpScore, h, order) \in D[n]
  <2> HIDE DEF D
  <2> QED
    BY <1>1, <1>2, <1>3, BumpScoreStages DEF n
<1>5. n \in 0..n
  BY <1>1
<1>6. Same(Fold(BumpScore, h, order), n)
  <2> HIDE DEF Same
  <2> QED
    BY <1>4, <1>5
<1> QED
  BY <1>6 DEF n

\* Bumping the increment lets all scores fall behind it again.
LEMMA BumpScoreIncGrows ==
  ASSUME NEW h, HeapTree(h), Scaled(h), maxVar \in Nat, Vars \subseteq Idx,
         NEW W, W \subseteq Vars, NEW B, Growing(h, W, B)
  PROVE  Growing(BumpScoreInc(h), W, {})
<1> DEFINE a == IF 2 * h.inc > ScoreLimit THEN Rescale(h) ELSE h
           e == [a EXCEPT !.inc = 2 * a.inc]
<1>1. h \in Heaps /\ h.inc \in Nat /\ ScoreLimit \in Nat /\ h.inc > 0
  BY HeapTypes, DecideAssumption DEF HeapTree, Growing
<1>2. HeapTree(a) /\ Growing(a, W, B)
  <2>1. CASE 2 * h.inc > ScoreLimit
    <3>1. 2 * h.inc + 3 > ScoreLimit
      BY <1>1, <2>1
    <3>2. HeapTree(Rescale(h))
      BY <1>1, RescaleFacts
    <3>3. Growing(Rescale(h), W, B)
      BY <2>1, <3>1, RescaleGrows
    <3> QED
      BY <2>1, <3>2, <3>3
  <2>2. CASE ~(2 * h.inc > ScoreLimit)
    BY <2>2
  <2> QED
    BY <2>1, <2>2
<1> HIDE DEF a
<1>3. a \in Heaps /\ a.inc \in Nat /\ 2 * a.inc \in Nat /\ \A v \in Idx : a.stab[v] \in Nat
  BY <1>2, HeapTypes DEF HeapTree
<1>4. e.stab = a.stab /\ e.inc = 2 * a.inc /\ BumpScoreInc(h) = e
  BY <1>3 DEF Heaps, BumpScoreInc, a
<1> HIDE DEF e
<1>5. a.inc > 0 /\ \A v \in W : a.stab[v] \in Nat /\ a.stab[v] <= 2 * a.inc + 3
  <2> SUFFICES ASSUME NEW v \in W PROVE a.inc > 0 /\ a.stab[v] \in Nat /\ a.stab[v] <= 2 * a.inc + 3
    BY <1>2 DEF Growing
  <2>1. a.stab[v] \in Nat /\ a.inc > 0
        /\ IF v \in B THEN a.stab[v] <= 2 * a.inc + 3 ELSE a.stab[v] <= a.inc + 3
    BY <1>2, <1>3 DEF Growing
  <2> QED
    BY <1>3, <2>1
<1>6. \A v \in Idx \ Vars : e.stab[v] = 0
  BY <1>2, <1>4 DEF Growing
<1>7. e.inc > 0
  BY <1>3, <1>4, <1>5
<1>8. Growing(e, W, {})
  BY <1>4, <1>5, <1>6, <1>7 DEF Growing
<1> QED
  BY <1>4, <1>8

\* What is not assigned at the root has a score that keeps up with the
\* increment.
Unrooted == {v \in Vars : ~Rooted(t, v)}
Grows == Growing(s, Unrooted, {})

\* Steps that leave scores alone and root nothing out.
LEMMA GrowsStays ==
  ASSUME Grows, s'.stab = s.stab, s'.inc = s.inc, maxVar' = maxVar, maxVar \in Nat,
         \A k \in Int : Rooted(t, k) => Rooted(t', k)
  PROVE  Grows'
<1>1. Vars' = Vars /\ Unrooted' \subseteq Unrooted /\ {}' = {}
  BY DEF Vars, Unrooted
<1> QED
  BY <1>1 DEF Grows, Growing

\* A new top of the trail roots nothing out.
LEMMA TopRoots ==
  ASSUME NEW tr, NEW u, NEW l, NEW n, Topped(tr, u, l, n), NEW k \in Int, Rooted(tr, k)
  PROVE  Rooted(u, k)
BY DEF Topped, Rooted, Assigned

\* Propagation.
LEMMA PropagationGrows ==
  ASSUME Decides, Grows, \/ \E l \in LitsOf(maxVar) : AddUnit(l) \/ Propagate(l)
                         \/ PropagateDone
  PROVE  Grows'
<1>1. maxVar \in Nat /\ Stack(t, maxVar) /\ Level(t) \in Nat
  BY ConstantFacts, TrailTypes DEF Decides, Stack
<1>2. s' = s /\ maxVar' = maxVar
  BY DEF AddUnit, Propagate, PropagateDone
<1>3. CASE \E l \in LitsOf(maxVar) : AddUnit(l) \/ Propagate(l)
  <2>1. PICK l \in LitsOf(maxVar) : AddUnit(l) \/ Propagate(l)
    BY <1>3
  <2>2. l \in Int /\ VarOf(l) \in 1..maxVar
    BY <1>1, LitFacts
  <2>3. ~Assigned(t, l)
    <3>1. CASE AddUnit(l)
      <4>1. Positions(t) = {}
        BY <1>1, <3>1 DEF AddUnit, Positions
      <4> QED
        BY <1>1, <2>2, <4>1, StackFacts
    <3> QED
      BY <2>1, <3>1 DEF Propagate
  <2>4. PICK lev \in 0..Level(t) : t' = SaveAssign(t, l, lev)
    BY <1>1, <2>1 DEF AddUnit, Propagate
  <2>5. Topped(t, t', l, maxVar)
    BY <1>1, <2>2, <2>3, <2>4, StackOnTop DEF Topped
  <2>6. \A k \in Int : Rooted(t, k) => Rooted(t', k)
    BY <2>5, TopRoots
  <2> QED
    BY <1>1, <1>2, <2>6, GrowsStays
<1>4. CASE PropagateDone
  <2>1. Len(t.trail) \in Nat /\ t' = [t EXCEPT !.propagated = Len(t.trail)]
    BY <1>1, <1>4, StackLength DEF PropagateDone
  <2>2. \A l : Val(t', l) = Val(t, l) /\ LevelOf(t', l) = LevelOf(t, l)
    BY <1>1, <2>1, PropagatedStack
  <2>3. \A k \in Int : Rooted(t, k) => Rooted(t', k)
    BY <2>2 DEF Rooted, Assigned
  <2> QED
    BY <1>1, <1>2, <2>3, GrowsStays
<1> QED
  BY <1>3, <1>4

\* A decision and what leaves the trail alone.
LEMMA DecisionGrows ==
  ASSUME Decides, Grows, \/ TakeDecision \/ Stabilize
                         \/ \E l : Phase(l)
                         \/ \E v : Eliminate(v)
  PROVE  Grows'
<1>1. maxVar \in Nat /\ Stack(t, maxVar)
  BY ConstantFacts DEF Decides
<1>2. CASE TakeDecision
  <2> DEFINE v == NextVariable(q', s')
             l == DecidePhase(v) * v
  <2>1. /\ v \in Free(t, maxVar) /\ l \in Int /\ VarOf(l) = v /\ t' = AssumeDecision(t, l)
        /\ s'.stab = s.stab /\ s'.inc = s.inc
    BY <1>2, TakeDecisionFacts
  <2>2. maxVar' = maxVar
    BY <1>2 DEF TakeDecision
  <2> HIDE DEF l, v
  <2>3. VarOf(l) \in 1..maxVar /\ ~Assigned(t, l)
    <3>1. v \in 1..maxVar /\ ~Assigned(t, v)
      BY <2>1 DEF Free
    <3> QED
      BY <1>1, <2>1, <3>1, StackFacts
  <2>4. Topped(t, t', l, maxVar)
    BY <1>1, <2>1, <2>3, StackDecide DEF Topped
  <2>5. \A k \in Int : Rooted(t, k) => Rooted(t', k)
    BY <2>4, TopRoots
  <2> QED
    BY <1>1, <2>1, <2>2, <2>5, GrowsStays
<1>3. CASE Stabilize \/ (\E l : Phase(l)) \/ (\E v : Eliminate(v))
  <2>1. t' = t /\ s' = s /\ maxVar' = maxVar
    BY <1>3 DEF Stabilize, Phase, Eliminate
  <2> QED
    BY <1>1, <2>1, GrowsStays
<1> QED
  BY <1>2, <1>3

\* A new variable has no score.
LEMMA NewVarGrows ==
  ASSUME Decides, Grows, NEW x \in Idx, NewVar(x)
  PROVE  Grows'
<1>1. maxVar \in Nat /\ maxVar' = maxVar + 1 /\ maxVar + 1 \in Idx /\ t' = t
  <2>1. MaxVar \in Nat /\ maxVar \in Nat /\ maxVar < MaxVar
    BY ConstantFacts DEF Decides, NewVar
  <2> QED
    BY <2>1 DEF NewVar, Idx
<1>2. s'.stab = s.stab /\ s'.inc = s.inc
  BY NewVarDecides
<1>3. Vars' = Vars \cup {maxVar + 1} /\ maxVar + 1 \notin Vars
  BY <1>1 DEF Vars
<1>4. \A v \in Unrooted' : v \in Unrooted \/ v = maxVar + 1
  BY <1>1, <1>3 DEF Unrooted
<1>5. s.inc \in Nat /\ s.stab[maxVar + 1] = 0
  <2>1. HeapTree(s)
    BY DEF Decides, Found, HeapOK
  <2> QED
    BY <1>1, <1>3, <2>1, HeapTypes DEF Grows, Growing, HeapTree
<1>6. \A v \in Unrooted' : s.stab[v] <= s.inc + 3
  BY <1>4, <1>5 DEF Grows, Growing
<1>7. \A v \in Idx \ Vars' : s.stab[v] = 0
  BY <1>3 DEF Grows, Growing
<1>8. s.inc > 0
  BY DEF Grows, Growing
<1> QED
  BY <1>2, <1>6, <1>7, <1>8 DEF Grows, Growing

\* A conflict bumps what is assigned above the root.
LEMMA ConflictGrows ==
  ASSUME Decides, Grows, Conflict
  PROVE  Grows'
<1>1. PICK E : Found(q, s, t, maxVar, E)
  BY DEF Decides
<1>2. PICK order \in Seq(E \ Free(t, maxVar)) : \E new, v : Conflicts(order, new, v)
  BY <1>1, ConflictSteps
<1>3. PICK new, v : Conflicts(order, new, v)
  BY <1>2
<1> DEFINE d == IF UseScores THEN q ELSE Fold(BumpQueue, q, order)
           f == Fold(BumpScore, s, order)
           h == IF UseScores THEN BumpScoreInc(f) ELSE s
           down == Backtrack(t, new)
           u == Undo(d, h, down)
           flip == -(Val(t, v) * v)
<1>4. /\ new \in 0..Level(t) - 1 /\ v \in Idx /\ Assigned(t, v) /\ LevelOf(t, v) = Level(t)
      /\ Once(order) /\ \A i \in 1..Len(order) : ~Rooted(t, order[i])
      /\ s' = u.s /\ t' = SaveAssign(down, flip, new)
  BY <1>3 DEF Conflicts
<1>5. Queued(d, h, t, maxVar, E)
  BY <1>1, AnalysisFound
<1>6. /\ maxVar \in Nat /\ Vars \subseteq Idx /\ Vars = 1..maxVar /\ E \subseteq Vars
      /\ Stack(t, maxVar) /\ Level(t) > 0 /\ Level(t) \in Nat /\ new \in 0..Level(t)
      /\ maxVar' = maxVar
  <2>1. /\ maxVar \in Nat /\ Vars \subseteq Idx /\ Vars = 1..maxVar /\ Stack(t, maxVar)
        /\ Level(t) \in Nat
    BY ConstantFacts, TrailTypes DEF Decides, Stack
  <2>2. E \subseteq 1..maxVar
    BY <1>1 DEF Found
  <2> QED
    BY <1>4, <2>1, <2>2 DEF Conflict
<1>7. Growing(h, Unrooted, {})
  <2>1. HeapTree(s) /\ Scaled(s) /\ Growing(s, Unrooted, {}) /\ Unrooted \subseteq Vars
    BY DEF Decides, Found, HeapOK, Grows, Unrooted
  <2>2. order \in Seq(Unrooted)
    <3>1. \A i \in 1..Len(order) : order[i] \in E
      OBVIOUS
    <3>2. \A i \in 1..Len(order) : order[i] \in Unrooted
      BY <1>4, <1>6, <3>1 DEF Unrooted
    <3> QED
      BY <3>2
  <2> DEFINE B == {order[k] : k \in 1..Len(order)}
  <2>3. HeapTree(f) /\ Scaled(f) /\ Growing(f, Unrooted, B)
    BY <1>4, <1>6, <2>1, <2>2, BumpScoresGrow
  <2> HIDE DEF f, B
  <2>4. Growing(BumpScoreInc(f), Unrooted, {})
    BY <1>6, <2>1, <2>3, BumpScoreIncGrows
  <2> QED
    BY <2>1, <2>4
<1> HIDE DEF d, h, f
<1>8. /\ WentBack(t, u, down, new, E) /\ u.s.stab = h.stab /\ u.s.inc = h.inc
  BY ONLY <1>5, <1>6, UndoFound
<1> HIDE DEF u
<1>9. Stack(down, maxVar) /\ Level(down) = new /\ \A k \in Int : Rooted(t, k) => Rooted(down, k)
  BY <1>8 DEF WentBack
<1>10. flip \in Int /\ VarOf(flip) \in 1..maxVar /\ ~Assigned(down, flip)
  <2>1. v \in Nat /\ v \in Int /\ VarOf(v) = v
    BY <1>4, ConstantFacts DEF Decides
  <2>2. v \in 1..maxVar
    BY <1>4, <1>6, <2>1, StackFacts
  <2>3. flip = v \/ flip = -v
    <3>1. Val(t, v) \in {1, -1}
      BY <1>4 DEF Assigned, Val
    <3> QED
      BY <2>1, <3>1
  <2>4. flip \in Int /\ VarOf(flip) = v
    BY <2>1, <2>3, VarFacts
  <2> HIDE DEF flip
  <2>5. ~Assigned(down, v)
    <3>1. \A k \in Int : Assigned(down, k) => LevelOf(down, k) \in 0..new /\ LevelOf(down, k) = LevelOf(t, k)
      BY <1>6, <1>9, StackFacts, StackBacktrack DEF down
    <3> QED
      BY <1>4, <1>6, <2>1, <3>1
  <2>6. ~Assigned(down, flip)
    BY <1>6, <1>9, <2>4, <2>5, StackFacts
  <2> QED
    BY <2>2, <2>4, <2>6
<1> HIDE DEF flip, down
<1>11. Topped(down, t', flip, maxVar)
  <2>1. new \in 0..Level(down)
    BY <1>6, <1>9
  <2>2. Topped(down, SaveAssign(down, flip, new), flip, maxVar)
    BY <1>6, <1>9, <1>10, <2>1, StackOnTop DEF Topped
  <2> QED
    BY <1>4, <2>2
<1>12. \A k \in Int : Rooted(t, k) => Rooted(t', k)
  BY <1>9, <1>11, TopRoots
<1>13. Vars' = Vars /\ Unrooted' \subseteq Unrooted
  BY <1>6, <1>12 DEF Vars, Unrooted
<1>14. s'.stab = h.stab /\ s'.inc = h.inc
  BY <1>4, <1>8
<1> QED
  BY <1>7, <1>13, <1>14 DEF Grows, Growing

\* A restart.
LEMMA RestartGrows ==
  ASSUME Decides, Grows, Restart
  PROVE  Grows'
<1> DEFINE d == IF opts.restartreusetrail /\ ~UseScores THEN SearchQueue(q, t) ELSE q
           h == IF opts.restartreusetrail /\ UseScores THEN PopAssigned(s, t) ELSE s
           new == ReuseTrail(NextVariable(d, h))
           down == Backtrack(t, new)
           u == Undo(d, h, down)
<1>1. t' = down /\ s' = u.s /\ maxVar' = maxVar
  BY DEF Restart
<1>2. PICK E : Found(q, s, t, maxVar, E)
  BY DEF Decides
<1>3. maxVar \in Nat /\ Level(t) \in Nat /\ Vars = 1..maxVar
  BY ConstantFacts, TrailTypes DEF Decides, Stack
<1>4. Free(t, maxVar) # {}
  BY <1>3 DEF Restart, CanDecide, Free
<1>5. Found(d, h, t, maxVar, E) /\ Scaled(h) /\ h.stab = s.stab /\ h.inc = s.inc
  <2>1. Found(SearchQueue(q, t), s, t, maxVar, E)
    BY <1>2, <1>3, <1>4, FoundSearch
  <2> DEFINE e == PopAssigned(s, t)
  <2>2. Found(q, e, t, maxVar, E) /\ (Scaled(s) => Scaled(e)) /\ e.stab = s.stab /\ e.inc = s.inc
    BY <1>2, <1>3, <1>4, FoundPops
  <2> HIDE DEF e
  <2>3. h = IF opts.restartreusetrail /\ UseScores THEN e ELSE s
    BY DEF e
  <2> QED
    BY <1>2, <2>1, <2>2, <2>3 DEF Decides
<1>6. new \in 0..Level(t)
  BY <1>3, ReuseTrailFacts
<1> HIDE DEF d, h, new
<1>7. /\ \A k \in Int : Rooted(t, k) => Rooted(down, k)
      /\ u.s.stab = h.stab /\ u.s.inc = h.inc
  BY <1>5, <1>6, BackKeeps
<1> HIDE DEF down, u
<1> QED
  BY <1>1, <1>3, <1>5, <1>7, GrowsStays

\* Rephasing: the shuffled scores stay below the increment.
LEMMA RephaseGrows ==
  ASSUME Decides, Grows, Rephase
  PROVE  Grows'
<1> DEFINE down == Backtrack(t, 0)
           u == Undo(q, s, down)
           U == Free(down, maxVar)
<1>1. t' = down /\ maxVar' = maxVar
  BY DEF Rephase
<1>2. \/ \E order \in (IF opts.shufflerandom THEN SetToSeqs(Vars) ELSE {ByScore(u.s)}) :
           s' = ShuffleScores(u.s, order)
      \/ s' = u.s
  BY DEF Rephase
<1>3. maxVar \in Nat /\ Stack(t, maxVar) /\ 0 \in 0..Level(t) /\ Vars = 1..maxVar /\ Vars \subseteq Idx
  BY ConstantFacts, TrailTypes DEF Decides, Stack
<1>4. PICK E : Found(q, s, t, maxVar, E)
  BY DEF Decides
<1>5. /\ Stack(down, maxVar) /\ Found(u.q, u.s, down, maxVar, E)
      /\ \A k \in Int : Rooted(t, k) => Rooted(down, k)
      /\ u.s.stab = s.stab /\ u.s.inc = s.inc
  <2>1. Scaled(s)
    BY DEF Decides
  <2> QED
    BY <1>3, <1>4, <2>1, BackKeeps
<1>6. Level(down) = 0
  BY <1>3, StackBacktrack
<1>7. U # {}
  <2>1. PICK v \in Vars : ~Assigned(t, v)
    BY DEF Rephase, CanDecide
  <2>2. v \in Int /\ ~Assigned(down, v)
    BY <1>3, <2>1, StackBacktrack
  <2> QED
    BY <1>3, <2>1, <2>2 DEF Free
<1> HIDE DEF u, down
<1>8. \A v \in Vars : ~Rooted(down, v) => v \in U
  <2> SUFFICES ASSUME NEW v \in Vars, Assigned(down, v)
               PROVE  Rooted(down, v)
    BY <1>3 DEF Free
  <2>1. v \in Int
    BY <1>3
  <2>2. LevelOf(down, v) \in 0..0
    BY <1>3, <1>5, <1>6, <2>1, StackFacts
  <2> QED
    BY <2>2 DEF Rooted
<1>9. CASE s' = u.s
  BY <1>1, <1>3, <1>5, <1>9, GrowsStays
<1>10. ASSUME NEW order \in (IF opts.shufflerandom THEN SetToSeqs(Vars) ELSE {ByScore(u.s)}),
              s' = ShuffleScores(u.s, order)
       PROVE  Grows'
  <2>1. /\ Found(u.q, s', down, maxVar, E)
        /\ s'.inc > 0 /\ \A w \in U : s'.stab[w] <= s'.inc
        /\ \A w \in Idx \ Vars : s'.stab[w] = s.stab[w]
    BY <1>3, <1>5, <1>7, <1>10, ShuffledScores
  <2>2. s' \in Heaps
    BY <2>1 DEF Found, HeapOK, HeapTree
  <2>3. s'.inc \in Nat /\ \A w \in Idx : s'.stab[w] \in Nat
    BY <2>2, HeapTypes
  <2>4. Vars' = Vars /\ \A v \in Unrooted' : v \in U
    BY <1>1, <1>8 DEF Vars, Unrooted
  <2>5. \A w \in U : w \in Idx
    BY <1>3 DEF Free
  <2>6. \A v \in Unrooted' : s'.stab[v] <= s'.inc + 3
    BY <2>1, <2>3, <2>4, <2>5
  <2>7. \A w \in Idx \ Vars' : s'.stab[w] = 0
    BY <2>1, <2>4 DEF Grows, Growing
  <2> QED
    BY <2>1, <2>6, <2>7 DEF Grows, Growing
<1> QED
  BY <1>2, <1>9, <1>10

\* Compaction: what stays and is not fixed was not assigned.
LEMMA CompactGrows ==
  ASSUME Decides, Grows, Compact
  PROVE  Grows'
<1>1. maxVar \in Nat /\ MaxVar \in Nat /\ Vars = 1..maxVar /\ Stack(t, maxVar)
  BY ConstantFacts DEF Decides
<1>2. PICK m, c : Compacts(m, c)
  BY <1>1, CompactSteps
<1>3. /\ c \in 0..MaxVar /\ c \in Nat /\ Renames(m, Staying, c) /\ maxVar' = c /\ t' = CompactTrail(m)
  BY <1>1, <1>2, ConstantFacts DEF Decides, Compacts
<1>4. s'.stab = MapVector(m, s.stab, 0) /\ s'.inc = s.inc
  BY <1>2, CompactFound
<1>5. /\ \A v \in Staying : MapVector(m, s.stab, 0)[m[v]] = s.stab[v]
      /\ \A x \in Idx \ (1..c) : MapVector(m, s.stab, 0)[x] = 0
  BY <1>1, <1>3, MapVectorFacts
<1>6. ASSUME NEW x \in Unrooted'
      PROVE  s'.stab[x] <= s.inc + 3
  <2>1. x \in 1..c /\ ~Rooted(t', x)
    BY <1>3 DEF Unrooted, Vars
  <2>2. PICK v \in Staying : m[v] = x
    BY <1>3, <2>1 DEF Renames
  <2>3. v # FirstFixed
    <3> SUFFICES ASSUME v = FirstFixed
                 PROVE  FALSE
      OBVIOUS
    <3>1. FirstFixed # 0
      BY <1>1, <1>3, <2>2 DEF Renames
    <3> QED
      BY <1>1, <1>3, <2>1, <2>2, <3>1, CompactTrailFacts
  <2>4. v \in Vars /\ ~Assigned(t, v)
    BY <1>1, <2>2, <2>3, FirstFixedFacts
  <2>5. v \in Unrooted
    BY <2>4 DEF Unrooted, Rooted
  <2>6. s.stab[v] <= s.inc + 3
    BY <2>5 DEF Grows, Growing
  <2> QED
    BY <1>4, <1>5, <2>2, <2>6
<1>7. \A x \in Idx \ Vars' : s'.stab[x] = 0
  BY <1>3, <1>4, <1>5 DEF Vars
<1>8. s'.inc > 0
  BY <1>4 DEF Grows, Growing
<1> QED
  BY <1>4, <1>6, <1>7, <1>8 DEF Grows, Growing

\* Every step keeps the increment positive.
LEMMA GrowsStep ==
  ASSUME Decides, Grows, [DecideNext]_vars
  PROVE  Grows'
<1>1. CASE UNCHANGED vars
  <2>1. t' = t /\ s' = s /\ maxVar' = maxVar /\ maxVar \in Nat
    BY <1>1, ConstantFacts DEF vars, Decides
  <2> QED
    BY <2>1, GrowsStays
<1>2. CASE \E e \in DOMAIN e2i : NewVar(e)
  BY <1>2, NewVarGrows DEF Decides, Named
<1>3. CASE \E l \in Forcible : Phase(l)
  BY <1>3, DecisionGrows
<1>4. CASE \E l \in Implied \cap LitsOf(maxVar) : AddUnit(l) \/ Propagate(l)
  BY <1>4, PropagationGrows
<1>5. CASE \E v \in Vars \cap Eliminable : Eliminate(v)
  BY <1>5, DecisionGrows
<1>6. CASE PropagateDone
  BY <1>6, PropagationGrows
<1>7. CASE TakeDecision \/ Stabilize
  BY <1>7, DecisionGrows
<1>8. CASE Conflict
  BY <1>8, ConflictGrows
<1>9. CASE Restart
  BY <1>9, RestartGrows
<1>10. CASE Rephase
  BY <1>10, RephaseGrows
<1>11. CASE Compact
  BY <1>11, CompactGrows
<1> QED
  BY <1>1, <1>2, <1>3, <1>4, <1>5, <1>6, <1>7, <1>8, <1>9, <1>10, <1>11 DEF DecideNext

\* Initially no variable has a score.
LEMMA InitGrows ==
  ASSUME DecideInit
  PROVE  Grows
<1>1. s.stab = Zero /\ s.inc = One /\ maxVar = MaxVar /\ One \in Nat /\ One > 3 /\ MaxVar \in Nat
  BY InitDecides, DecideAssumption DEF DecideInit
<1>2. \A v \in Idx : s.stab[v] = 0
  BY <1>1 DEF Zero, Idx
<1>3. Unrooted \subseteq Idx
  BY <1>1 DEF Unrooted, Vars, Idx
<1> QED
  BY <1>1, <1>2, <1>3 DEF Grows, Growing

-----------------------------------------------------------------------------
(* What the invariant says.                                                *)

\* Members of a sequence.
LEMMA InRng ==
  ASSUME NEW x, NEW seq
  PROVE  x \in Rng(seq) <=> In(x, seq)
BY DEF Rng, In

\* The state is within its bounds.
LEMMA DecidesBounds ==
  ASSUME Decides, Grows
  PROVE  DecideTypeOK
<1>1. PICK E : Found(q, s, t, maxVar, E)
  BY DEF Decides
<1>2. maxVar \in Nat /\ Vars = 1..maxVar /\ Vars \subseteq Idx
  BY ConstantFacts DEF Decides
<1>3. QueueOK(q, E, Free(t, maxVar)) /\ E \subseteq 1..maxVar /\ HeapOK(s, 1..maxVar, Free(t, maxVar))
  BY <1>1 DEF Found
<1>4. {q.first, q.last, q.unassigned} \subseteq 0..maxVar
  <2>1. IsFirst(E, q.btab, q.first) /\ IsLast(E, q.btab, q.last)
        /\ IF E = {} THEN q.unassigned = 0 ELSE q.unassigned \in E
    BY <1>3 DEF QueueOK, Linked
  <2>2. \A x : x = 0 \/ x \in E => x \in 0..maxVar
    <3>1. 0 \in 0..maxVar /\ \A x \in 1..maxVar : x \in 0..maxVar
      BY <1>2
    <3> QED
      BY <1>3, <3>1
  <2> QED
    BY <2>1, <2>2 DEF IsFirst, IsLast
<1>5. HeapTree(s) /\ s \in Heaps /\ \A w : In(w, s.heap) => w \in Vars
  BY <1>2, <1>3 DEF HeapOK, HeapTree
<1>6. Rng(s.heap) \subseteq Vars
  BY <1>5, InRng
<1>7. (\A v \in Vars : s.stab[v] \in 0..ScoreLimit) /\ s.inc \in 1..ScoreLimit
  <2>1. s.inc \in Nat /\ s.inc > 0 /\ \A v \in Idx : s.stab[v] \in Nat
    BY <1>5, HeapTypes DEF Grows, Growing
  <2>2. ScoreLimit \in Nat /\ s.inc <= ScoreLimit /\ \A v \in Idx : s.stab[v] <= ScoreLimit
    BY LimitFacts DEF Decides, Scaled
  <2> QED
    BY <1>2, <2>1, <2>2
<1>8. assigned.until <= maxVar /\ assigned.target <= maxVar /\ assigned.best <= maxVar
  BY <1>2 DEF Decides, Sizes
<1>9. \A l \in Rng(e2i) : VarOf(l) \in 0..maxVar
  BY DEF Decides, Named, Rng
<1> QED
  BY <1>2, <1>4, <1>6, <1>7, <1>8, <1>9 DEF Decides, DecideTypeOK

\* The queue is walked from the end.
LEMMA DecidesQueue ==
  ASSUME Decides
  PROVE  QueueWellFormed
<1> DEFINE b == Backwards(q)
           n == Len(b)
<1>1. PICK E : Found(q, s, t, maxVar, E)
  BY DEF Decides
<1>2. maxVar \in Nat /\ Vars = 1..maxVar /\ Vars \subseteq Idx
  BY ConstantFacts DEF Decides
<1>3. QueueOK(q, E, Free(t, maxVar)) /\ E \subseteq Vars /\ Linked(q, E, q.btab)
  BY <1>1, <1>2 DEF Found, QueueOK
<1>4. /\ q.btab \in [Idx -> Int]
      /\ (\A v \in Idx : v # 0 /\ q.btab[v] \in Int) /\ E \subseteq Idx
      /\ \A v, w \in E : q.btab[v] = q.btab[w] => v = w
  BY <1>3, QueueTypes
<1>5. /\ Lists(b, E, q.btab)
      /\ b = <<>> => E = {}
      /\ b # <<>> => /\ b[1] = q.last /\ q.prev[b[Len(b)]] = 0
                     /\ \A k \in 1..Len(b) - 1 : q.prev[b[k]] = b[k + 1]
  BY <1>2, <1>3, BackwardsFacts
<1> HIDE DEF b
<1>6. /\ b \in Seq(E) /\ n \in Nat /\ (\A k \in 1..n : b[k] \in E /\ b[k] # 0)
      /\ (\A w \in E : \E k \in 1..n : b[k] = w)
      /\ \A j, k \in 1..n : j < k => q.btab[b[k]] < q.btab[b[j]]
  BY <1>4, <1>5 DEF Lists
<1>7. \A j, k \in 1..n : q.btab[b[j]] \in Int /\ (j <= k => q.btab[b[k]] <= q.btab[b[j]])
  <2> SUFFICES ASSUME NEW j \in 1..n, NEW k \in 1..n
               PROVE  q.btab[b[j]] \in Int /\ (j <= k => q.btab[b[k]] <= q.btab[b[j]])
    OBVIOUS
  <2>1. q.btab[b[j]] \in Int /\ q.btab[b[k]] \in Int
    BY <1>4, <1>6
  <2>2. CASE j < k
    <3>1. q.btab[b[k]] < q.btab[b[j]]
      BY <1>6, <2>2
    <3> QED
      BY <2>1, <3>1
  <2>3. CASE j = k
    BY <2>1, <2>3
  <2>4. j <= k => j < k \/ j = k
    BY <1>6
  <2> QED
    BY <2>1, <2>2, <2>3, <2>4
<1>8. \A w \in E : q.btab[w] \in Int
  BY <1>4
<1>9. ASSUME b # <<>>
      PROVE  q.first = Last(b) /\ q.next[q.last] = 0 /\ q.prev[q.first] = 0
  <2>1. n > 0 /\ n \in 1..n /\ 1 \in 1..n /\ b[1] = q.last
    BY <1>5, <1>6, <1>9
  <2>2. q.first \in E /\ \A w \in E : q.btab[q.first] <= q.btab[w]
    BY <1>3, <1>6, <2>1 DEF Linked, IsFirst
  <2>3. \A w \in E : q.btab[b[n]] <= q.btab[w]
    <3>1. \A j \in 1..n : j <= n
      BY <1>6
    <3>2. \A j \in 1..n : q.btab[b[n]] <= q.btab[b[j]]
      BY <1>7, <2>1, <3>1
    <3> QED
      BY <1>6, <3>2
  <2>4. q.first = b[n]
    <3>1. b[n] \in E
      BY <1>6, <2>1
    <3>2. q.btab[q.first] <= q.btab[b[n]] /\ q.btab[b[n]] <= q.btab[q.first]
      BY <2>2, <2>3, <3>1
    <3>3. q.btab[q.first] = q.btab[b[n]]
      BY <1>8, <2>2, <3>1, <3>2
    <3> QED
      BY <1>4, <2>2, <3>1, <3>3
  <2>5. Last(b) = b[n]
    BY DEF Last
  <2>6. q.last \in E /\ \A w \in E : q.btab[w] <= q.btab[q.last]
    BY <1>3, <1>6, <2>1 DEF Linked, IsLast
  <2>7. q.next[q.last] = 0
    <3>1. IsNext(E, q.btab, q.last, q.next[q.last])
      BY <1>3, <2>6 DEF Linked
    <3>2. ~\E x \in E : q.btab[q.last] < q.btab[x]
      BY <1>8, <2>6
    <3> QED
      BY <3>1, <3>2 DEF IsNext
  <2> QED
    BY <1>5, <1>9, <2>4, <2>5, <2>7
<1>10. ASSUME NEW k \in 1..n - 1
       PROVE  q.next[b[k + 1]] = b[k] /\ q.btab[b[k + 1]] < q.btab[b[k]]
  <2>1. k \in 1..n /\ k + 1 \in 1..n /\ k < k + 1 /\ b # <<>>
    BY <1>6
  <2> DEFINE v == b[k + 1]
             x == q.next[v]
  <2>2. v \in E /\ b[k] \in E /\ q.btab[v] < q.btab[b[k]]
    BY <1>6, <2>1
  <2>3. IsNext(E, q.btab, v, x)
    BY <1>3, <2>2 DEF Linked
  <2>4. x \in E /\ q.btab[v] < q.btab[x] /\ \A w \in E : q.btab[w] <= q.btab[v] \/ q.btab[x] <= q.btab[w]
    <3>1. ~\A w \in E : q.btab[w] <= q.btab[v]
      BY <1>8, <2>2
    <3> QED
      BY <2>3, <3>1 DEF IsNext
  <2>5. PICK j \in 1..n : b[j] = x
    BY <1>6, <2>4
  <2>6. j <= k
    <3>1. ASSUME j >= k + 1
          PROVE  FALSE
      <4>1. q.btab[b[j]] <= q.btab[b[k + 1]]
        BY <1>7, <2>1, <3>1
      <4> QED
        BY <1>8, <2>2, <2>4, <2>5, <4>1
    <3> QED
      BY <2>1, <3>1
  <2>7. q.btab[b[k]] <= q.btab[x]
    BY <1>7, <2>1, <2>5, <2>6
  <2>8. q.btab[x] <= q.btab[b[k]]
    BY <1>8, <2>2, <2>4
  <2>9. x = b[k]
    <3>1. q.btab[x] = q.btab[b[k]]
      BY <1>8, <2>2, <2>4, <2>7, <2>8
    <3> QED
      BY <1>4, <2>2, <2>4, <3>1
  <2> QED
    BY <2>2, <2>9
<1>11. IsInjective(b)
  <2>1. DOMAIN b = 1..n
    BY <1>6
  <2>2. \A j, k \in 1..n : b[j] = b[k] => j = k
    <3> SUFFICES ASSUME NEW j \in 1..n, NEW k \in 1..n, b[j] = b[k], j # k
                 PROVE  FALSE
      OBVIOUS
    <3>1. j < k \/ k < j
      BY <1>6
    <3>2. q.btab[b[j]] < q.btab[b[k]] \/ q.btab[b[k]] < q.btab[b[j]]
      BY <1>6, <3>1
    <3> QED
      BY <1>7, <3>2
  <2> QED
    BY <2>1, <2>2 DEF IsInjective
<1> QED
  BY <1>9, <1>10, <1>11 DEF QueueWellFormed, b

\* Neither the walk nor the pops run out while a variable is unassigned.
LEMMA DecidesFound ==
  ASSUME Decides
  PROVE  UnassignedFound
<1> DEFINE b == Backwards(q)
           n == Len(b)
<1>1. PICK E : Found(q, s, t, maxVar, E)
  BY DEF Decides
<1>2. maxVar \in Nat /\ Vars = 1..maxVar /\ Vars \subseteq Idx
  BY ConstantFacts DEF Decides
<1>3. /\ QueueOK(q, E, Free(t, maxVar)) /\ E \subseteq Vars /\ Linked(q, E, q.btab)
      /\ HeapOK(s, 1..maxVar, Free(t, maxVar))
  BY <1>1, <1>2 DEF Found, QueueOK
<1>4. q.btab \in [Idx -> Int] /\ q.bumped \in Int /\ E \subseteq Idx /\ Free(t, maxVar) \subseteq E
  BY <1>3, QueueTypes
<1>5. Lists(b, E, q.btab)
  BY <1>2, <1>3, BackwardsFacts
<1> HIDE DEF b
<1>6. /\ DOMAIN b = 1..n /\ n \in Nat /\ (\A w \in E : \E k \in 1..n : b[k] = w)
      /\ \A j, k \in 1..n : j < k => q.btab[b[k]] < q.btab[b[j]]
  BY <1>5 DEF Lists
<1>7. ASSUME NEW v \in Free(t, maxVar)
      PROVE  /\ v \in Rng(s.heap)
             /\ \E k \in DOMAIN b : b[k] = v /\ \E j \in 1..k : b[j] = q.unassigned
  <2>1. v \in Rng(s.heap)
    BY <1>3, InRng DEF HeapOK
  <2>2. v \in E /\ q.unassigned \in E /\ q.btab[v] <= q.bumped
        /\ \A w \in E : q.btab[w] > q.btab[q.unassigned] => q.btab[w] > q.bumped
    BY <1>3, <1>4 DEF QueueOK
  <2>3. PICK k \in 1..n : b[k] = v
    BY <1>6, <2>2
  <2>4. PICK j \in 1..n : b[j] = q.unassigned
    BY <1>6, <2>2
  <2>5. ~(k < j)
    <3>1. SUFFICES ASSUME k < j
                   PROVE  FALSE
      OBVIOUS
    <3>2. q.btab[q.unassigned] < q.btab[v]
      BY <1>6, <2>3, <2>4, <3>1
    <3>3. q.btab[v] \in Int /\ q.btab[q.unassigned] \in Int
      BY <1>4, <2>2
    <3> QED
      BY <1>4, <2>2, <3>2, <3>3
  <2>6. j \in 1..k
    BY <1>6, <2>5
  <2> QED
    BY <1>6, <2>1, <2>3, <2>4, <2>6
<1>8. \A v \in Vars : ~Assigned(t, v) => v \in Free(t, maxVar)
  BY <1>2 DEF Free
<1> QED
  BY <1>7, <1>8 DEF UnassignedFound, b

\* The heap.
LEMMA DecidesHeap ==
  ASSUME Decides
  PROVE  HeapOrdered
<1>1. HeapTree(s)
  BY DEF Decides, Found, HeapOK
<1> QED
  BY <1>1 DEF HeapTree, HeapOrdered, NoMore, Parent, Once, IsInjective

\* The saved phases.
LEMMA DecidesPhases ==
  ASSUME Decides
  PROVE  SavedPhaseSet
<1>1. phases.saved \in [Idx -> {1, -1}] /\ Vars \subseteq Idx
  BY ConstantFacts DEF Decides, Marks
<1>2. \A v \in Idx : phases.saved[v] # 0
  BY <1>1
<1> QED
  BY <1>1, <1>2 DEF SavedPhaseSet

\* Only a decision raises the level.
LEMMA LevelRises ==
  ASSUME Decides, [DecideNext]_vars, Level(t') > Level(t)
  PROVE  TakeDecision
<1>1. maxVar \in Nat /\ Stack(t, maxVar) /\ Level(t) \in Nat
  BY ConstantFacts, TrailTypes DEF Decides, Stack
<1>2. SUFFICES ASSUME ~TakeDecision
               PROVE  Level(t') \in Nat /\ Level(t') <= Level(t)
  BY <1>1
<1>3. CASE t' = t
  BY <1>1, <1>3
<1>4. CASE \E l \in Implied \cap LitsOf(maxVar) : AddUnit(l) \/ Propagate(l)
  <2>1. PICK l, lev : t' = SaveAssign(t, l, lev)
    BY <1>4 DEF AddUnit, Propagate
  <2>2. t'.control = t.control
    BY <1>1, <2>1, TrailFields DEF SaveAssign, Stack
  <2> QED
    BY <1>1, <2>2 DEF Level
<1>5. CASE PropagateDone
  <2>1. t'.control = t.control
    BY <1>1, <1>5, TrailFields DEF PropagateDone, Stack
  <2> QED
    BY <1>1, <2>1 DEF Level
<1>6. CASE Conflict
  <2>1. PICK E : Found(q, s, t, maxVar, E)
    BY DEF Decides
  <2>2. PICK order \in Seq(E \ Free(t, maxVar)) : \E new, v : Conflicts(order, new, v)
    BY <1>6, <2>1, ConflictSteps
  <2>3. PICK new, v : Conflicts(order, new, v)
    BY <2>2
  <2> DEFINE down == Backtrack(t, new)
             l == -(Val(t, v) * v)
  <2>4. new \in 0..Level(t) - 1 /\ t' = SaveAssign(down, l, new)
    BY <2>3 DEF Conflicts
  <2>5. new \in 0..Level(t) /\ new \in Nat /\ new <= Level(t)
    BY <1>1, <2>4
  <2>6. Stack(down, maxVar) /\ Level(down) = new
    BY <1>1, <2>5, StackBacktrack
  <2> HIDE DEF down, l
  <2>7. t'.control = down.control
    BY <2>4, <2>6, TrailFields DEF SaveAssign, Stack
  <2> QED
    BY <2>5, <2>6, <2>7 DEF Level
<1>7. CASE Restart
  <2>1. PICK new : new \in 0..Level(t) /\ t' = Backtrack(t, new)
    BY <1>1, <1>7, ReuseTrailFacts DEF Restart
  <2>2. Level(t') = new
    BY <1>1, <2>1, StackBacktrack
  <2> QED
    BY <1>1, <2>1, <2>2
<1>8. CASE Rephase
  <2>1. 0 \in 0..Level(t) /\ t' = Backtrack(t, 0)
    BY <1>1, <1>8 DEF Rephase
  <2>2. Level(t') = 0
    BY <1>1, <2>1, StackBacktrack
  <2> QED
    BY <1>1, <2>2
<1>9. CASE Compact
  <2>1. PICK m, c : Compacts(m, c)
    BY <1>1, <1>9, CompactSteps
  <2>2. c \in Nat /\ Renames(m, Staying, c) /\ t' = CompactTrail(m)
    BY <1>1, <2>1 DEF Compacts
  <2>3. Level(t') = 0
    BY <1>1, <2>2, CompactTrailFacts
  <2> QED
    BY <1>1, <2>3
<1>10. CASE \/ \E e \in DOMAIN e2i : NewVar(e)
            \/ \E l \in Forcible : Phase(l)
            \/ Stabilize \/ (\E v \in Vars \cap Eliminable : Eliminate(v)) \/ UNCHANGED vars
  <2>1. t' = t
    BY <1>10 DEF NewVar, Phase, Stabilize, Eliminate, vars
  <2> QED
    BY <1>3, <2>1
<1> QED
  BY <1>2, <1>4, <1>5, <1>6, <1>7, <1>8, <1>9, <1>10 DEF DecideNext

\* Only a conflict is counted as one.
LEMMA ConflictCounts ==
  ASSUME [DecideNext]_vars, conflicts \in Nat, conflicts' > conflicts
  PROVE  Conflict
<1> SUFFICES ASSUME ~Conflict
             PROVE  conflicts' = conflicts
  OBVIOUS
<1>1. CASE UNCHANGED vars
  BY <1>1 DEF vars
<1>2. CASE \E e \in DOMAIN e2i : NewVar(e)
  BY <1>2 DEF NewVar
<1>3. CASE \E l \in Forcible : Phase(l)
  BY <1>3 DEF Phase
<1>4. CASE \E l \in Implied \cap LitsOf(maxVar) : AddUnit(l) \/ Propagate(l)
  BY <1>4 DEF AddUnit, Propagate
<1>5. CASE \E v \in Vars \cap Eliminable : Eliminate(v)
  BY <1>5 DEF Eliminate
<1>6. CASE Compact
  BY <1>6 DEF Compact
<1>7. CASE Stabilize
  BY <1>7 DEF Stabilize
<1>8. CASE Restart
  BY <1>8 DEF Restart
<1>9. CASE Rephase
  BY <1>9 DEF Rephase
<1>10. CASE TakeDecision
  BY <1>10 DEF TakeDecision
<1>11. CASE PropagateDone
  BY <1>11 DEF PropagateDone
<1> QED
  BY <1>1, <1>2, <1>3, <1>4, <1>5, <1>6, <1>7, <1>8, <1>9, <1>10, <1>11 DEF DecideNext

\* Only a compaction is counted as one.
LEMMA CompactCounts ==
  ASSUME [DecideNext]_vars, compacts \in Nat, compacts' > compacts
  PROVE  Compact
<1> SUFFICES ASSUME ~Compact
             PROVE  compacts' = compacts
  OBVIOUS
<1>1. CASE UNCHANGED vars
  BY <1>1 DEF vars
<1>2. CASE \E e \in DOMAIN e2i : NewVar(e)
  BY <1>2 DEF NewVar
<1>3. CASE \E l \in Forcible : Phase(l)
  BY <1>3 DEF Phase
<1>4. CASE \E l \in Implied \cap LitsOf(maxVar) : AddUnit(l) \/ Propagate(l)
  BY <1>4 DEF AddUnit, Propagate
<1>5. CASE \E v \in Vars \cap Eliminable : Eliminate(v)
  BY <1>5 DEF Eliminate
<1>6. CASE Conflict
  BY <1>6 DEF Conflict
<1>7. CASE Stabilize
  BY <1>7 DEF Stabilize
<1>8. CASE Restart
  BY <1>8 DEF Restart
<1>9. CASE Rephase
  BY <1>9 DEF Rephase
<1>10. CASE TakeDecision
  BY <1>10 DEF TakeDecision
<1>11. CASE PropagateDone
  BY <1>11 DEF PropagateDone
<1> QED
  BY <1>1, <1>2, <1>3, <1>4, <1>5, <1>6, <1>7, <1>8, <1>9, <1>10, <1>11 DEF DecideNext

\* The decision is the best of the variables that are not assigned.
LEMMA DecisionBest ==
  ASSUME Decides, [DecideNext]_vars, Level(t') > Level(t)
  PROVE  LET d == VarOf(Last(t'.control).decision) IN
         \A v \in Vars : ~Assigned(t, v) =>
           IF UseScores THEN s.stab[v] <= s.stab[d] ELSE q.btab[v] <= q.btab[d]
<1>1. TakeDecision
  BY LevelRises
<1> DEFINE v == NextVariable(q', s')
           l == DecidePhase(v) * v
<1>2. /\ v \in Free(t, maxVar) /\ l \in Int /\ VarOf(l) = v /\ t' = AssumeDecision(t, l)
      /\ \A u \in Free(t, maxVar) : IF UseScores THEN s.stab[u] <= s.stab[v]
                                                 ELSE q.btab[u] <= q.btab[v]
  BY <1>1, TakeDecisionFacts
<1> HIDE DEF l
<1>3. maxVar \in Nat /\ Stack(t, maxVar) /\ Vars = 1..maxVar
  BY ConstantFacts DEF Decides
<1>4. v \in 1..maxVar /\ ~Assigned(t, v) /\ \A u \in Vars : ~Assigned(t, u) => u \in Free(t, maxVar)
  BY <1>2, <1>3 DEF Free
<1> HIDE DEF v
<1>5. ~Assigned(t, l) /\ VarOf(l) \in 1..maxVar
  BY <1>2, <1>3, <1>4, StackFacts
<1>6. t'.control[Len(t'.control)].decision = l
  BY <1>2, <1>3, <1>5, StackDecide
<1>7. VarOf(Last(t'.control).decision) = v
  BY <1>2, <1>6 DEF Last
<1> QED
  BY <1>2, <1>4, <1>7

\* The target phases taken are those of the trail below the conflict.
LEMMA TargetTaken ==
  ASSUME Decides, [DecideNext]_vars, conflicts' > conflicts, phases'.target # phases.target
  PROVE  \A k \in 1..assigned'.until :
           LET e == t.trail[k] IN
           e.level > 0 => phases'.target[VarOf(e.lit)] = Sign(e.lit)
<1>1. conflicts \in Nat
  BY DEF Decides
<1>2. Conflict
  BY <1>1, ConflictCounts
<1>3. PICK E : Found(q, s, t, maxVar, E)
  BY DEF Decides
<1>4. PICK order \in Seq(E \ Free(t, maxVar)) : \E new, v : Conflicts(order, new, v)
  BY <1>2, <1>3, ConflictSteps
<1>5. PICK new, v : Conflicts(order, new, v)
  BY <1>4
<1> DEFINE until == t.control[Level(t)].trail
           p == UpdateTargetAndBest(until)
           flip == -(Val(t, v) * v)
<1>6. phases' = Saved(p.phases, flip) /\ assigned' = p.assigned
  BY <1>5 DEF Conflicts
<1>7. maxVar \in Nat /\ Stack(t, maxVar) /\ Level(t) \in Nat /\ Level(t) > 0
  BY <1>2, ConstantFacts, TrailTypes DEF Decides, Stack, Conflict
<1>8. until \in Nat /\ until <= Len(t.trail) /\ until \in 0..maxVar
  <2>1. Level(t) \in 1..Level(t)
    BY <1>7
  <2>2. until \in Nat /\ until <= Len(t.trail) /\ Len(t.trail) \in 0..maxVar
    BY <1>7, <2>1, StackLength, TrailTypes DEF Stack
  <2> QED
    BY <1>7, <2>2
<1>9. /\ p.phases \in Marks
      /\ p.phases.target # phases.target => p.phases.target = phases.saved
      /\ p.assigned.until = until
  BY <1>7, <1>8, UpdateFacts DEF Decides
<1> HIDE DEF p, flip, until
<1>10. phases'.target = p.phases.target
  BY <1>6, <1>9 DEF Saved, Marks
<1>11. Agrees(t, phases.saved) /\ phases'.target = phases.saved /\ assigned'.until = until
  BY <1>6, <1>9, <1>10 DEF Decides
<1>12. 1..until \subseteq Positions(t)
  BY <1>7, <1>8, StackLength DEF Positions
<1> QED
  BY <1>11, <1>12 DEF Agrees

\* Compaction only renames.
LEMMA CompactionNames ==
  ASSUME Decides, [DecideNext]_vars, compacts' > compacts
  PROVE  /\ \A e \in DOMAIN e2i : e2i[e] # 0 /\ Assigned(t, e2i[e]) =>
              Val(t', e2i'[e]) = Val(t, e2i[e])
         /\ \A e \in DOMAIN e2i : VarOf(e2i[e]) \in Vars \ (inactive \cup FixedVars) =>
              /\ e2i'[e] \in 1..maxVar' /\ ~Assigned(t', e2i'[e])
              /\ phases'.saved[e2i'[e]] = phases.saved[e2i[e]]
              /\ phases'.forced[e2i'[e]] = phases.forced[e2i[e]]
              /\ \A f \in DOMAIN e2i \ {e} : e2i'[f] # e2i'[e]
<1>1. compacts \in Nat
  BY DEF Decides
<1>2. Compact
  BY <1>1, CompactCounts
<1>3. maxVar \in Nat /\ Stack(t, maxVar) /\ MaxVar \in Nat /\ Vars = 1..maxVar
  BY ConstantFacts DEF Decides
<1>4. PICK m, c : Compacts(m, c)
  BY <1>2, <1>3, CompactSteps
<1>5. /\ c \in 0..MaxVar /\ c \in Nat /\ Renames(m, Staying, c) /\ maxVar' = c
      /\ t' = CompactTrail(m)
  BY <1>3, <1>4, ConstantFacts DEF Decides, Compacts
<1>6. e2i \in [Idx -> Int] /\ (\A e \in Idx : VarOf(e2i[e]) \in 0..maxVar) /\ DOMAIN e2i = Idx
      /\ e2i' = [e \in Idx |-> MapLit(m, e2i[e])]
  BY <1>4 DEF Decides, Named, Compacts
<1>7. \A e \in Idx : Maps(m, t', e2i[e], e2i'[e])
  BY <1>3, <1>5, <1>6, MapLitFacts
<1>8. Named(e2i', t', c)
  BY <1>4, CompactNamed
<1>9. ASSUME NEW e \in Idx, e2i[e] # 0, Assigned(t, e2i[e])
      PROVE  Val(t', e2i'[e]) = Val(t, e2i[e])
  BY <1>7, <1>9 DEF Maps
<1>10. ASSUME NEW e \in Idx, VarOf(e2i[e]) \in Vars \ (inactive \cup FixedVars)
       PROVE  /\ e2i'[e] \in 1..c /\ ~Assigned(t', e2i'[e])
              /\ phases'.saved[e2i'[e]] = phases.saved[e2i[e]]
              /\ phases'.forced[e2i'[e]] = phases.forced[e2i[e]]
              /\ \A f \in Idx \ {e} : e2i'[f] # e2i'[e]
  <2> DEFINE l == e2i[e]
             v == VarOf(l)
             x == e2i'[e]
  <2>1. l \in Int /\ v \in Vars /\ v \notin inactive /\ ~Assigned(t, v) /\ l # 0 /\ ~Assigned(t, l)
    <3>1. l \in Int /\ v \in Vars /\ v \notin inactive /\ ~Assigned(t, v)
      BY <1>6, <1>10 DEF FixedVars
    <3>2. l # 0
      BY <1>3, <3>1, VarFacts
    <3> QED
      BY <1>3, <3>1, <3>2, StackFacts
  <2>2. v \in Staying /\ m[v] \in 1..c /\ m[v] # 0
    BY <1>5, <2>1 DEF Staying, Renames
  <2>3. v # FirstFixed /\ x = Sign(l) * m[v]
    BY <1>7, <2>1, <2>2 DEF Maps
  <2>4. l > 0
    <3>1. ~Rooted(t, l)
      BY <2>1 DEF Rooted
    <3> QED
      BY <1>6, <2>1, <3>1 DEF Decides, Named
  <2>5. v = l /\ Sign(l) = 1
    BY <2>1, <2>4 DEF VarOf, Sign
  <2>6. x = m[l] /\ x \in 1..c /\ l \in Staying /\ l # FirstFixed
    <3>1. Sign(l) * m[v] = m[v]
      BY <2>2, <2>5
    <3> QED
      BY <2>2, <2>3, <2>5, <3>1
  <2>7. ~Assigned(t', x)
    <3>1. Assigned(t', x) <=> FirstFixed # 0 /\ x = m[FirstFixed]
      BY <1>3, <1>5, <2>6, CompactTrailFacts
    <3>2. FirstFixed # 0 => FirstFixed \in Staying
      BY <1>3, FirstFixedFacts
    <3> QED
      BY <1>5, <2>6, <3>1, <3>2 DEF Renames
  <2>8. \A f, i : MapVector(m, f, i)[x] = f[l]
    BY <1>3, <1>5, <2>6, MapVectorFacts
  <2>9. phases'.saved[x] = phases.saved[l] /\ phases'.forced[x] = phases.forced[l]
    BY <1>4, <2>8 DEF Compacts
  <2>10. \A f \in Idx \ {e} : e2i'[f] # x
    <3>1. x # 0 /\ ~Rooted(t', x) /\ VarOf(x) = x
      BY <1>5, <2>6, <2>7 DEF Rooted, VarOf
    <3>2. \A f \in Idx \ {e} : VarOf(e2i'[f]) # x
      BY <1>8, <3>1 DEF Named
    <3> QED
      BY <3>1, <3>2
  <2> QED
    BY <2>6, <2>7, <2>9, <2>10
<1> QED
  BY <1>5, <1>6, <1>9, <1>10

-----------------------------------------------------------------------------
(* The theorems.                                                           *)

\* The inductive invariant.
DecideIInv == Decides /\ Grows

\* Every step keeps it.
LEMMA DecideIInvStep ==
  ASSUME DecideIInv, [DecideNext]_vars
  PROVE  DecideIInv'
BY DecidesStep, GrowsStep DEF DecideIInv

\* It implies the invariant the run checks.
LEMMA DecideIInvImplies ==
  ASSUME DecideIInv
  PROVE  DecideInv
BY DecidesBounds, DecidesQueue, DecidesFound, DecidesHeap, DecidesPhases DEF DecideIInv, DecideInv

\* Queue, heap, scores and phases stay usable: whatever is bumped, rescaled,
\* shuffled, backtracked, added or compacted, every variable that is not
\* assigned is found by both decision orders and has a phase.
THEOREM DecisionOrdersHold == DecideSpec => []DecideInv
<1>1. DecideInit => DecideIInv
  BY InitDecides, InitGrows DEF DecideIInv
<1>2. DecideIInv /\ [DecideNext]_vars => DecideIInv'
  BY DecideIInvStep
<1>3. DecideIInv => DecideInv
  BY DecideIInvImplies
<1> QED
  BY <1>1, <1>2, <1>3, PTL DEF DecideSpec

\* decide () takes the unassigned variable bumped last or, with scores, one of
\* the highest score.
THEOREM DecisionsAreBest == DecideSpec => DecisionIsBest
<1>1. DecideInit => DecideIInv
  BY InitDecides, InitGrows DEF DecideIInv
<1>2. DecideIInv /\ [DecideNext]_vars => DecideIInv'
  BY DecideIInvStep
<1> DEFINE A == Level(t') > Level(t) =>
                  LET d == VarOf(Last(t'.control).decision) IN
                  \A v \in Vars : ~Assigned(t, v) =>
                    IF UseScores THEN s.stab[v] <= s.stab[d] ELSE q.btab[v] <= q.btab[d]
<1>3. DecideIInv /\ [DecideNext]_vars => A
  BY DecisionBest DEF DecideIInv
<1>4. DecideIInv /\ [DecideNext]_vars => [A]_vars
  BY <1>3
<1>5. DecideSpec => [][A]_vars
  <2> HIDE DEF A
  <2> QED
    BY <1>1, <1>2, <1>4, PTL DEF DecideSpec
<1> QED
  BY <1>5 DEF DecisionIsBest

\* update_target_and_best () takes for the target phases what the trail had
\* below the conflict.
THEOREM TargetsAreTrails == DecideSpec => TargetIsTrail
<1>1. DecideInit => DecideIInv
  BY InitDecides, InitGrows DEF DecideIInv
<1>2. DecideIInv /\ [DecideNext]_vars => DecideIInv'
  BY DecideIInvStep
<1> DEFINE A == conflicts' > conflicts /\ phases'.target # phases.target =>
                  \A k \in 1..assigned'.until :
                    LET e == t.trail[k] IN
                    e.level > 0 => phases'.target[VarOf(e.lit)] = Sign(e.lit)
<1>3. DecideIInv /\ [DecideNext]_vars => A
  BY TargetTaken DEF DecideIInv
<1>4. DecideIInv /\ [DecideNext]_vars => [A]_vars
  BY <1>3
<1>5. DecideSpec => [][A]_vars
  <2> HIDE DEF A
  <2> QED
    BY <1>1, <1>2, <1>4, PTL DEF DecideSpec
<1> QED
  BY <1>5 DEF TargetIsTrail

\* Mapper and compact () rename: external variables keep their root values and
\* their phases, and active ones stay apart.
THEOREM CompactionsRename == DecideSpec => CompactionRenames
<1>1. DecideInit => DecideIInv
  BY InitDecides, InitGrows DEF DecideIInv
<1>2. DecideIInv /\ [DecideNext]_vars => DecideIInv'
  BY DecideIInvStep
<1> DEFINE A == compacts' > compacts =>
       /\ \A e \in DOMAIN e2i : e2i[e] # 0 /\ Assigned(t, e2i[e]) =>
            Val(t', e2i'[e]) = Val(t, e2i[e])
       /\ \A e \in DOMAIN e2i : VarOf(e2i[e]) \in Vars \ (inactive \cup FixedVars) =>
            /\ e2i'[e] \in 1..maxVar' /\ ~Assigned(t', e2i'[e])
            /\ phases'.saved[e2i'[e]] = phases.saved[e2i[e]]
            /\ phases'.forced[e2i'[e]] = phases.forced[e2i[e]]
            /\ \A f \in DOMAIN e2i \ {e} : e2i'[f] # e2i'[e]
<1>3. DecideIInv /\ [DecideNext]_vars => A
  BY CompactionNames DEF DecideIInv
<1>4. DecideIInv /\ [DecideNext]_vars => [A]_vars
  BY <1>3
<1>5. DecideSpec => [][A]_vars
  <2> HIDE DEF A
  <2> QED
    BY <1>1, <1>2, <1>4, PTL DEF DecideSpec
<1> QED
  BY <1>5 DEF CompactionRenames
=============================================================================
