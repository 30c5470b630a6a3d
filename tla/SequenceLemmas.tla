--------------------------- MODULE SequenceLemmas ---------------------------
(***************************************************************************)
(* Facts about numbers and sequences that the proofs share.  The induction *)
(* principle speaks of a set instead of a predicate, so it can be used     *)
(* with every provable property: the set of the numbers that have it.      *)
(***************************************************************************)
EXTENDS Integers, Sequences, SequencesExt, SequenceTheorems,
        WellFoundedInduction, TLAPS

\* Every set of natural numbers with an element has a least one.
LEMMA NatLeast ==
  ASSUME NEW T, T \subseteq Nat, T # {}
  PROVE  \E n \in T : \A m \in T : n <= m
<1> DEFINE R == OpToRel(<, Nat)
<1>1. IsWellFoundedOn(R, Nat)
  BY NatLessThanWellFounded
<1>2. PICK n \in T : \A m \in T : ~(<<m, n>> \in R)
  <2> HIDE DEF R
  <2> QED
    BY <1>1, WFMin
<1>3. \A m \in T : ~(m < n)
  BY <1>2 DEF OpToRel
<1>4. QED
  BY <1>3

\* Induction: a set with 0 that has the successor of each of its numbers has
\* them all.
LEMMA NatSetInduction ==
  ASSUME NEW S, 0 \in S, \A n \in Nat : n \in S => n + 1 \in S
  PROVE  \A n \in Nat : n \in S
<1> DEFINE T == Nat \ S
<1> SUFFICES ASSUME T # {} PROVE FALSE
  OBVIOUS
<1>1. PICK n \in T : \A m \in T : n <= m
  <2>1. T \subseteq Nat
    OBVIOUS
  <2> HIDE DEF T
  <2> QED
    BY <2>1, NatLeast
<1>2. n - 1 \in Nat /\ n - 1 \in S
  BY <1>1
<1> QED
  BY <1>2

\* f is what repeating the step h from a gives.
Iterates(f, n, a, h) == f[0] = a /\ \A i \in 1..n : f[i] = h[<<f[i - 1], i>>]

\* A step function can be iterated: the recursive function it defines exists.
LEMMA IterationExists ==
  ASSUME NEW D, NEW n \in Nat, NEW a \in D, NEW h,
         \A x \in D, i \in 1..n : h[<<x, i>>] \in D
  PROVE  \E f \in [0..n -> D] : Iterates(f, n, a, h)
<1> DEFINE Good(f, m) ==
      f[0] = a /\ \A i \in 1..m : f[i] = h[<<f[i - 1], i>>]
<1> DEFINE S == {m \in Nat : m <= n => \E f \in [0..m -> D] : Good(f, m)}
<1>1. 0 \in S
  <2>1. [i \in 0..0 |-> a] \in [0..0 -> D] /\ Good([i \in 0..0 |-> a], 0)
    OBVIOUS
  <2> QED
    BY <2>1
<1>2. ASSUME NEW m \in Nat, m \in S PROVE m + 1 \in S
  <2> SUFFICES ASSUME m + 1 <= n
               PROVE  \E f \in [0..(m + 1) -> D] : Good(f, m + 1)
    OBVIOUS
  <2>1. PICK f \in [0..m -> D] : Good(f, m)
    BY <1>2
  <2> DEFINE new == h[<<f[m], m + 1>>]
  <2> DEFINE g == [i \in 0..(m + 1) |-> IF i = m + 1 THEN new ELSE f[i]]
  <2>2. new \in D
    <3>1. f[m] \in D /\ m + 1 \in 1..n
      OBVIOUS
    <3> QED
      BY <3>1
  <2> HIDE DEF new
  <2>3. g \in [0..(m + 1) -> D] /\ g[0] = a /\ g[m + 1] = new
        /\ \A i \in 0..m : g[i] = f[i]
    BY <2>1, <2>2
  <2> HIDE DEF g
  <2>4. \A i \in 1..(m + 1) : g[i] = h[<<g[i - 1], i>>]
    <3> SUFFICES ASSUME NEW i \in 1..(m + 1) PROVE g[i] = h[<<g[i - 1], i>>]
      OBVIOUS
    <3>1. CASE i = m + 1
      <4>1. g[i - 1] = f[m]
        BY <2>3, <3>1
      <4> QED
        BY <2>3, <3>1, <4>1 DEF new
    <3>2. CASE i # m + 1
      <4>1. i \in 1..m /\ i \in 0..m /\ i - 1 \in 0..m
        BY <3>2
      <4> QED
        BY <2>1, <2>3, <4>1
    <3> QED
      BY <3>1, <3>2
  <2> QED
    BY <2>3, <2>4
<1>3. n \in S
  <2> HIDE DEF S
  <2> QED
    BY <1>1, <1>2, NatSetInduction
<1> QED
  BY <1>3 DEF Iterates

\* A function over 1..n is a sequence of length n.
LEMMA FunctionIsSeq ==
  ASSUME NEW S, NEW n \in Nat, NEW f \in [1..n -> S]
  PROVE  f \in Seq(S) /\ Len(f) = n
OBVIOUS

\* A sequence without its last element.
LEMMA FrontFacts ==
  ASSUME NEW S, NEW s \in Seq(S), s # <<>>
  PROVE  /\ SubSeq(s, 1, Len(s) - 1) \in Seq(S)
         /\ Len(SubSeq(s, 1, Len(s) - 1)) = Len(s) - 1
         /\ \A k \in 1..(Len(s) - 1) : SubSeq(s, 1, Len(s) - 1)[k] = s[k]
         /\ Len(s) \in Nat /\ Len(s) >= 1
<1>1. Len(s) \in Nat /\ Len(s) >= 1
  OBVIOUS
<1> DEFINE n == Len(s) - 1
<1>2. n \in Nat /\ \A i \in 1..n : s[i] \in S
  BY <1>1
<1> HIDE DEF n
<1>3. /\ SubSeq(s, 1, n) \in Seq(S)
      /\ Len(SubSeq(s, 1, n)) = IF 1 <= n THEN n - 1 + 1 ELSE 0
      /\ \A i \in 1..(n - 1 + 1) : SubSeq(s, 1, n)[i] = s[1 + i - 1]
  BY <1>2, SubSeqProperties
<1>4. n - 1 + 1 = n /\ (IF 1 <= n THEN n ELSE 0) = n
  BY <1>2
<1>5. \A i \in 1..n : 1 + i - 1 = i
  BY <1>2
<1>6. \A i \in 1..n : SubSeq(s, 1, n)[i] = s[i]
  BY <1>3, <1>4, <1>5
<1> QED
  BY <1>1, <1>3, <1>4, <1>6 DEF n

\* The elements of a concatenation of one and two elements.
LEMMA ConcatOneTwo ==
  ASSUME NEW U, NEW s \in Seq(U), NEW t \in Seq(U), NEW r \in Seq(U),
         Len(s) = 1, Len(t) = 2, Len(r) = 3,
         r[1] = s[1], r[2] = t[1], r[3] = t[2]
  PROVE  s \o t = r
<1>1. /\ s \o t \in Seq(U) /\ Len(s \o t) = Len(s) + Len(t)
      /\ \A i \in 1..(Len(s) + Len(t)) :
           (s \o t)[i] = IF i <= Len(s) THEN s[i] ELSE t[i - Len(s)]
  BY ConcatProperties
<1>2. Len(s) + Len(t) = 3 /\ Len(s \o t) = Len(r)
  BY <1>1
<1>3. (s \o t)[1] = s[1] /\ (s \o t)[2] = t[1] /\ (s \o t)[3] = t[2]
  BY <1>1, <1>2
<1>4. \A i \in 1..Len(s \o t) : i = 1 \/ i = 2 \/ i = 3
  BY <1>1, <1>2
<1>5. \A i \in 1..Len(s \o t) : (s \o t)[i] = r[i]
  BY <1>3, <1>4
<1> QED
  BY <1>1, <1>2, <1>5, SeqEqual

\* A pair with an element put before it.
LEMMA PrependToPair ==
  ASSUME NEW u, NEW a, NEW b
  PROVE  <<u>> \o <<a, b>> = <<u, a, b>>
<1> DEFINE U == {u, a, b}
<1> DEFINE s == <<u>>
<1> DEFINE t == <<a, b>>
<1> DEFINE r == <<u, a, b>>
<1>1. /\ s \in Seq(U) /\ t \in Seq(U) /\ r \in Seq(U)
      /\ Len(s) = 1 /\ Len(t) = 2 /\ Len(r) = 3
      /\ r[1] = s[1] /\ r[2] = t[1] /\ r[3] = t[2]
  OBVIOUS
<1> HIDE DEF U, s, t, r
<1>2. s \o t = r
  BY <1>1, ConcatOneTwo
<1> QED
  BY <1>2 DEF s, t, r

-----------------------------------------------------------------------------
(* Flattening. *)

\* The recursive function behind FlattenSeq exists, so it obeys its equation.
LEMMA FlattenUnfolds ==
  ASSUME NEW ss, Len(ss) \in Nat, Len(ss) # 0
  PROVE  \E F : /\ F = [i \in 1..Len(ss) |->
                          IF i = 1 THEN ss[i] ELSE F[i - 1] \o ss[i]]
                /\ FlattenSeq(ss) = F[Len(ss)]
<1> DEFINE Def(f, n) ==
      f = [i \in 1..n |-> IF i = 1 THEN ss[i] ELSE f[i - 1] \o ss[i]]
<1> DEFINE S == {n \in Nat : \E f : Def(f, n)}
<1>1. 0 \in S
  <2>1. Def([i \in 1..0 |-> 0], 0)
    OBVIOUS
  <2> QED
    BY <2>1
<1>2. ASSUME NEW n \in Nat, n \in S PROVE n + 1 \in S
  <2>1. PICK f : Def(f, n)
    BY <1>2
  <2> DEFINE new == IF n + 1 = 1 THEN ss[n + 1] ELSE f[n] \o ss[n + 1]
  <2> DEFINE g == [i \in 1..(n + 1) |-> IF i = n + 1 THEN new ELSE f[i]]
  <2>2. \A i \in 1..(n + 1) :
          g[i] = IF i = 1 THEN ss[i] ELSE g[i - 1] \o ss[i]
    <3> SUFFICES ASSUME NEW i \in 1..(n + 1)
                 PROVE  g[i] = IF i = 1 THEN ss[i] ELSE g[i - 1] \o ss[i]
      OBVIOUS
    <3> HIDE DEF new
    <3>1. CASE i = n + 1
      <4>1. g[i] = new
        BY <3>1
      <4>2. i # 1 => i - 1 \in 1..(n + 1) /\ i - 1 # n + 1 /\ g[i - 1] = f[n]
        BY <3>1
      <4> QED
        BY <3>1, <4>1, <4>2 DEF new
    <3>2. CASE i # n + 1
      <4>1. i \in 1..n /\ g[i] = f[i]
        BY <3>2
      <4>2. i # 1 => i - 1 \in 1..(n + 1) /\ i - 1 # n + 1
                     /\ g[i - 1] = f[i - 1]
        BY <3>2
      <4>3. f[i] = IF i = 1 THEN ss[i] ELSE f[i - 1] \o ss[i]
        BY <2>1, <4>1
      <4> QED
        BY <4>1, <4>2, <4>3
    <3> QED
      BY <3>1, <3>2
  <2>3. Def(g, n + 1)
    <3>1. g = [i \in 1..(n + 1) |-> g[i]]
      OBVIOUS
    <3> HIDE DEF g
    <3> QED
      BY <2>2, <3>1
  <2> HIDE DEF g, Def
  <2> QED
    BY <2>3
<1>3. Len(ss) \in S
  <2> HIDE DEF S
  <2> QED
    BY <1>1, <1>2, NatSetInduction
<1> DEFINE flatten[i \in 1..Len(ss)] ==
      IF i = 1 THEN ss[i] ELSE flatten[i - 1] \o ss[i]
<1>4. Def(flatten, Len(ss))
  <2>1. flatten = CHOOSE f : Def(f, Len(ss))
    OBVIOUS
  <2>2. \E f : Def(f, Len(ss))
    BY <1>3
  <2> HIDE DEF flatten, Def
  <2> QED
    BY <2>1, <2>2
<1>5. FlattenSeq(ss) = flatten[Len(ss)]
  BY DEF FlattenSeq
<1> HIDE DEF flatten
<1> QED
  BY <1>4, <1>5

\* x is an element of the sequence s.
In(x, s) == \E k \in DOMAIN s : s[k] = x

\* No element of s occurs twice.
Once(s) == \A j, k \in DOMAIN s : s[j] = s[k] => j = k

\* No element of one of the sequences occurs in another, or twice in its own.
Apart(ss) ==
  /\ \A k \in DOMAIN ss : Once(ss[k])
  /\ \A j, k \in DOMAIN ss : \A x : In(x, ss[j]) /\ In(x, ss[k]) => j = k

\* The elements of a concatenation.
LEMMA ConcatFacts ==
  ASSUME NEW U, NEW s \in Seq(U), NEW t \in Seq(U)
  PROVE  /\ s \o t \in Seq(U)
         /\ \A x : In(x, s \o t) <=> In(x, s) \/ In(x, t)
         /\ Once(s) /\ Once(t) /\ (\A x : ~(In(x, s) /\ In(x, t)))
              => Once(s \o t)
<1>1. /\ s \o t \in Seq(U) /\ Len(s \o t) = Len(s) + Len(t)
      /\ DOMAIN (s \o t) = 1..(Len(s) + Len(t))
      /\ DOMAIN s = 1..Len(s) /\ DOMAIN t = 1..Len(t)
      /\ Len(s) \in Nat /\ Len(t) \in Nat
  OBVIOUS
<1>2. /\ \A k \in 1..Len(s) : (s \o t)[k] = s[k]
      /\ \A k \in 1..Len(t) : (s \o t)[Len(s) + k] = t[k]
      /\ \A k \in 1..(Len(s) + Len(t)) :
           k \notin 1..Len(s) =>
             k - Len(s) \in 1..Len(t) /\ (s \o t)[k] = t[k - Len(s)]
  BY <1>1
<1> DEFINE r == s \o t
<1>3. ASSUME NEW x PROVE In(x, r) <=> In(x, s) \/ In(x, t)
  <2>1. ASSUME In(x, r) PROVE In(x, s) \/ In(x, t)
    <3>1. PICK k \in 1..(Len(s) + Len(t)) : r[k] = x
      BY <1>1, <2>1 DEF In
    <3> HIDE DEF r
    <3> QED
      BY <1>1, <1>2, <3>1 DEF In, r
  <2>2. ASSUME In(x, s) PROVE In(x, r)
    <3>1. PICK k \in 1..Len(s) : s[k] = x
      BY <1>1, <2>2 DEF In
    <3>2. k \in DOMAIN r /\ r[k] = x
      BY <1>1, <1>2, <3>1
    <3> QED
      BY <3>2 DEF In
  <2>3. ASSUME In(x, t) PROVE In(x, r)
    <3>1. PICK k \in 1..Len(t) : t[k] = x
      BY <1>1, <2>3 DEF In
    <3>2. Len(s) + k \in DOMAIN r /\ r[Len(s) + k] = x
      BY <1>1, <1>2, <3>1
    <3> QED
      BY <3>2 DEF In
  <2> QED
    BY <2>1, <2>2, <2>3
<1>4. ASSUME Once(s), Once(t), \A x : ~(In(x, s) /\ In(x, t)) PROVE Once(r)
  <2> SUFFICES ASSUME NEW j \in DOMAIN r, NEW k \in DOMAIN r, r[j] = r[k]
               PROVE  j = k
    BY DEF Once
  <2>1. j \in Nat /\ k \in Nat
    BY <1>1
  <2> HIDE DEF r
  <2>2. CASE j \in 1..Len(s) /\ k \in 1..Len(s)
    BY <1>1, <1>2, <1>4, <2>2 DEF Once, r
  <2>3. CASE j \notin 1..Len(s) /\ k \notin 1..Len(s)
    <3>1. /\ j - Len(s) \in 1..Len(t) /\ k - Len(s) \in 1..Len(t)
          /\ t[j - Len(s)] = t[k - Len(s)]
      BY <1>1, <1>2, <2>3 DEF r
    <3>2. j - Len(s) = k - Len(s)
      BY <1>1, <1>4, <3>1 DEF Once
    <3> QED
      BY <1>1, <2>1, <3>2
  <2>4. ASSUME NEW a \in DOMAIN r, NEW b \in DOMAIN r,
               a \in 1..Len(s), b \notin 1..Len(s), r[a] = r[b]
        PROVE  FALSE
    <3>1. s[a] = r[a] /\ b - Len(s) \in 1..Len(t) /\ t[b - Len(s)] = r[a]
      BY <1>1, <1>2, <2>4 DEF r
    <3>2. In(r[a], s) /\ In(r[a], t)
      BY <1>1, <2>4, <3>1 DEF In
    <3> QED
      BY <1>4, <3>2
  <2> QED
    BY <2>2, <2>3, <2>4
<1> QED
  BY <1>1, <1>3, <1>4

\* The elements of a flattened sequence are those of its sequences, and if
\* nothing occurs twice in these nothing does in it.
LEMMA FlattenFacts ==
  ASSUME NEW U, NEW ss \in Seq(Seq(U))
  PROVE  /\ FlattenSeq(ss) \in Seq(U)
         /\ \A x : In(x, FlattenSeq(ss)) <=> \E k \in DOMAIN ss : In(x, ss[k])
         /\ Apart(ss) => Once(FlattenSeq(ss))
<1>0. Len(ss) \in Nat /\ DOMAIN ss = 1..Len(ss)
  OBVIOUS
<1>1. CASE Len(ss) = 0
  <2>1. FlattenSeq(ss) = <<>> /\ ss = <<>>
    BY <1>1 DEF FlattenSeq
  <2> QED
    BY <2>1 DEF In, Once
<1>2. CASE Len(ss) # 0
  <2>1. PICK F : /\ F = [i \in 1..Len(ss) |->
                           IF i = 1 THEN ss[i] ELSE F[i - 1] \o ss[i]]
                 /\ FlattenSeq(ss) = F[Len(ss)]
    BY <1>0, <1>2, FlattenUnfolds
  <2>2. \A i \in 1..Len(ss) :
          F[i] = IF i = 1 THEN ss[i] ELSE F[i - 1] \o ss[i]
    BY <2>1
  <2> DEFINE Good(n) ==
        /\ F[n] \in Seq(U)
        /\ \A x : In(x, F[n]) <=> \E k \in 1..n : In(x, ss[k])
        /\ Apart(ss) => Once(F[n])
  <2> DEFINE S == {n \in Nat : n + 1 <= Len(ss) => Good(n + 1)}
  <2>3. 0 \in S
    <3>1. F[1] = ss[1] /\ 1 \in DOMAIN ss /\ ss[1] \in Seq(U)
      BY <1>0, <1>2, <2>2
    <3> QED
      BY <3>1 DEF Apart
  <2>4. ASSUME NEW n \in Nat, n \in S PROVE n + 1 \in S
    <3> SUFFICES ASSUME (n + 1) + 1 <= Len(ss) PROVE Good((n + 1) + 1)
      OBVIOUS
    <3> DEFINE m == n + 1
    <3>1. m \in Nat /\ m # 0 /\ m \in 1..Len(ss) /\ m + 1 \in 1..Len(ss)
          /\ m + 1 # 1 /\ (m + 1) - 1 = m
      BY <1>0
    <3>2. Good(m)
      BY <1>0, <2>4
    <3> HIDE DEF m
    <3>3. F[m + 1] = F[m] \o ss[m + 1]
      BY <2>2, <3>1
    <3>4. ss[m + 1] \in Seq(U)
      BY <1>0, <3>1
    <3>5. /\ F[m + 1] \in Seq(U)
          /\ \A x : In(x, F[m + 1]) <=> In(x, F[m]) \/ In(x, ss[m + 1])
          /\ /\ Once(F[m]) /\ Once(ss[m + 1])
             /\ \A x : ~(In(x, F[m]) /\ In(x, ss[m + 1]))
             => Once(F[m + 1])
      BY <3>2, <3>3, <3>4, ConcatFacts
    <3>6. 1..(m + 1) = (1..m) \cup {m + 1}
      BY <3>1
    <3>7. \A x : In(x, F[m + 1]) <=> \E k \in 1..(m + 1) : In(x, ss[k])
      BY <3>2, <3>5, <3>6
    <3>8. ASSUME Apart(ss) PROVE Once(F[m + 1])
      <4>1. Once(F[m]) /\ Once(ss[m + 1])
        BY <1>0, <3>1, <3>2, <3>8 DEF Apart
      <4>2. ASSUME NEW x, In(x, F[m]), In(x, ss[m + 1]) PROVE FALSE
        <5>1. PICK k \in 1..m : In(x, ss[k])
          BY <3>2, <4>2
        <5>2. k \in DOMAIN ss /\ m + 1 \in DOMAIN ss /\ k # m + 1
          BY <1>0, <3>1, <5>1
        <5> QED
          BY <3>8, <4>2, <5>1, <5>2 DEF Apart
      <4> QED
        BY <3>5, <4>1, <4>2
    <3> QED
      BY <3>5, <3>7, <3>8 DEF m
  <2>5. Len(ss) - 1 \in S
    <3> HIDE DEF S
    <3>1. Len(ss) - 1 \in Nat
      BY <1>0, <1>2
    <3> QED
      BY <2>3, <2>4, <3>1, NatSetInduction
  <2>6. Good(Len(ss))
    BY <1>0, <2>5
  <2> QED
    BY <1>0, <2>1, <2>6
<1> QED
  BY <1>1, <1>2
=============================================================================
