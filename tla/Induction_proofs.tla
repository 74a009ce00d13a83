-------------------------- MODULE Induction_proofs --------------------------
(***************************************************************************)
(* Induction over the naturals for the provers at hand.  The library       *)
(* states induction for an operator P(_), which they cannot instantiate;   *)
(* here the claim is a set of numbers, and so first-order.  The lemmas     *)
(* about recursive definitions and about sums follow from it.              *)
(***************************************************************************)
EXTENDS Integers, Sequences, SequencesExt, Functions, TLAPS,
        WellFoundedInduction, FiniteSetTheorems

LEMMA LeastNat ==
  ASSUME NEW T \in SUBSET Nat, T # {}
  PROVE  \E x \in T : \A y \in T : x <= y
<1> DEFINE R == {p \in Nat \X Nat : p[1] < p[2]}
<1>1. R = OpToRel(<, Nat)
  BY DEF OpToRel
<1>2. IsWellFoundedOn(R, Nat)
  BY <1>1, NatLessThanWellFounded
<1> HIDE DEF R
<1>3. PICK x \in T : \A y \in T : ~(<<y, x>> \in R)
  BY <1>2, WFMin
<1>4. \A y \in T : ~(y < x)
  BY <1>3 DEF R
<1>5. \A y \in T : x <= y
  BY <1>4
<1> QED
  BY <1>5

LEMMA NatSetInduction ==
  ASSUME NEW P \in SUBSET Nat, 0 \in P, \A n \in P : n + 1 \in P
  PROVE  P = Nat
<1> SUFFICES ASSUME Nat \ P # {} PROVE FALSE
  OBVIOUS
<1>1. PICK x \in Nat \ P : \A y \in Nat \ P : x <= y
  BY LeastNat
<1>2. x # 0
  BY <1>1
<1>3. x - 1 \in Nat /\ x - 1 \in P
  BY <1>1, <1>2
<1> QED
  BY <1>1, <1>3

\* A function f is a run of step from a up to n.
IsRun(f, a, step, S, n) ==
  /\ f \in [0 .. n -> S]
  /\ f[0] = a
  /\ \A i \in 1 .. n : f[i] = step[<<i, f[i - 1]>>]

LEMMA RunExists ==
  ASSUME NEW S, NEW a \in S, NEW step \in [Nat \X S -> S]
  PROVE  \A n \in Nat : \E f : IsRun(f, a, step, S, n)
<1> DEFINE P == {n \in Nat : \E f : IsRun(f, a, step, S, n)}
<1>1. 0 \in P
  <2> DEFINE f == [i \in 0 .. 0 |-> a]
  <2>1. f \in [0 .. 0 -> S] /\ f[0] = a
    OBVIOUS
  <2>2. IsRun(f, a, step, S, 0)
    BY <2>1 DEF IsRun
  <2> QED
    BY <2>2
<1>2. ASSUME NEW n \in P PROVE n + 1 \in P
  <2>1. PICK f : IsRun(f, a, step, S, n)
    BY <1>2
  <2>2. n \in Nat /\ f \in [0 .. n -> S] /\ f[n] \in S
    BY <1>2, <2>1 DEF IsRun
  <2> DEFINE x == step[<<n + 1, f[n]>>]
             g == [i \in 0 .. (n + 1) |-> IF i = n + 1 THEN x ELSE f[i]]
  <2>3. x \in S
    <3>1. <<n + 1, f[n]>> \in Nat \X S
      BY <2>2
    <3> QED
      BY <3>1
  <2> HIDE DEF x
  <2>4. g \in [0 .. (n + 1) -> S]
    <3> SUFFICES ASSUME NEW i \in 0 .. (n + 1)
                 PROVE  (IF i = n + 1 THEN x ELSE f[i]) \in S
      OBVIOUS
    <3>1. i # n + 1 => i \in 0 .. n
      BY <2>2
    <3> QED
      BY <2>2, <2>3, <3>1
  <2>5. g[n + 1] = x /\ \A i \in 0 .. n : g[i] = f[i]
    BY <2>2
  <2> HIDE DEF g
  <2>6. g[0] = a
    BY <2>1, <2>2, <2>5 DEF IsRun
  <2>7. ASSUME NEW i \in 1 .. (n + 1)
        PROVE  g[i] = step[<<i, g[i - 1]>>]
    <3>1. CASE i = n + 1
      <4>1. i - 1 = n /\ n \in 0 .. n
        BY <2>2, <3>1
      <4> QED
        BY <2>5, <3>1, <4>1 DEF x
    <3>2. CASE i # n + 1
      <4>1. i \in 0 .. n /\ i - 1 \in 0 .. n /\ i \in 1 .. n
        BY <2>2, <3>2
      <4> QED
        BY <2>1, <2>5, <4>1 DEF IsRun
    <3> QED
      BY <3>1, <3>2
  <2>8. IsRun(g, a, step, S, n + 1)
    BY <2>4, <2>6, <2>7 DEF IsRun
  <2> QED
    BY <2>2, <2>8
<1> HIDE DEF P
<1>3. P = Nat
  <2>1. P \in SUBSET Nat
    BY DEF P
  <2> QED
    BY <1>1, <1>2, <2>1, NatSetInduction
<1> QED
  BY <1>3 DEF P

\* A claim about the values of a run, for all of them, by induction.
LEMMA RunInduction ==
  ASSUME NEW n \in Nat, NEW f, NEW Good, f[0] \in Good,
         \A i \in 1 .. n : f[i - 1] \in Good => f[i] \in Good
  PROVE  \A i \in 0 .. n : f[i] \in Good
<1> DEFINE P == {m \in Nat : m <= n => f[m] \in Good}
<1>1. 0 \in P
  OBVIOUS
<1>2. ASSUME NEW m \in P PROVE m + 1 \in P
  <2>1. m \in Nat
    OBVIOUS
  <2>2. CASE m + 1 <= n
    <3>1. m + 1 \in 1 .. n /\ (m + 1) - 1 = m /\ m <= n
      BY <2>1, <2>2
    <3>2. f[m] \in Good
      BY <3>1
    <3>3. f[m + 1] \in Good
      BY <3>1, <3>2
    <3> QED
      BY <2>1, <3>3
  <2>3. CASE ~(m + 1 <= n)
    BY <2>1, <2>3
  <2> QED
    BY <2>2, <2>3
<1> HIDE DEF P
<1>3. P = Nat
  <2>1. P \in SUBSET Nat
    BY DEF P
  <2> QED
    BY <1>1, <1>2, <2>1, NatSetInduction
<1> QED
  BY <1>3 DEF P

-----------------------------------------------------------------------------
(* Sequences of sequences.                                                 *)

\* What holds of the first sequence, and of the first i put together if it
\* does of the first i - 1, holds of them all put together.
LEMMA FlattenSeqSteps ==
  ASSUME NEW n \in Nat \ {0}, NEW X, NEW seqs \in [1 .. n -> Seq(X)],
         NEW Good \in [1 .. n -> SUBSET Seq(X)], seqs[1] \in Good[1],
         \A i \in 2 .. n : \A s \in Good[i - 1] : s \o seqs[i] \in Good[i]
  PROVE  FlattenSeq(seqs) \in Good[n]
<1> DEFINE Flat(f) == [i \in 1 .. n |-> IF i = 1 THEN seqs[i]
                                                 ELSE f[i - 1] \o seqs[i]]
           flatten == CHOOSE f : f = Flat(f)
           step == [p \in Nat \X Seq(X) |->
                      IF p[1] + 1 \in 1 .. n THEN p[2] \o seqs[p[1] + 1]
                                             ELSE p[2]]
<1>1. step \in [Nat \X Seq(X) -> Seq(X)]
  <2> SUFFICES ASSUME NEW p \in Nat \X Seq(X)
               PROVE  (IF p[1] + 1 \in 1 .. n THEN p[2] \o seqs[p[1] + 1]
                                              ELSE p[2]) \in Seq(X)
    OBVIOUS
  <2>1. CASE p[1] + 1 \in 1 .. n
    <3>1. seqs[p[1] + 1] \in Seq(X) /\ p[2] \in Seq(X)
      BY <2>1
    <3> QED
      BY <2>1, <3>1
  <2> QED
    BY <2>1
<1>2. seqs[1] \in Seq(X)
  OBVIOUS
<1>3. PICK r : IsRun(r, seqs[1], step, Seq(X), n - 1)
  <2>1. n - 1 \in Nat
    OBVIOUS
  <2> HIDE DEF step
  <2> QED
    BY <1>1, <1>2, <2>1, RunExists
<1>4. \A i \in 1 .. (n - 1) : r[i] = r[i - 1] \o seqs[i + 1]
  <2> SUFFICES ASSUME NEW i \in 1 .. (n - 1)
               PROVE  r[i] = r[i - 1] \o seqs[i + 1]
    OBVIOUS
  <2>1. i \in Nat /\ i + 1 \in 1 .. n /\ r[i - 1] \in Seq(X)
    BY <1>3 DEF IsRun
  <2>2. r[i] = step[<<i, r[i - 1]>>]
    BY <1>3 DEF IsRun
  <2>3. <<i, r[i - 1]>> \in Nat \X Seq(X)
    BY <2>1
  <2> QED
    BY <2>1, <2>2, <2>3
<1> HIDE DEF step
<1> DEFINE g == [i \in 1 .. n |-> r[i - 1]]
<1>5. g = Flat(g)
  <2> SUFFICES ASSUME NEW i \in 1 .. n
               PROVE  r[i - 1] = IF i = 1 THEN seqs[i]
                                          ELSE g[i - 1] \o seqs[i]
    OBVIOUS
  <2>1. CASE i = 1
    BY <1>3, <2>1 DEF IsRun
  <2>2. CASE i # 1
    <3>1. i - 1 \in 1 .. (n - 1) /\ i - 1 \in 1 .. n /\ (i - 1) + 1 = i
      BY <2>2
    <3>2. r[i - 1] = r[(i - 1) - 1] \o seqs[i]
      BY <1>4, <3>1
    <3> QED
      BY <2>2, <3>1, <3>2
  <2> QED
    BY <2>1, <2>2
<1>6. flatten = Flat(flatten)
  <2> HIDE DEF g
  <2>1. \E f : f = Flat(f)
    BY <1>5
  <2> QED
    BY <2>1, Zenon
<1>7. FlattenSeq(seqs) = flatten[n]
  <2>1. Len(seqs) = n
    OBVIOUS
  <2> QED
    BY <2>1 DEF FlattenSeq
<1> HIDE DEF flatten
<1> DEFINE Fine == {m \in 0 .. n - 1 : flatten[m + 1] \in Good[m + 1]}
           h == [m \in 0 .. n - 1 |-> m]
<1>8. h[0] \in Fine
  <2>1. flatten[1] = seqs[1] /\ 0 \in 0 .. n - 1 /\ 0 + 1 = 1
    BY <1>6
  <2> QED
    BY <2>1
<1>9. ASSUME NEW i \in 1 .. (n - 1), h[i - 1] \in Fine
      PROVE  h[i] \in Fine
  <2>1. i + 1 \in 2 .. n /\ i + 1 \in 1 .. n /\ i + 1 # 1
        /\ (i + 1) - 1 = i /\ i - 1 \in 0 .. (n - 1) /\ i \in 0 .. (n - 1)
        /\ (i - 1) + 1 = i
    OBVIOUS
  <2>2. flatten[i + 1] = flatten[i] \o seqs[i + 1]
    BY <1>6, <2>1
  <2>3. flatten[i] \in Good[i]
    BY <1>9, <2>1
  <2>4. flatten[i] \o seqs[i + 1] \in Good[i + 1]
    BY <2>1, <2>3
  <2> QED
    BY <2>1, <2>2, <2>4
<1>10. n - 1 \in Nat /\ n - 1 \in 0 .. (n - 1) /\ h[n - 1] = n - 1 /\ (n - 1) + 1 = n
  OBVIOUS
<1> HIDE DEF h
<1>11. \A i \in 0 .. (n - 1) : h[i] \in Fine
  <2> HIDE DEF Fine
  <2> QED
    BY <1>8, <1>9, <1>10, RunInduction
<1>12. n - 1 \in Fine
  BY <1>10, <1>11
<1> QED
  BY <1>7, <1>10, <1>12

\* In particular what survives the concatenation of any of them.
LEMMA FlattenSeqGood ==
  ASSUME NEW n \in Nat \ {0}, NEW X, NEW seqs \in [1 .. n -> Seq(X)],
         NEW Good \in SUBSET Seq(X), seqs[1] \in Good,
         \A s \in Good : \A i \in 2 .. n : s \o seqs[i] \in Good
  PROVE  FlattenSeq(seqs) \in Good
<1>1. PICK all : all = [i \in 1 .. n |-> Good]
  OBVIOUS
<1>2. /\ all \in [1 .. n -> SUBSET Seq(X)] /\ seqs[1] \in all[1] /\ all[n] = Good
      /\ \A i \in 2 .. n : all[i] = Good /\ all[i - 1] = Good
  BY <1>1
<1>3. \A i \in 2 .. n : \A s \in all[i - 1] : s \o seqs[i] \in all[i]
  BY <1>2
<1>4. FlattenSeq(seqs) \in all[n]
  BY <1>2, <1>3, FlattenSeqSteps
<1> QED
  BY <1>2, <1>4

LEMMA FlattenSeqType ==
  ASSUME NEW n \in Nat, NEW X, NEW seqs \in [1 .. n -> Seq(X)]
  PROVE  FlattenSeq(seqs) \in Seq(X)
<1>1. CASE n = 0
  <2>1. seqs \in [1 .. 0 -> Seq(X)]
    BY <1>1
  <2>2. seqs = <<>>
    BY <2>1
  <2>3. Len(seqs) = 0 /\ seqs \in Seq(X)
    BY <2>2
  <2>4. FlattenSeq(seqs) = seqs
    BY <2>3, Zenon DEF FlattenSeq
  <2> QED
    BY <2>3, <2>4
<1>2. CASE n # 0
  <2>1. n \in Nat \ {0} /\ Seq(X) \in SUBSET Seq(X) /\ seqs[1] \in Seq(X)
    BY <1>2
  <2>2. \A s \in Seq(X) : \A i \in 2 .. n : s \o seqs[i] \in Seq(X)
    <3> SUFFICES ASSUME NEW s \in Seq(X), NEW i \in 2 .. n PROVE s \o seqs[i] \in Seq(X)
      OBVIOUS
    <3>1. seqs[i] \in Seq(X)
      OBVIOUS
    <3> QED
      BY <3>1
  <2> QED
    BY <2>1, <2>2, FlattenSeqGood
<1> QED
  BY <1>1, <1>2

\* SetToSeq lists the elements of a finite set.
LEMMA SetToSeqFacts ==
  ASSUME NEW S, IsFiniteSet(S)
  PROVE  LET q == SetToSeq(S) IN
         /\ q \in Seq(S) /\ Len(q) = Cardinality(S)
         /\ \A x \in S : \E i \in DOMAIN q : q[i] = x
         /\ \A i, j \in DOMAIN q : q[i] = q[j] => i = j
<1> DEFINE n == Cardinality(S)
           q == SetToSeq(S)
<1>1. n \in Nat /\ ExistsBijection(1 .. n, S)
  BY FS_CardinalityType
<1>2. PICK f \in Bijection(1 .. n, S) : TRUE
  BY <1>1 DEF ExistsBijection
<1>3. f \in [1 .. n -> S] /\ IsInjective(f)
  <2>1. /\ f \in [1 .. n -> S]
        /\ \A a, b \in 1 .. n : f[a] = f[b] => a = b
    BY <1>2 DEF Bijection, Injection, IsInjective
  <2> QED
    BY <2>1 DEF IsInjective
<1>4. q \in [1 .. n -> S] /\ IsInjective(q)
  BY <1>3, Zenon DEF SetToSeq
<1>5. \A x \in S : \E i \in 1 .. n : q[i] = x
  <2> HIDE DEF q, n
  <2>1. q \in Injection(1 .. n, S)
    BY <1>4, Zenon DEF Injection
  <2>2. Cardinality(1 .. n) = n
    BY <1>1, FS_Interval
  <2>3. q \in Surjection(1 .. n, S)
    BY <2>1, <2>2, FS_Injection DEF n
  <2> QED
    BY <2>3, Zenon DEF Surjection
<1>6. q \in Seq(S) /\ DOMAIN q = 1 .. n /\ Len(q) = n
  BY <1>1, <1>4
<1>7. \A i, j \in DOMAIN q : q[i] = q[j] => i = j
  BY <1>4, Zenon DEF IsInjective
<1> QED
  BY <1>5, <1>6, <1>7

-----------------------------------------------------------------------------
(* Sums of the values of a function over a finite set.                     *)

\* The element that the library's folds take out of a set next.
Pick(s) == CHOOSE x \in s : TRUE

LEMMA PickFacts == ASSUME NEW s, s # {} PROVE Pick(s) \in s
BY DEF Pick

\* Induction over the subsets of a finite set, in that order.
LEMMA SubsetInduction ==
  ASSUME NEW S, IsFiniteSet(S), NEW P \in SUBSET (SUBSET S), {} \in P,
         \A s \in SUBSET S : s # {} /\ s \ {Pick(s)} \in P => s \in P
  PROVE  P = SUBSET S
<1> DEFINE N == {n \in Nat : \A s \in SUBSET S : Cardinality(s) = n => s \in P}
<1>1. \A s \in SUBSET S : IsFiniteSet(s) /\ Cardinality(s) \in Nat
  BY FS_Subset, FS_CardinalityType
<1>2. 0 \in N
  BY <1>1, FS_EmptySet
<1>3. ASSUME NEW n \in N PROVE n + 1 \in N
  <2> SUFFICES ASSUME NEW s \in SUBSET S, Cardinality(s) = n + 1
               PROVE  s \in P
    OBVIOUS
  <2>1. s # {}
    BY <1>1, FS_EmptySet
  <2>2. Cardinality(s \ {Pick(s)}) = n
    <3>1. Pick(s) \in s /\ IsFiniteSet(s) /\ n \in Nat
      BY <1>1, <2>1, PickFacts
    <3>2. PICK x \in s : x = Pick(s)
      BY <3>1
    <3>3. Cardinality(s \ {x}) = Cardinality(s) - 1
      BY <3>1, FS_RemoveElement
    <3> QED
      BY <3>1, <3>2, <3>3
  <2>3. s \ {Pick(s)} \in P
    BY <2>2
  <2> QED
    BY <2>1, <2>3
<1>4. N = Nat
  <2>1. N \in SUBSET Nat
    OBVIOUS
  <2> HIDE DEF N
  <2> QED
    BY <1>2, <1>3, <2>1, NatSetInduction
<1> QED
  BY <1>1, <1>4

\* The equation of a sum of the values of f over subsets of S.
Summed(sum, f, S) ==
  sum = [s \in SUBSET S |->
           IF s = {} THEN 0
           ELSE f[CHOOSE x \in s : TRUE] + sum[s \ {CHOOSE x \in s : TRUE}]]

LEMMA SumExists ==
  ASSUME NEW S, IsFiniteSet(S), NEW f \in [S -> Int]
  PROVE  \E sum \in [SUBSET S -> Int] : Summed(sum, f, S)
<1> DEFINE T == [SUBSET S -> Int]
           Turn(g) == [s \in SUBSET S |-> IF s = {} THEN 0 ELSE f[Pick(s)] + g[s \ {Pick(s)}]]
           step == [p \in Nat \X T |-> Turn(p[2])]
           zero == [s \in SUBSET S |-> 0]
<1>1. zero \in T
  OBVIOUS
<1>2. ASSUME NEW g \in T PROVE Turn(g) \in T
  <2> SUFFICES ASSUME NEW s \in SUBSET S, s # {}
               PROVE  f[Pick(s)] + g[s \ {Pick(s)}] \in Int
    OBVIOUS
  <2>1. Pick(s) \in S /\ s \ {Pick(s)} \in SUBSET S
    BY PickFacts
  <2> QED
    BY <2>1
<1> HIDE DEF Turn
<1>3. step \in [Nat \X T -> T]
  <2> HIDE DEF T
  <2> QED
    BY <1>2
<1>4. Cardinality(S) \in Nat
  BY FS_CardinalityType
<1>5. PICK r : IsRun(r, zero, step, T, Cardinality(S))
  <2> HIDE DEF step, zero, T
  <2> QED
    BY <1>1, <1>3, <1>4, RunExists
<1> DEFINE sum == [s \in SUBSET S |-> r[Cardinality(s)][s]]
<1>6. \A s \in SUBSET S : /\ IsFiniteSet(s) /\ Cardinality(s) \in Nat
                          /\ Cardinality(s) \in 0 .. Cardinality(S)
  BY <1>4, FS_Subset, FS_CardinalityType
<1>7. sum \in [SUBSET S -> Int]
  <2> SUFFICES ASSUME NEW s \in SUBSET S PROVE r[Cardinality(s)][s] \in Int
    OBVIOUS
  <2>1. r[Cardinality(s)] \in T
    BY <1>5, <1>6 DEF IsRun
  <2> QED
    BY <2>1
<1>8. ASSUME NEW s \in SUBSET S
      PROVE  sum[s] = IF s = {} THEN 0 ELSE f[Pick(s)] + sum[s \ {Pick(s)}]
  <2>1. CASE s = {}
    <3>1. Cardinality(s) = 0
      BY <2>1, FS_EmptySet
    <3>2. r[0] = zero
      BY <1>5 DEF IsRun
    <3> QED
      BY <2>1, <3>1, <3>2
  <2>2. CASE s # {}
    <3> DEFINE u == s \ {Pick(s)}
               n == Cardinality(s)
    <3>1. u \in SUBSET S /\ Cardinality(u) = n - 1
      BY <1>6, <2>2, PickFacts, FS_RemoveElement
    <3>2. n \in 1 .. Cardinality(S) /\ n \in Nat /\ n - 1 \in 0 .. Cardinality(S)
      BY <1>4, <1>6, <3>1
    <3>3. r[n] = step[<<n, r[n - 1]>>] /\ r[n - 1] \in T
      BY <1>5, <3>2 DEF IsRun
    <3>4. r[n] = Turn(r[n - 1])
      <4> HIDE DEF T
      <4> QED
        BY <3>2, <3>3
    <3>5. r[n][s] = f[Pick(s)] + r[n - 1][u]
      BY <2>2, <3>4 DEF Turn
    <3>6. sum[s] = r[n][s] /\ sum[u] = r[n - 1][u]
      BY <3>1
    <3> QED
      BY <2>2, <3>5, <3>6
  <2> QED
    BY <2>1, <2>2
<1>9. Summed(sum, f, S)
  <2>1. sum = [s \in SUBSET S |-> IF s = {} THEN 0 ELSE f[Pick(s)] + sum[s \ {Pick(s)}]]
    <3>1. sum = [s \in SUBSET S |-> sum[s]]
      OBVIOUS
    <3> HIDE DEF sum
    <3> QED
      BY <1>8, <3>1
  <2> HIDE DEF sum
  <2> QED
    BY <2>1 DEF Summed, Pick
<1> HIDE DEF sum
<1> QED
  BY <1>7, <1>9

\* The library's sum is the value of such a function.
IsSum(sum, f, S) ==
  /\ sum \in [SUBSET S -> Int]
  /\ SumFunctionOnSet(f, S) = sum[S]
  /\ sum[{}] = 0
  /\ \A s \in SUBSET S : s # {} => sum[s] = f[Pick(s)] + sum[s \ {Pick(s)}]

LEMMA SumIsSum ==
  ASSUME NEW S, IsFiniteSet(S), NEW f \in [S -> Int]
  PROVE  \E sum : IsSum(sum, f, S)
<1> DEFINE it == CHOOSE sum : Summed(sum, f, S)
<1>1. Summed(it, f, S)
  <2>1. \E sum : Summed(sum, f, S)
    BY SumExists
  <2> QED
    BY <2>1, Zenon
<1>2. SumFunctionOnSet(f, S) = it[S]
  BY DEF SumFunctionOnSet, FoldFunctionOnSet, MapThenFoldSet, Summed
<1> HIDE DEF it
<1>3. it[{}] = 0 /\ \A s \in SUBSET S : s # {} => it[s] = f[Pick(s)] + it[s \ {Pick(s)}]
  BY <1>1 DEF Summed, Pick
<1>4. DOMAIN it = SUBSET S /\ it = [s \in DOMAIN it |-> it[s]]
  BY <1>1 DEF Summed
<1> DEFINE P == {s \in SUBSET S : it[s] \in Int}
<1>5. {} \in P
  BY <1>3
<1>6. ASSUME NEW s \in SUBSET S, s # {}, s \ {Pick(s)} \in P PROVE s \in P
  <2>1. it[s] = f[Pick(s)] + it[s \ {Pick(s)}] /\ f[Pick(s)] \in Int
    BY <1>3, <1>6, PickFacts
  <2> QED
    BY <1>6, <2>1
<1>7. P = SUBSET S
  <2>1. P \in SUBSET (SUBSET S)
    OBVIOUS
  <2> HIDE DEF P
  <2> QED
    BY <1>5, <1>6, <2>1, SubsetInduction
<1>8. it \in [SUBSET S -> Int]
  BY <1>4, <1>7
<1> QED
  BY <1>2, <1>3, <1>8 DEF IsSum

LEMMA SumType ==
  ASSUME NEW S, IsFiniteSet(S), NEW f \in [S -> Nat]
  PROVE  SumFunctionOnSet(f, S) \in Nat
<1>1. f \in [S -> Int]
  OBVIOUS
<1>2. PICK sum : IsSum(sum, f, S)
  BY <1>1, SumIsSum
<1> DEFINE P == {s \in SUBSET S : sum[s] \in Nat}
<1>3. {} \in P
  BY <1>2 DEF IsSum
<1>4. ASSUME NEW s \in SUBSET S, s # {}, s \ {Pick(s)} \in P PROVE s \in P
  <2>1. sum[s] = f[Pick(s)] + sum[s \ {Pick(s)}] /\ f[Pick(s)] \in Nat
    BY <1>2, <1>4, PickFacts DEF IsSum
  <2> QED
    BY <1>4, <2>1 DEF IsSum
<1>5. P = SUBSET S
  <2>1. P \in SUBSET (SUBSET S)
    OBVIOUS
  <2> HIDE DEF P
  <2> QED
    BY <1>3, <1>4, <2>1, SubsetInduction
<1> QED
  BY <1>2, <1>5 DEF IsSum

LEMMA SumOfZeros ==
  ASSUME NEW S, IsFiniteSet(S), NEW f \in [S -> Int], \A x \in S : f[x] = 0
  PROVE  SumFunctionOnSet(f, S) = 0
<1>2. PICK sum : IsSum(sum, f, S)
  BY SumIsSum
<1> DEFINE P == {s \in SUBSET S : sum[s] = 0}
<1>3. {} \in P
  BY <1>2 DEF IsSum
<1>4. ASSUME NEW s \in SUBSET S, s # {}, s \ {Pick(s)} \in P PROVE s \in P
  <2>1. sum[s] = f[Pick(s)] + sum[s \ {Pick(s)}] /\ f[Pick(s)] = 0
    BY <1>2, <1>4, PickFacts DEF IsSum
  <2> QED
    BY <1>4, <2>1 DEF IsSum
<1>5. P = SUBSET S
  <2>1. P \in SUBSET (SUBSET S)
    OBVIOUS
  <2> HIDE DEF P
  <2> QED
    BY <1>3, <1>4, <2>1, SubsetInduction
<1> QED
  BY <1>2, <1>5 DEF IsSum

\* One value changes, and the sum by as much.
LEMMA SumChanged ==
  ASSUME NEW S, IsFiniteSet(S), NEW f \in [S -> Int], NEW g \in [S -> Int],
         NEW y \in S, \A x \in S \ {y} : g[x] = f[x]
  PROVE  SumFunctionOnSet(g, S) = SumFunctionOnSet(f, S) + (g[y] - f[y])
<1>1. PICK sum : IsSum(sum, f, S)
  BY SumIsSum
<1>2. PICK new : IsSum(new, g, S)
  BY SumIsSum
<1> DEFINE P == {s \in SUBSET S : new[s] = sum[s] + IF y \in s THEN g[y] - f[y] ELSE 0}
<1>3. {} \in P
  BY <1>1, <1>2 DEF IsSum
<1>4. ASSUME NEW s \in SUBSET S, s # {}, s \ {Pick(s)} \in P PROVE s \in P
  <2> DEFINE x == Pick(s)
             u == s \ {x}
  <2>1. x \in s /\ u \in SUBSET S
    BY <1>4, PickFacts DEF IsSum
  <2>2. sum[s] = f[x] + sum[u] /\ new[s] = g[x] + new[u]
    BY <1>1, <1>2, <1>4 DEF IsSum
  <2>3. new[u] = sum[u] + IF y \in u THEN g[y] - f[y] ELSE 0
    BY <1>4 DEF IsSum
  <2>4. {f[x], g[x], sum[u], f[y], g[y]} \subseteq Int
    BY <1>1, <2>1 DEF IsSum
  <2> HIDE DEF x
  <2>5. CASE x = y
    BY <2>1, <2>2, <2>3, <2>4, <2>5
  <2>6. CASE x # y
    <3>1. g[x] = f[x] /\ (y \in u <=> y \in s)
      BY <2>1, <2>6
    <3> QED
      BY <2>1, <2>2, <2>3, <2>4, <3>1
  <2> QED
    BY <2>5, <2>6
<1>5. P = SUBSET S
  <2>1. P \in SUBSET (SUBSET S)
    OBVIOUS
  <2> HIDE DEF P
  <2> QED
    BY <1>3, <1>4, <2>1, SubsetInduction
<1> QED
  BY <1>1, <1>2, <1>5 DEF IsSum

\* One more on every element of D.
GrownIn(g, f, S, D) == \A x \in S : g[x] = f[x] + IF x \in D THEN 1 ELSE 0

\* Some values grow by one, and the sum by their number.
LEMMA SumGrown ==
  ASSUME NEW S, IsFiniteSet(S), NEW f \in [S -> Int], NEW g \in [S -> Int],
         NEW D \in SUBSET S, GrownIn(g, f, S, D)
  PROVE  SumFunctionOnSet(g, S) = SumFunctionOnSet(f, S) + Cardinality(D)
<1>1. PICK sum : IsSum(sum, f, S)
  BY SumIsSum
<1>2. PICK new : IsSum(new, g, S)
  BY SumIsSum
<1> DEFINE P == {s \in SUBSET S : new[s] = sum[s] + Cardinality(s \cap D)}
<1>3. {} \in P
  <2>1. {} \cap D = {} /\ Cardinality({}) = 0
    BY FS_EmptySet
  <2> QED
    BY <1>1, <1>2, <2>1 DEF IsSum
<1>4. ASSUME NEW s \in SUBSET S, s # {}, s \ {Pick(s)} \in P PROVE s \in P
  <2> DEFINE x == Pick(s)
             u == s \ {x}
  <2>1. x \in s /\ u \in SUBSET S
    BY <1>4, PickFacts DEF IsSum
  <2>2. sum[s] = f[x] + sum[u] /\ new[s] = g[x] + new[u]
    BY <1>1, <1>2, <1>4 DEF IsSum
  <2>3. new[u] = sum[u] + Cardinality(u \cap D)
    BY <1>4 DEF IsSum
  <2>4. /\ IsFiniteSet(s \cap D) /\ Cardinality(s \cap D) \in Nat
        /\ u \cap D = (s \cap D) \ {x}
    BY FS_Subset, FS_CardinalityType
  <2>5. Cardinality(u \cap D) =
          IF x \in s \cap D THEN Cardinality(s \cap D) - 1 ELSE Cardinality(s \cap D)
    BY <2>4, FS_RemoveElement
  <2>6. {f[x], sum[u]} \subseteq Int /\ g[x] = f[x] + IF x \in D THEN 1 ELSE 0
    BY <1>1, <2>1 DEF IsSum, GrownIn
  <2> HIDE DEF x, u
  <2> QED
    BY <2>1, <2>2, <2>3, <2>4, <2>5, <2>6
<1>5. P = SUBSET S
  <2>1. P \in SUBSET (SUBSET S)
    OBVIOUS
  <2> HIDE DEF P
  <2> QED
    BY <1>3, <1>4, <2>1, SubsetInduction
<1>6. S \cap D = D
  OBVIOUS
<1> QED
  BY <1>1, <1>2, <1>5, <1>6 DEF IsSum
=============================================================================
