-------------------------- MODULE InductionLemmas --------------------------
(***************************************************************************)
(* What the proofs use in place of induction over numbers: least and       *)
(* greatest elements, hence least counterexamples, and from these that a   *)
(* fold over a sequence goes through it step by step, and how a sum over a *)
(* finite set changes with one of its summands.                            *)
(***************************************************************************)
EXTENDS Integers, Sequences, SequencesExt, FiniteSetTheorems, WellFoundedInduction, TLAPS

\* Min is the least element.
LEMMA MinIsLeast ==
  ASSUME NEW S \in SUBSET Nat, S # {}
  PROVE  Min(S) \in S /\ \A x \in S : Min(S) <= x
<1>1. \E x \in S : \A y \in S : ~ (<<y, x>> \in OpToRel(<, Nat))
  BY NatLessThanWellFounded, WFMin
<1>2. PICK x \in S : \A y \in S : ~ (<<y, x>> \in OpToRel(<, Nat))
  BY <1>1
<1>3. OpToRel(<, Nat) = {ss \in Nat \X Nat : ss[1] < ss[2]}
  BY DEF OpToRel
<1>4. \A y \in S : ~ (<<y, x>> \in {ss \in Nat \X Nat : ss[1] < ss[2]})
  BY <1>2, <1>3
<1>5. \A y \in S : x <= y
  <2> SUFFICES ASSUME NEW y \in S PROVE x <= y
    OBVIOUS
  <2>1. ~ (y < x)
    BY <1>4
  <2> QED
    BY <2>1
<1> QED
  BY <1>5 DEF Min

\* Max is the greatest element of a bounded set.
LEMMA MaxIsGreatest ==
  ASSUME NEW n \in Nat, NEW S \in SUBSET (0..n), S # {}
  PROVE  Max(S) \in S /\ \A x \in S : x <= Max(S)
<1> DEFINE D == {n - x : x \in S}
<1>0. \A x \in S : x \in 0..n /\ n - x \in Nat
  OBVIOUS
<1>1. D \in SUBSET Nat /\ D # {}
  BY <1>0
<1>2. PICK d \in D : \A y \in D : d <= y
  BY <1>1, MinIsLeast
<1>3. PICK x \in S : d = n - x
  OBVIOUS
<1>4. \A y \in S : x >= y
  <2> SUFFICES ASSUME NEW y \in S PROVE x >= y
    OBVIOUS
  <2>1. d <= n - y
    BY <1>2
  <2> QED
    BY <1>3, <2>1
<1>5. \E z \in S : \A y \in S : z >= y
  BY <1>4
<1>6. Max(S) \in S /\ \A y \in S : Max(S) >= y
  BY <1>5 DEF Max
<1> QED
  BY <1>6

\* Least and greatest elements of a bounded set of integers.
LEMMA BoundsReached ==
  ASSUME NEW a \in Int, NEW b \in Int, NEW S \in SUBSET (a..b), S # {}
  PROVE  /\ Min(S) \in S /\ \A x \in S : Min(S) <= x
         /\ Max(S) \in S /\ \A x \in S : x <= Max(S)
<1> DEFINE L == {x - a : x \in S}
           G == {b - x : x \in S}
<1>0. \A x \in S : x \in Int /\ x - a \in Nat /\ b - x \in Nat
  OBVIOUS
<1>1. L \in SUBSET Nat /\ L # {} /\ G \in SUBSET Nat /\ G # {}
  BY <1>0
<1>2. PICK l \in L : \A y \in L : l <= y
  BY <1>1, MinIsLeast
<1>3. PICK g \in G : \A y \in G : g <= y
  BY <1>1, MinIsLeast
<1>4. PICK x \in S : l = x - a
  OBVIOUS
<1>5. PICK z \in S : g = b - z
  OBVIOUS
<1>6. ASSUME NEW y \in S PROVE x <= y /\ z >= y
  <2>1. l <= y - a /\ g <= b - y
    BY <1>2, <1>3
  <2> QED
    BY <1>0, <1>4, <1>5, <2>1
<1>7. Min(S) \in S /\ \A y \in S : Min(S) <= y
  BY <1>6 DEF Min
<1>8. Max(S) \in S /\ \A y \in S : Max(S) >= y
  BY <1>6 DEF Max
<1> QED
  BY <1>0, <1>7, <1>8

\* What holds of 0 and passes from each number to the next holds up to n.
LEMMA CountingUp ==
  ASSUME NEW n \in Nat, NEW S, 0 \in S, \A k \in 0..n - 1 : k \in S => k + 1 \in S
  PROVE  \A k \in 0..n : k \in S
<1> DEFINE Bad == (0..n) \ S
<1>1. ASSUME Bad # {} PROVE FALSE
  <2>1. Bad \in SUBSET Nat
    OBVIOUS
  <2>2. Min(Bad) \in Bad /\ \A x \in Bad : Min(Bad) <= x
    BY <1>1, <2>1, MinIsLeast
  <2> DEFINE m == Min(Bad)
  <2>3. m \in 0..n /\ m \notin S
    BY <2>2
  <2> HIDE DEF m
  <2>4. m # 0
    BY <2>3
  <2>5. m - 1 \in 0..n - 1 /\ m - 1 \in 0..n /\ (m - 1) + 1 = m /\ ~ (m <= m - 1)
    BY <2>3, <2>4
  <2>6. m - 1 \notin Bad
    BY <2>2, <2>5 DEF m
  <2> QED
    BY <2>3, <2>5, <2>6
<1> QED
  BY <1>1

\* Max of an interval and of a single number.
LEMMA MaxOfInterval == \A n \in Nat \ {0} : Max(1..n) = n /\ Max({n}) = n
<1> SUFFICES ASSUME NEW n \in Nat \ {0} PROVE Max(1..n) = n /\ Max({n}) = n
  OBVIOUS
<1>1. 1..n \in SUBSET (0..n) /\ 1..n # {} /\ {n} \in SUBSET (0..n) /\ n \in 1..n
  OBVIOUS
<1>2. Max(1..n) \in 1..n /\ (\A x \in 1..n : x <= Max(1..n)) /\ Max({n}) \in {n}
  BY <1>1, MaxIsGreatest
<1> QED
  BY <1>1, <1>2

-----------------------------------------------------------------------------
(* Folds over sequences.  FoldLeft is defined by recursion over the sets   *)
(* of positions; the operator is given here by its graph F.                *)

Solves(it, n, base, F) ==
  it = [S \in SUBSET (1..n) |-> IF S = {} THEN base ELSE F[<<Max(S), it[S \ {Max(S)}]>>]]

\* There is a function that solves the recursive equation.
LEMMA FoldSolution ==
  ASSUME NEW n \in Nat, NEW A, NEW base \in A, NEW F \in [(1..n) \X A -> A]
  PROVE  \E it \in [SUBSET (1..n) -> A] : Solves(it, n, base, F)
<1> DEFINE P(k) == \E it \in [SUBSET (1..k) -> A] : Solves(it, k, base, F)
<1>1. P(0)
  <2> DEFINE it == [S \in SUBSET (1..0) |-> base]
  <2>1. \A S \in SUBSET (1..0) : S = {}
    OBVIOUS
  <2>2. it \in [SUBSET (1..0) -> A]
    OBVIOUS
  <2>3. it = [S \in SUBSET (1..0) |-> IF S = {} THEN base ELSE F[<<Max(S), it[S \ {Max(S)}]>>]]
    BY <2>1
  <2> QED
    BY <2>2, <2>3 DEF Solves
<1>2. ASSUME NEW k \in 0..n - 1, P(k) PROVE P(k + 1)
  <2>0. PICK it \in [SUBSET (1..k) -> A] : Solves(it, k, base, F)
    BY <1>2
  <2> DEFINE j == k + 1
             new == [S \in SUBSET (1..j) |-> IF j \in S THEN F[<<j, it[S \ {j}]>>] ELSE it[S]]
  <2>1. k \in Nat /\ j \in 1..n /\ j \in Nat \ {0}
    OBVIOUS
  <2>2. \A S \in SUBSET (1..j) : S \ {j} \in SUBSET (1..k) /\ (j \notin S => S \in SUBSET (1..k))
    BY <2>1
  <2>3. new \in [SUBSET (1..j) -> A]
    BY <2>1, <2>2
  <2>4. ASSUME NEW S \in SUBSET (1..j)
        PROVE  new[S] = IF S = {} THEN base ELSE F[<<Max(S), new[S \ {Max(S)}]>>]
    <3>1. CASE j \in S
      <4>1. Max(S) = j
        <5>1. S \in SUBSET (0..j) /\ S # {}
          BY <2>1, <3>1
        <5>2. Max(S) \in S /\ \A x \in S : x <= Max(S)
          BY <2>1, <5>1, MaxIsGreatest
        <5>3. j <= Max(S) /\ Max(S) \in 1..j
          BY <3>1, <5>2
        <5> QED
          BY <2>1, <5>3
      <4>2. S \ {j} \in SUBSET (1..j) /\ j \notin S \ {j}
        OBVIOUS
      <4>3. new[S \ {j}] = it[S \ {j}]
        BY <4>2
      <4>4. new[S] = F[<<j, it[S \ {j}]>>]
        BY <3>1
      <4> QED
        BY <3>1, <4>1, <4>3, <4>4
    <3>2. CASE j \notin S
      <4>1. S \in SUBSET (1..k)
        BY <2>2, <3>2
      <4>2. new[S] = it[S]
        BY <3>2
      <4>3. it[S] = IF S = {} THEN base ELSE F[<<Max(S), it[S \ {Max(S)}]>>]
        BY <2>0, <4>1 DEF Solves
      <4>4. S \ {Max(S)} \in SUBSET (1..j) /\ j \notin S \ {Max(S)}
        BY <3>2
      <4>5. new[S \ {Max(S)}] = it[S \ {Max(S)}]
        BY <4>4
      <4> QED
        BY <4>2, <4>3, <4>5
    <3> QED
      BY <3>1, <3>2
  <2>5. Solves(new, j, base, F)
    <3> DEFINE rhs == [S \in SUBSET (1..j) |-> IF S = {} THEN base ELSE F[<<Max(S), new[S \ {Max(S)}]>>]]
    <3>1. \A S \in SUBSET (1..j) : new[S] = rhs[S]
      BY <2>4
    <3>2. new = [S \in SUBSET (1..j) |-> new[S]] /\ rhs = [S \in SUBSET (1..j) |-> rhs[S]]
      OBVIOUS
    <3> HIDE DEF rhs, new
    <3>3. new = rhs
      BY <3>1, <3>2, Zenon
    <3> QED
      BY <3>3 DEF rhs, Solves
  <2> QED
    BY <2>3, <2>5
<1> HIDE DEF P
<1> DEFINE S == {k \in 0..n : P(k)}
<1>3. \A k \in 0..n - 1 : k \in 0..n /\ k + 1 \in 0..n
  OBVIOUS
<1>4. \A k \in 0..n - 1 : k \in S => k + 1 \in S
  BY <1>2, <1>3
<1>5. 0 \in S
  BY <1>1
<1> HIDE DEF S
<1>6. \A k \in 0..n : k \in S
  BY <1>4, <1>5, CountingUp
<1>7. P(n)
  BY <1>6 DEF S
<1> QED
  BY <1>7 DEF P

\* z goes through the sequence, and w lists the values after each element.
GoesThrough(z, n, A, base, F) ==
  /\ z[1..0] = base
  /\ \A k \in 1..n : z[1..k - 1] \in A => z[1..k] = F[<<k, z[1..k - 1]>>]

Way(w, n, A, base, F, last) ==
  /\ w \in [0..n -> A]
  /\ w[0] = base /\ w[n] = last
  /\ \A k \in 1..n : w[k] = F[<<k, w[k - 1]>>]

\* What is computed goes through values of the accumulator's type.
LEMMA FoldWay ==
  ASSUME NEW n \in Nat, NEW A, NEW base \in A, NEW F \in [(1..n) \X A -> A],
         NEW z, GoesThrough(z, n, A, base, F)
  PROVE  \E w : Way(w, n, A, base, F, z[1..n])
<1> DEFINE S == {k \in 0..n : z[1..k] \in A}
           w == [k \in 0..n |-> z[1..k]]
<1> USE DEF GoesThrough
<1>1. 0 \in S
  OBVIOUS
<1>2. ASSUME NEW k \in 0..n - 1, k \in S PROVE k + 1 \in S
  <2>1. k + 1 \in 1..n /\ (k + 1) - 1 = k /\ k + 1 \in 0..n
    OBVIOUS
  <2>2. z[1..k + 1] = F[<<k + 1, z[1..k]>>]
    BY <1>2, <2>1
  <2>3. z[1..k] \in A
    BY <1>2
  <2> QED
    BY <2>1, <2>2, <2>3
<1> HIDE DEF S
<1>3. \A k \in 0..n : k \in S
  BY <1>1, <1>2, CountingUp
<1>4. \A k \in 0..n : z[1..k] \in A
  BY <1>3 DEF S
<1>5. w \in [0..n -> A] /\ w[0] = base /\ w[n] = z[1..n]
  BY <1>4
<1>6. ASSUME NEW k \in 1..n PROVE w[k] = F[<<k, w[k - 1]>>]
  <2>1. k \in 0..n /\ k - 1 \in 0..n
    OBVIOUS
  <2>2. z[1..k - 1] \in A
    BY <1>4, <2>1
  <2> QED
    BY <2>1, <2>2
<1> QED
  BY <1>5, <1>6 DEF Way

-----------------------------------------------------------------------------
(* Sums over finite sets, which FoldFunction computes in the order that    *)
(* CHOOSE gives; it is the same for all functions on the set.              *)

\* The element that FoldFunction takes first.
Chosen(s) == CHOOSE x \in s : TRUE

\* it solves the equation of the sum of f, for the sets in T.
SumsUp(it, T, f) ==
  it = [s \in T |-> IF s = {} THEN 0 ELSE f[Chosen(s)] + it[s \ {Chosen(s)}]]

\* The subsets with at most k elements.
UpToSize(S, k) == {s \in SUBSET S : Cardinality(s) <= k}

\* Removing the chosen element makes a set smaller.
LEMMA ChosenRemoved ==
  ASSUME NEW S, IsFiniteSet(S), NEW s \in SUBSET S, s # {}
  PROVE  LET x == Chosen(s) IN
         /\ x \in s /\ x \in S /\ s \ {x} \in SUBSET S /\ IsFiniteSet(s)
         /\ Cardinality(s) \in Nat \ {0} /\ Cardinality(s \ {x}) = Cardinality(s) - 1
<1> DEFINE x == Chosen(s)
<1>1. x \in s
  BY DEF Chosen
<1>2. IsFiniteSet(s) /\ Cardinality(s) \in Nat
  BY FS_Subset, FS_CardinalityType
<1> HIDE DEF x
<1>3. Cardinality(s \ {x}) = Cardinality(s) - 1
  BY <1>1, <1>2, FS_RemoveElement
<1>4. Cardinality(s) # 0
  BY <1>2, FS_EmptySet
<1> QED
  BY <1>1, <1>2, <1>3, <1>4 DEF x

\* There is a solution.
LEMMA SumSolution ==
  ASSUME NEW S, IsFiniteSet(S), NEW f \in [S -> Nat]
  PROVE  \E it \in [SUBSET S -> Nat] : SumsUp(it, SUBSET S, f)
<1> DEFINE n == Cardinality(S)
           Has == {k \in 0..n : \E it \in [UpToSize(S, k) -> Nat] : SumsUp(it, UpToSize(S, k), f)}
<1>1. n \in Nat
  BY FS_CardinalityType
<1>2. \A s \in SUBSET S : Cardinality(s) \in Nat /\ Cardinality(s) <= n
  BY FS_Subset, FS_CardinalityType
<1>3. 0 \in Has
  <2>1. \A s \in UpToSize(S, 0) : s = {}
    <3> SUFFICES ASSUME NEW s \in SUBSET S, Cardinality(s) <= 0, s # {} PROVE FALSE
      BY DEF UpToSize
    <3>1. Cardinality(s) \in Nat \ {0}
      BY ChosenRemoved
    <3> QED
      BY <3>1
  <2> DEFINE it == [s \in UpToSize(S, 0) |-> 0]
  <2>2. it \in [UpToSize(S, 0) -> Nat]
    OBVIOUS
  <2>3. SumsUp(it, UpToSize(S, 0), f)
    BY <2>1 DEF SumsUp
  <2> QED
    BY <1>1, <2>2, <2>3
<1>4. ASSUME NEW k \in 0..n - 1, k \in Has PROVE k + 1 \in Has
  <2>1. PICK it \in [UpToSize(S, k) -> Nat] : SumsUp(it, UpToSize(S, k), f)
    BY <1>4
  <2> DEFINE T == UpToSize(S, k + 1)
             new == [s \in T |-> IF s = {} THEN 0
                                 ELSE f[Chosen(s)] + it[s \ {Chosen(s)}]]
  <2>2. ASSUME NEW s \in T, s # {}
        PROVE  LET x == Chosen(s) IN f[x] \in Nat /\ s \ {x} \in UpToSize(S, k) /\ s \ {x} \in T
    <3> DEFINE x == Chosen(s)
    <3>1. s \in SUBSET S /\ Cardinality(s) <= k + 1
      BY DEF UpToSize
    <3>2. x \in S /\ s \ {x} \in SUBSET S /\ Cardinality(s) \in Nat /\ Cardinality(s \ {x}) = Cardinality(s) - 1
      BY <2>2, <3>1, ChosenRemoved
    <3> HIDE DEF x
    <3>3. Cardinality(s \ {x}) <= k /\ Cardinality(s \ {x}) <= k + 1
      BY <1>1, <3>1, <3>2
    <3> QED
      BY <3>2, <3>3 DEF UpToSize, x
  <2>3. \A s \in UpToSize(S, k) : s \in T /\ new[s] = it[s]
    <3> SUFFICES ASSUME NEW s \in UpToSize(S, k) PROVE s \in T /\ new[s] = it[s]
      OBVIOUS
    <3>1. s \in T
      BY <1>1, <1>2 DEF UpToSize
    <3> QED
      BY <2>1, <3>1 DEF SumsUp
  <2>4. new \in [T -> Nat]
    <3>1. \A s \in T : new[s] \in Nat
      BY <2>2
    <3> QED
      BY <3>1
  <2>5. \A s \in T : s # {} => new[s \ {Chosen(s)}] = it[s \ {Chosen(s)}]
    BY <2>2, <2>3
  <2>6. SumsUp(new, T, f)
    BY <2>5 DEF SumsUp
  <2> HIDE DEF new
  <2> QED
    BY <1>1, <2>4, <2>6
<1>5. n \in Has
  <2> HIDE DEF Has
  <2>1. \A k \in 0..n : k \in Has
    BY <1>1, <1>3, <1>4, CountingUp
  <2> QED
    BY <1>1, <2>1
<1>6. UpToSize(S, n) = SUBSET S
  BY <1>2 DEF UpToSize
<1> QED
  BY <1>5, <1>6

\* FoldFunction goes through such a solution.
LEMMA SumWay ==
  ASSUME NEW S, IsFiniteSet(S), NEW f \in [S -> Nat]
  PROVE  \E it : SumsUp(it, SUBSET S, f) /\ FoldFunction(+, 0, f) = it[S]
<1> DEFINE it == CHOOSE z : SumsUp(z, SUBSET S, f)
<1>1. SumsUp(it, SUBSET S, f)
  BY SumSolution
<1>2. FoldFunction(+, 0, f) = it[S]
  BY Zenon DEF FoldFunction, FoldFunctionOnSet, MapThenFoldSet, SumsUp, Chosen
<1> QED
  BY <1>1, <1>2

\* Two functions that differ at t have sums that differ by as much, on the sets with t.
LEMMA SumsDiffer ==
  ASSUME NEW S, IsFiniteSet(S), NEW f \in [S -> Nat], NEW g \in [S -> Nat], NEW t \in S,
         \A x \in S \ {t} : g[x] = f[x],
         NEW a, NEW b, SumsUp(a, SUBSET S, f), SumsUp(b, SUBSET S, g)
  PROVE  a[S] \in Nat /\ b[S] \in Nat /\ a[S] + g[t] = b[S] + f[t]
<1> DEFINE n == Cardinality(S)
           Good(s) == /\ a[s] \in Nat /\ b[s] \in Nat
                      /\ IF t \in s THEN a[s] + g[t] = b[s] + f[t] ELSE a[s] = b[s]
           Has == {k \in 0..n : \A s \in SUBSET S : Cardinality(s) = k => Good(s)}
<1>1. n \in Nat
  BY FS_CardinalityType
<1>2. f[t] \in Nat /\ g[t] \in Nat
  OBVIOUS
<1>3. 0 \in Has
  <2> SUFFICES ASSUME NEW s \in SUBSET S, Cardinality(s) = 0 PROVE Good(s)
    BY <1>1
  <2>1. s = {}
    BY ChosenRemoved
  <2>2. a[s] = 0 /\ b[s] = 0
    BY <2>1 DEF SumsUp
  <2> QED
    BY <2>1, <2>2
<1>4. ASSUME NEW k \in 0..n - 1, k \in Has PROVE k + 1 \in Has
  <2> SUFFICES ASSUME NEW s \in SUBSET S, Cardinality(s) = k + 1 PROVE Good(s)
    BY <1>1
  <2> DEFINE x == Chosen(s)
             r == s \ {x}
  <2>1. s # {}
    <3> SUFFICES ASSUME s = {} PROVE FALSE
      OBVIOUS
    <3>1. Cardinality(s) = 0
      BY FS_EmptySet
    <3> QED
      BY <1>1, <3>1
  <2>2. a[s] = f[x] + a[r] /\ b[s] = g[x] + b[r]
    BY <2>1 DEF SumsUp
  <2>3. x \in s /\ x \in S /\ r \in SUBSET S /\ Cardinality(r) = (k + 1) - 1
    BY <2>1, ChosenRemoved
  <2>4. Cardinality(r) = k
    BY <2>3
  <2>5. Good(r)
    BY <1>4, <2>3, <2>4
  <2>6. t \in r <=> t \in s /\ t # x
    OBVIOUS
  <2> HIDE DEF x, r
  <2>7. f[x] \in Nat /\ g[x] \in Nat /\ (x # t => g[x] = f[x])
    BY <2>3
  <2>8. CASE x = t
    <3>1. t \in s /\ t \notin r
      BY <2>3, <2>6, <2>8
    <3>2. a[r] = b[r] /\ a[r] \in Nat
      BY <2>5, <3>1
    <3> QED
      BY <1>2, <2>2, <2>8, <3>1, <3>2
  <2>9. CASE x # t
    <3>1. t \in s <=> t \in r
      BY <2>6, <2>9
    <3>2. a[r] \in Nat /\ b[r] \in Nat
      BY <2>5
    <3>3. a[s] \in Nat /\ b[s] \in Nat
      BY <2>2, <2>7, <3>2
    <3>4. CASE t \in s
      <4>1. a[r] + g[t] = b[r] + f[t]
        BY <2>5, <3>1, <3>4
      <4> QED
        BY <1>2, <2>2, <2>7, <2>9, <3>2, <3>3, <3>4, <4>1
    <3>5. CASE t \notin s
      <4>1. a[r] = b[r]
        BY <2>5, <3>1, <3>5
      <4> QED
        BY <2>2, <2>7, <2>9, <3>3, <3>5, <4>1
    <3> QED
      BY <3>4, <3>5
  <2> QED
    BY <2>8, <2>9
<1>5. n \in Has
  <2> HIDE DEF Has
  <2>1. \A k \in 0..n : k \in Has
    BY <1>1, <1>3, <1>4, CountingUp
  <2> QED
    BY <1>1, <2>1
<1> QED
  BY <1>5

\* The sum when one value changes; no value exceeds it.
LEMMA SumChanged ==
  ASSUME NEW S, IsFiniteSet(S), NEW f \in [S -> Nat], NEW t \in S, NEW n \in Nat
  PROVE  /\ FoldFunction(+, 0, f) \in Nat /\ f[t] <= FoldFunction(+, 0, f)
         /\ FoldFunction(+, 0, [f EXCEPT ![t] = n]) = FoldFunction(+, 0, f) - f[t] + n
<1> DEFINE g == [f EXCEPT ![t] = n]
           z == [f EXCEPT ![t] = 0]
<1>1. g \in [S -> Nat] /\ z \in [S -> Nat] /\ g[t] = n /\ z[t] = 0 /\ f[t] \in Nat
  OBVIOUS
<1>2. (\A x \in S \ {t} : g[x] = f[x]) /\ (\A x \in S \ {t} : z[x] = f[x])
  OBVIOUS
<1> DEFINE F == FoldFunction(+, 0, f)
           G == FoldFunction(+, 0, g)
           Z == FoldFunction(+, 0, z)
<1> HIDE DEF g, z
<1>3. PICK a : SumsUp(a, SUBSET S, f) /\ F = a[S]
  BY SumWay
<1>4. PICK b : SumsUp(b, SUBSET S, g) /\ G = b[S]
  BY <1>1, SumWay
<1>5. PICK c : SumsUp(c, SUBSET S, z) /\ Z = c[S]
  BY <1>1, SumWay
<1> HIDE DEF F, G, Z
<1>6. a[S] \in Nat /\ b[S] \in Nat /\ a[S] + g[t] = b[S] + f[t]
  BY <1>1, <1>2, <1>3, <1>4, SumsDiffer
<1>7. c[S] \in Nat /\ a[S] + z[t] = c[S] + f[t]
  BY <1>1, <1>2, <1>3, <1>5, SumsDiffer
<1>8. F \in Nat /\ G = F - f[t] + n /\ f[t] <= F
  BY <1>1, <1>3, <1>4, <1>6, <1>7
<1> QED
  BY <1>8, Zenon DEF F, G, g

\* The sum of nothing but zeros.
LEMMA SumOfZeros ==
  ASSUME NEW S, IsFiniteSet(S), NEW f \in [S -> Nat], \A x \in S : f[x] = 0
  PROVE  FoldFunction(+, 0, f) = 0
<1> DEFINE F == FoldFunction(+, 0, f)
           n == Cardinality(S)
<1>1. PICK a : SumsUp(a, SUBSET S, f) /\ F = a[S]
  BY SumWay
<1> HIDE DEF F
<1> DEFINE Has == {k \in 0..n : \A s \in SUBSET S : Cardinality(s) = k => a[s] = 0}
<1>2. n \in Nat
  BY FS_CardinalityType
<1>3. 0 \in Has
  <2> SUFFICES ASSUME NEW s \in SUBSET S, Cardinality(s) = 0 PROVE a[s] = 0
    BY <1>2
  <2>1. s = {}
    BY ChosenRemoved
  <2> QED
    BY <1>1, <2>1 DEF SumsUp
<1>4. ASSUME NEW k \in 0..n - 1, k \in Has PROVE k + 1 \in Has
  <2> SUFFICES ASSUME NEW s \in SUBSET S, Cardinality(s) = k + 1 PROVE a[s] = 0
    BY <1>2
  <2> DEFINE x == Chosen(s)
             r == s \ {x}
  <2>1. s # {}
    <3> SUFFICES ASSUME s = {} PROVE FALSE
      OBVIOUS
    <3>1. Cardinality(s) = 0
      BY FS_EmptySet
    <3> QED
      BY <1>2, <3>1
  <2>2. a[s] = f[x] + a[r]
    BY <1>1, <2>1 DEF SumsUp
  <2>3. x \in S /\ r \in SUBSET S /\ Cardinality(r) = (k + 1) - 1
    BY <2>1, ChosenRemoved
  <2>4. Cardinality(r) = k
    BY <2>3
  <2>5. a[r] = 0 /\ f[x] = 0
    BY <1>4, <2>3, <2>4
  <2> QED
    BY <2>2, <2>5
<1>5. n \in Has
  <2> HIDE DEF Has
  <2>1. \A k \in 0..n : k \in Has
    BY <1>2, <1>3, <1>4, CountingUp
  <2> QED
    BY <1>2, <2>1
<1>6. F = 0
  BY <1>1, <1>5
<1> QED
  BY <1>6 DEF F
=============================================================================
