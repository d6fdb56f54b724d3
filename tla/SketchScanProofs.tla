-------------------------- MODULE SketchScanProofs --------------------------
(***************************************************************************)
(* Proofs about filtered scans: that pruning with zone maps changes no     *)
(* result, that codes keep the order of the values, and which rows a scan  *)
(* that uses the sketches returns.                                         *)
(***************************************************************************)
EXTENDS SketchScan, InductionLemmas

Results == {"FILTER_ALWAYS_TRUE", "NO_PRUNING_POSSIBLE", "FILTER_ALWAYS_FALSE"}
-----------------------------------------------------------------------------
(* Zone maps.                                                              *)

\* Whatever the bounds, the check gives one of the three results.
LEMMA LeafResult == \A lo, hi, f : CheckLeaf(lo, hi, f) \in Results
  BY DEF CheckLeaf, CheckZonemap, Results

\* The loop over the children of an OR.
LEMMA OrWay ==
  ASSUME NEW lo, NEW hi, NEW f, NEW n \in Nat, f.type = "or", DOMAIN f.children = 1..n
  PROVE  \E w \in [0..n -> Results] :
            /\ w[0] = "FILTER_ALWAYS_FALSE"
            /\ \A k \in 1..n : w[k] = IF w[k - 1] = "FILTER_ALWAYS_FALSE"
                                      THEN CheckLeaf(lo, hi, f.children[k]) ELSE w[k - 1]
            /\ CheckChild(lo, hi, f) = w[n]
<1> DEFINE s == f.children
           Step(acc, g) == IF acc = "FILTER_ALWAYS_FALSE" THEN CheckLeaf(lo, hi, g) ELSE acc
           base == "FILTER_ALWAYS_FALSE"
           E(it) == [S \in SUBSET DOMAIN s |-> IF S = {} THEN base ELSE Step(it[S \ {Max(S)}], s[Max(S)])]
           F == [p \in (1..n) \X Results |-> Step(p[2], s[p[1]])]
<1>1. CheckChild(lo, hi, f) = FoldLeft(Step, base, s)
  BY DEF CheckChild
<1>2. FoldLeft(Step, base, s) = (CHOOSE it : it = E(it))[DOMAIN s]
  BY Zenon DEF FoldLeft, MapThenFoldSet
<1>3. F \in [(1..n) \X Results -> Results] /\ base \in Results
  BY LeafResult DEF Results
<1>4. PICK it \in [SUBSET (1..n) -> Results] : Solves(it, n, base, F)
  BY <1>3, FoldSolution
<1>5. it = E(it)
  <2>1. ASSUME NEW S \in SUBSET (1..n), S # {}
        PROVE  F[<<Max(S), it[S \ {Max(S)}]>>] = Step(it[S \ {Max(S)}], s[Max(S)])
    <3>1. Max(S) \in 1..n
      <4>1. S \in SUBSET (0..n)
        OBVIOUS
      <4> QED
        BY <2>1, <4>1, MaxIsGreatest
    <3>2. <<Max(S), it[S \ {Max(S)}]>> \in (1..n) \X Results
      BY <3>1
    <3> QED
      BY <3>2
  <2> HIDE DEF F, Step
  <2>2. it = [S \in SUBSET (1..n) |-> IF S = {} THEN base ELSE F[<<Max(S), it[S \ {Max(S)}]>>]]
    BY <1>4 DEF Solves
  <2>3. \A S \in SUBSET (1..n) : (IF S = {} THEN base ELSE F[<<Max(S), it[S \ {Max(S)}]>>])
                                 = IF S = {} THEN base ELSE Step(it[S \ {Max(S)}], s[Max(S)])
    BY <2>1
  <2> QED
    BY <2>2, <2>3, Zenon
<1> HIDE DEF F, Step
<1> DEFINE z == CHOOSE x : x = E(x)
<1>6. z = E(z)
  BY <1>5
<1> HIDE DEF z
<1>7. z[1..0] = base
  BY <1>6
<1>8. ASSUME NEW k \in 1..n PROVE z[1..k] = Step(z[1..k - 1], s[k])
  <2>1. 1..k \in SUBSET (1..n) /\ 1..k # {} /\ k \in Nat \ {0} /\ (1..k) \ {k} = 1..k - 1
    OBVIOUS
  <2>2. Max(1..k) = k
    BY <2>1, MaxOfInterval
  <2>3. z[1..k] = Step(z[(1..k) \ {Max(1..k)}], s[Max(1..k)])
    BY <1>6, <2>1
  <2> QED
    BY <2>1, <2>2, <2>3
<1>9. \A k \in 1..n : z[1..k - 1] \in Results => z[1..k] = F[<<k, z[1..k - 1]>>]
  BY <1>8 DEF F
<1>10. GoesThrough(z, n, Results, base, F)
  BY <1>7, <1>9 DEF GoesThrough
<1> HIDE DEF base
<1>h. PICK w : Way(w, n, Results, base, F, z[1..n])
  BY <1>3, <1>10, FoldWay
<1>11. ASSUME NEW k \in 1..n PROVE F[<<k, w[k - 1]>>] = Step(w[k - 1], s[k])
  <2>1. k - 1 \in 0..n
    OBVIOUS
  <2>2. w[k - 1] \in Results
    BY <1>h, <2>1 DEF Way
  <2> QED
    BY <2>2 DEF F
<1>12. CheckChild(lo, hi, f) = z[1..n]
  BY <1>1, <1>2 DEF z
<1> QED
  BY <1>h, <1>11, <1>12 DEF Step, Way, base

\* The loop over the children of an AND.
LEMMA AndWay ==
  ASSUME NEW lo, NEW hi, NEW f, NEW n \in Nat, f.type = "and", DOMAIN f.children = 1..n
  PROVE  \E w \in [0..n -> Results] :
            /\ w[0] = "FILTER_ALWAYS_TRUE"
            /\ \A k \in 1..n :
                  w[k] = LET r == CheckChild(lo, hi, f.children[k]) IN
                         IF "FILTER_ALWAYS_FALSE" \in {w[k - 1], r} THEN "FILTER_ALWAYS_FALSE"
                         ELSE IF r = w[k - 1] THEN w[k - 1] ELSE "NO_PRUNING_POSSIBLE"
            /\ CheckStatistics(lo, hi, f) = w[n]
<1> DEFINE s == f.children
           Step(acc, g) == LET r == CheckChild(lo, hi, g) IN
                           IF "FILTER_ALWAYS_FALSE" \in {acc, r} THEN "FILTER_ALWAYS_FALSE"
                           ELSE IF r = acc THEN acc ELSE "NO_PRUNING_POSSIBLE"
           base == "FILTER_ALWAYS_TRUE"
           E(it) == [S \in SUBSET DOMAIN s |-> IF S = {} THEN base ELSE Step(it[S \ {Max(S)}], s[Max(S)])]
           F == [p \in (1..n) \X Results |-> Step(p[2], s[p[1]])]
<1>1. CheckStatistics(lo, hi, f) = FoldLeft(Step, base, s)
  BY DEF CheckStatistics
<1>2. FoldLeft(Step, base, s) = (CHOOSE it : it = E(it))[DOMAIN s]
  BY Zenon DEF FoldLeft, MapThenFoldSet
<1>3. F \in [(1..n) \X Results -> Results] /\ base \in Results
  BY DEF Results
<1>4. PICK it \in [SUBSET (1..n) -> Results] : Solves(it, n, base, F)
  BY <1>3, FoldSolution
<1>5. it = E(it)
  <2>1. ASSUME NEW S \in SUBSET (1..n), S # {}
        PROVE  F[<<Max(S), it[S \ {Max(S)}]>>] = Step(it[S \ {Max(S)}], s[Max(S)])
    <3>1. Max(S) \in 1..n
      <4>1. S \in SUBSET (0..n)
        OBVIOUS
      <4> QED
        BY <2>1, <4>1, MaxIsGreatest
    <3>2. <<Max(S), it[S \ {Max(S)}]>> \in (1..n) \X Results
      BY <3>1
    <3> QED
      BY <3>2
  <2> HIDE DEF F, Step
  <2>2. it = [S \in SUBSET (1..n) |-> IF S = {} THEN base ELSE F[<<Max(S), it[S \ {Max(S)}]>>]]
    BY <1>4 DEF Solves
  <2>3. \A S \in SUBSET (1..n) : (IF S = {} THEN base ELSE F[<<Max(S), it[S \ {Max(S)}]>>])
                                 = IF S = {} THEN base ELSE Step(it[S \ {Max(S)}], s[Max(S)])
    BY <2>1
  <2> QED
    BY <2>2, <2>3, Zenon
<1> HIDE DEF F, Step
<1> DEFINE z == CHOOSE x : x = E(x)
<1>6. z = E(z)
  BY <1>5
<1> HIDE DEF z
<1>7. z[1..0] = base
  BY <1>6
<1>8. ASSUME NEW k \in 1..n PROVE z[1..k] = Step(z[1..k - 1], s[k])
  <2>1. 1..k \in SUBSET (1..n) /\ 1..k # {} /\ k \in Nat \ {0} /\ (1..k) \ {k} = 1..k - 1
    OBVIOUS
  <2>2. Max(1..k) = k
    BY <2>1, MaxOfInterval
  <2>3. z[1..k] = Step(z[(1..k) \ {Max(1..k)}], s[Max(1..k)])
    BY <1>6, <2>1
  <2> QED
    BY <2>1, <2>2, <2>3
<1>9. \A k \in 1..n : z[1..k - 1] \in Results => z[1..k] = F[<<k, z[1..k - 1]>>]
  BY <1>8 DEF F
<1>10. GoesThrough(z, n, Results, base, F)
  BY <1>7, <1>9 DEF GoesThrough
<1> HIDE DEF base
<1>h. PICK w : Way(w, n, Results, base, F, z[1..n])
  BY <1>3, <1>10, FoldWay
<1>11. ASSUME NEW k \in 1..n PROVE F[<<k, w[k - 1]>>] = Step(w[k - 1], s[k])
  <2>1. k - 1 \in 0..n
    OBVIOUS
  <2>2. w[k - 1] \in Results
    BY <1>h, <2>1 DEF Way
  <2> QED
    BY <2>2 DEF F
<1>12. CheckStatistics(lo, hi, f) = z[1..n]
  BY <1>1, <1>2 DEF z
<1> QED
  BY <1>h, <1>11, <1>12 DEF Step, Way, base

\* A leaf that the bounds reject holds for no value between them.
LEMMA ZonemapLeaf ==
  ASSUME NEW lo \in Int, NEW hi \in Int, NEW v \in Int, lo <= v, v <= hi,
         NEW f, IsLeaf(f), CheckLeaf(lo, hi, f) = "FILTER_ALWAYS_FALSE"
  PROVE  ~ LeafHolds(f, v)
<1>1. f.type = "constant" /\ f.op \in Comparison /\ f.c \in Int
  BY SketchConstants DEF IsLeaf, CheckLeaf, Signed
<1>2. CheckZonemap(lo, hi, f.op, f.c) = "FILTER_ALWAYS_FALSE"
  BY <1>1 DEF CheckLeaf
<1>3. ~ Holds(v, f.op, f.c)
  <2> DEFINE o == f.op
             c == f.c
  <2>1. o \in Comparison /\ c \in Int /\ CheckZonemap(lo, hi, o, c) = "FILTER_ALWAYS_FALSE"
    BY <1>1, <1>2
  <2> HIDE DEF o, c
  <2>2. ASSUME o = "=" PROVE ~ Holds(v, o, c)
    BY <2>1, <2>2 DEF CheckZonemap, Holds
  <2>3. ASSUME o = "!=" PROVE ~ Holds(v, o, c)
    BY <2>1, <2>3 DEF CheckZonemap, Holds
  <2>4. ASSUME o = ">=" PROVE ~ Holds(v, o, c)
    BY <2>1, <2>4 DEF CheckZonemap, Holds
  <2>5. ASSUME o = ">" PROVE ~ Holds(v, o, c)
    BY <2>1, <2>5 DEF CheckZonemap, Holds
  <2>6. ASSUME o = "<=" PROVE ~ Holds(v, o, c)
    BY <2>1, <2>6 DEF CheckZonemap, Holds
  <2>7. ASSUME o = "<" PROVE ~ Holds(v, o, c)
    BY <2>1, <2>7 DEF CheckZonemap, Holds
  <2> QED
    BY <2>1, <2>2, <2>3, <2>4, <2>5, <2>6, <2>7 DEF Comparison, o, c
<1> QED
  BY <1>1, <1>3 DEF LeafHolds

\* The same for a child of a conjunction, an OR of comparisons included.
LEMMA ZonemapChild ==
  ASSUME NEW lo \in Int, NEW hi \in Int, NEW v \in Int, lo <= v, v <= hi,
         NEW f, IsChild(f), CheckChild(lo, hi, f) = "FILTER_ALWAYS_FALSE"
  PROVE  ~ ChildHolds(f, v)
<1>1. CASE f.type # "or"
  <2>1. IsLeaf(f) /\ CheckLeaf(lo, hi, f) = "FILTER_ALWAYS_FALSE"
    BY <1>1 DEF IsChild, CheckChild
  <2> QED
    BY <1>1, <2>1, ZonemapLeaf DEF ChildHolds
<1>2. CASE f.type = "or"
  <2> DEFINE n == Len(f.children)
  <2>1. /\ n \in Nat /\ DOMAIN f.children = 1..n
        /\ \A i \in DOMAIN f.children : IsLeaf(f.children[i])
    BY <1>2 DEF IsChild, IsList, IsLeaf
  <2> HIDE DEF n
  <2>2. PICK w \in [0..n -> Results] :
            /\ w[0] = "FILTER_ALWAYS_FALSE"
            /\ \A k \in 1..n : w[k] = IF w[k - 1] = "FILTER_ALWAYS_FALSE"
                                      THEN CheckLeaf(lo, hi, f.children[k]) ELSE w[k - 1]
            /\ CheckChild(lo, hi, f) = w[n]
    BY <1>2, <2>1, OrWay
  <2> DEFINE S == {k \in 0..n : w[k] = "FILTER_ALWAYS_FALSE" =>
                      \A i \in 1..k : CheckLeaf(lo, hi, f.children[i]) = "FILTER_ALWAYS_FALSE"}
  <2>3. 0 \in S
    BY <2>1
  <2>4. ASSUME NEW k \in 0..n - 1, k \in S PROVE k + 1 \in S
    <3>1. k + 1 \in 0..n /\ k + 1 \in 1..n /\ (k + 1) - 1 = k /\ 1..k + 1 = (1..k) \cup {k + 1}
      BY <2>1
    <3> QED
      BY <2>2, <2>4, <3>1
  <2> HIDE DEF S
  <2>5. n \in S
    BY <2>1, <2>3, <2>4, CountingUp
  <2>6. \A i \in 1..n : CheckLeaf(lo, hi, f.children[i]) = "FILTER_ALWAYS_FALSE"
    BY <2>2, <2>5 DEF S
  <2>7. \A i \in DOMAIN f.children : ~ LeafHolds(f.children[i], v)
    BY <2>1, <2>6, ZonemapLeaf
  <2> QED
    BY <1>2, <2>7 DEF ChildHolds
<1> QED
  BY <1>1, <1>2

\* A filter that the bounds reject holds for no value between them.
LEMMA ZonemapFilter ==
  ASSUME NEW lo \in Int, NEW hi \in Int, NEW v \in Int, lo <= v, v <= hi,
         NEW f, IsFilter(f), CheckStatistics(lo, hi, f) = "FILTER_ALWAYS_FALSE"
  PROVE  ~ FilterHolds(f, v)
<1>1. CASE f.type # "and"
  <2>1. IsChild(f) /\ CheckChild(lo, hi, f) = "FILTER_ALWAYS_FALSE"
    BY <1>1 DEF IsFilter, CheckStatistics
  <2> QED
    BY <1>1, <2>1, ZonemapChild DEF FilterHolds
<1>2. CASE f.type = "and"
  <2> DEFINE n == Len(f.children)
  <2>1. /\ n \in Nat /\ DOMAIN f.children = 1..n
        /\ \A i \in DOMAIN f.children : IsChild(f.children[i])
    BY <1>2 DEF IsFilter, IsChild, IsList, IsLeaf
  <2> HIDE DEF n
  <2>2. PICK w \in [0..n -> Results] :
            /\ w[0] = "FILTER_ALWAYS_TRUE"
            /\ \A k \in 1..n :
                  w[k] = LET r == CheckChild(lo, hi, f.children[k]) IN
                         IF "FILTER_ALWAYS_FALSE" \in {w[k - 1], r} THEN "FILTER_ALWAYS_FALSE"
                         ELSE IF r = w[k - 1] THEN w[k - 1] ELSE "NO_PRUNING_POSSIBLE"
            /\ CheckStatistics(lo, hi, f) = w[n]
    BY <1>2, <2>1, AndWay
  <2> DEFINE S == {k \in 0..n : w[k] = "FILTER_ALWAYS_FALSE" =>
                      \E i \in 1..k : CheckChild(lo, hi, f.children[i]) = "FILTER_ALWAYS_FALSE"}
  <2>3. 0 \in S
    BY <2>1, <2>2
  <2>4. ASSUME NEW k \in 0..n - 1, k \in S PROVE k + 1 \in S
    <3>1. k + 1 \in 0..n /\ k + 1 \in 1..n /\ (k + 1) - 1 = k /\ 1..k + 1 = (1..k) \cup {k + 1}
      BY <2>1
    <3>2. w[k + 1] = "FILTER_ALWAYS_FALSE" =>
             w[k] = "FILTER_ALWAYS_FALSE" \/ CheckChild(lo, hi, f.children[k + 1]) = "FILTER_ALWAYS_FALSE"
      BY <2>2, <3>1
    <3> QED
      BY <2>4, <3>1, <3>2
  <2> HIDE DEF S
  <2>5. n \in S
    BY <2>1, <2>3, <2>4, CountingUp
  <2>6. PICK i \in 1..n : CheckChild(lo, hi, f.children[i]) = "FILTER_ALWAYS_FALSE"
    BY <2>2, <2>5 DEF S
  <2>7. ~ ChildHolds(f.children[i], v)
    BY <2>1, <2>6, ZonemapChild
  <2> QED
    BY <1>2, <2>1, <2>7 DEF FilterHolds
<1> QED
  BY <1>1, <1>2
-----------------------------------------------------------------------------
(* The table and the scans.                                                *)

IsScan(x) ==
  \/ x = Idle
  \/ x \in [phase : {"check", "read"}, filter : Filter, vector_index : Nat, rows : {x.rows}]

TableTypes ==
  /\ data \in Seq(Value)
  /\ DOMAIN updates \subseteq DOMAIN data /\ \A r \in DOMAIN updates : updates[r] \in Value
  /\ deleted \subseteq DOMAIN data
  /\ is_sketched \in BOOLEAN
  /\ DOMAIN scan = Query /\ scan = [q \in Query |-> scan[q]] /\ \A q \in Query : IsScan(scan[q])

\* A scan that has begun and not ended.
Going(q) ==
  /\ scan[q] # Idle
  /\ scan[q] \in [phase : {"check", "read"}, filter : Filter, vector_index : Nat, rows : {scan[q].rows}]

\* A scan that checks or reads a vector is under way.
LEMMA InPhase ==
  ASSUME TableTypes, NEW q \in Query, scan[q].phase \in {"check", "read"}
  PROVE  Going(q)
<1>1. IsScan(scan[q]) /\ scan[q] # Idle
  BY DEF TableTypes, Idle
<1> QED
  BY <1>1 DEF IsScan, Going

\* The three ways a scan goes on.
LEMMA ScanGoesOn ==
  ASSUME TableTypes, NEW q \in Query, Going(q)
  PROVE  LET s == scan[q] IN
         /\ ReadThis(q) = [p \in Query |-> IF p = q
               THEN [phase |-> "read", filter |-> s.filter, vector_index |-> s.vector_index, rows |-> s.rows]
               ELSE scan[p]]
         /\ NextVector(q) = [p \in Query |-> IF p = q
               THEN [phase |-> "check", filter |-> s.filter, vector_index |-> s.vector_index + 1, rows |-> s.rows]
               ELSE scan[p]]
<1> DEFINE s == scan[q]
           n == [phase |-> "check", filter |-> s.filter, vector_index |-> s.vector_index + 1, rows |-> s.rows]
<1>1. DOMAIN scan = Query /\ scan = [p \in Query |-> scan[p]]
  BY DEF TableTypes
<1>2. s = [phase |-> s.phase, filter |-> s.filter, vector_index |-> s.vector_index, rows |-> s.rows]
  BY DEF Going
<1>3. ReadThis(q) = [p \in Query |-> IF p = q
               THEN [phase |-> "read", filter |-> s.filter, vector_index |-> s.vector_index, rows |-> s.rows]
               ELSE scan[p]]
  BY <1>1, <1>2 DEF ReadThis
<1>4. NextVector(q) = [p \in Query |-> IF p = q THEN n ELSE scan[p]]
  <2> DEFINE c == [scan EXCEPT ![q].phase = "check"]
  <2>1. NextVector(q) = [c EXCEPT ![q].vector_index = @ + 1]
    BY DEF NextVector
  <2>2. c = [p \in Query |-> IF p = q
               THEN [phase |-> "check", filter |-> s.filter, vector_index |-> s.vector_index, rows |-> s.rows]
               ELSE scan[p]]
    BY <1>1, <1>2
  <2> HIDE DEF c
  <2> QED
    BY <2>1, <2>2
<1> QED
  BY <1>3, <1>4

\* What ReadVector adds to the rows of the scan.
Picked(q) ==
  LET v == scan[q].vector_index IN
  IF Vector(v) \ deleted = {} THEN {}
  ELSE IF is_sketched THEN {v * STANDARD_VECTOR_SIZE + i : i \in vector_sels[v + 1].rows}
       ELSE {r \in Vector(v) \ deleted : FilterHolds(scan[q].filter, Current(r))}

\* What reading a vector (TemplatedScan) does to the scans.
LEMMA RowsAdded ==
  ASSUME TableTypes, NEW q \in Query, ReadVector(q)
  PROVE  LET s == scan[q] IN
         scan' = [p \in Query |-> IF p = q
               THEN [phase |-> "check", filter |-> s.filter, vector_index |-> s.vector_index + 1,
                     rows |-> s.rows \cup Picked(q)]
               ELSE scan[p]]
<1> DEFINE s == scan[q]
           n == [phase |-> "check", filter |-> s.filter, vector_index |-> s.vector_index + 1, rows |-> s.rows]
           visible == Vector(s.vector_index) \ deleted
           sel == IF is_sketched
                  THEN {s.vector_index * STANDARD_VECTOR_SIZE + i : i \in vector_sels[s.vector_index + 1].rows}
                  ELSE {r \in visible : FilterHolds(s.filter, Current(r))}
<1>1. scan' = [NextVector(q) EXCEPT ![q].rows = IF visible = {} THEN @ ELSE @ \cup sel]
  BY DEF ReadVector
<1>2. Going(q)
  BY InPhase DEF ReadVector
<1>3. NextVector(q) = [p \in Query |-> IF p = q THEN n ELSE scan[p]]
  BY <1>2, ScanGoesOn
<1>4. Picked(q) = IF visible = {} THEN {} ELSE sel
  BY DEF Picked
<1> HIDE DEF visible, sel
<1>5. scan' = [p \in Query |-> IF p = q
               THEN [n EXCEPT !.rows = IF visible = {} THEN s.rows ELSE s.rows \cup sel]
               ELSE scan[p]]
  BY <1>1, <1>3
<1>6. (IF visible = {} THEN s.rows ELSE s.rows \cup sel) = s.rows \cup Picked(q)
  BY <1>4
<1> QED
  BY <1>5, <1>6

\* The table and the scans are well-formed before the first step.
LEMMA TypesInit == Init => TableTypes
<1> SUFFICES ASSUME Init PROVE TableTypes
  OBVIOUS
<1>1. data = <<>> /\ updates = <<>> /\ deleted = {} /\ is_sketched \in Sketched
      /\ scan = [q \in Query |-> Idle]
  BY DEF Init
<1>2. DOMAIN updates = {}
  BY <1>1
<1> QED
  BY <1>1, <1>2, ScanConstants DEF TableTypes, IsScan

\* Every step keeps the table and the scans well-formed.
LEMMA TypesStep ==
  ASSUME TableTypes, [Next]_vars
  PROVE  TableTypes'
<1> USE DEF TableTypes
<1>1. ASSUME NEW n \in ChunkSize, NEW chunk \in [1..n -> Value], SketchAppend(chunk)
      PROVE  TableTypes'
  <2>1. /\ data' = data \o chunk /\ UNCHANGED <<updates, deleted, is_sketched, scan>>
    BY <1>1 DEF SketchAppend
  <2>2. n \in Nat /\ chunk \in Seq(Value)
    BY ScanConstants
  <2>3. data' \in Seq(Value) /\ DOMAIN data \subseteq DOMAIN data'
    BY <2>1, <2>2
  <2> QED
    BY <2>1, <2>3
<1>2. ASSUME NEW r \in DOMAIN data, Delete(r) PROVE TableTypes'
  BY <1>2 DEF Delete
<1>3. ASSUME NEW r \in DOMAIN data, NEW v \in Value, Update(r, v) PROVE TableTypes'
  <2>1. /\ updates' = [x \in DOMAIN updates \cup {r} |-> IF x = r THEN v ELSE updates[x]]
        /\ UNCHANGED <<data, deleted, is_sketched, scan>>
    BY <1>3 DEF Update
  <2>2. DOMAIN updates' = DOMAIN updates \cup {r} /\ \A x \in DOMAIN updates' : updates'[x] \in Value
    BY <2>1
  <2> QED
    BY <2>1, <2>2
<1>4. ASSUME NEW q \in Query, NEW f \in Filter, StartScan(q, f) PROVE TableTypes'
  <2>1. /\ UNCHANGED <<data, updates, deleted, is_sketched>>
        /\ scan' = [p \in Query |-> IF p = q
                      THEN [phase |-> "check", filter |-> f, vector_index |-> 0, rows |-> {}]
                      ELSE scan[p]]
    BY <1>4 DEF StartScan
  <2>2. \A p \in Query : IsScan(scan'[p])
    BY <2>1 DEF IsScan
  <2> QED
    BY <2>1, <2>2
<1>5. ASSUME NEW q \in Query, Going(q),
             UNCHANGED <<data, updates, deleted, is_sketched>>,
             NEW new, scan' = [p \in Query |-> IF p = q THEN new ELSE scan[p]], IsScan(new)
      PROVE  TableTypes'
  <2>1. \A p \in Query : IsScan(scan'[p])
    BY <1>5 DEF IsScan
  <2> QED
    BY <1>5, <2>1
<1>6. ASSUME NEW q \in Query, Going(q),
             UNCHANGED <<data, updates, deleted, is_sketched>>,
             scan' = ReadThis(q) \/ scan' = NextVector(q)
      PROVE  TableTypes'
  <2> DEFINE s == scan[q]
             a == [phase |-> "read", filter |-> s.filter, vector_index |-> s.vector_index, rows |-> s.rows]
             b == [phase |-> "check", filter |-> s.filter, vector_index |-> s.vector_index + 1, rows |-> s.rows]
  <2>1. IsScan(a) /\ IsScan(b)
    BY <1>6 DEF IsScan, Going
  <2>2. \/ scan' = [p \in Query |-> IF p = q THEN a ELSE scan[p]]
        \/ scan' = [p \in Query |-> IF p = q THEN b ELSE scan[p]]
    BY <1>6, ScanGoesOn
  <2> HIDE DEF a, b
  <2> QED
    BY <1>5, <1>6, <2>1, <2>2
<1>7. ASSUME NEW q \in Query, CheckSketchSegments(q) PROVE TableTypes'
  <2>1. /\ scan[q].phase = "check" /\ UNCHANGED <<data, updates, deleted, is_sketched>>
        /\ scan' = ReadThis(q) \/ scan' = NextVector(q)
    BY <1>7 DEF CheckSketchSegments
  <2> QED
    BY <1>6, <2>1, InPhase
<1>8. ASSUME NEW q \in Query, CheckZonemapSegments(q) PROVE TableTypes'
  <2>1. /\ scan[q].phase = "check" /\ UNCHANGED <<data, updates, deleted, is_sketched>>
        /\ scan' = ReadThis(q) \/ scan' = NextVector(q)
    BY <1>8 DEF CheckZonemapSegments
  <2> QED
    BY <1>6, <2>1, InPhase
<1>9. ASSUME NEW q \in Query, ReadVector(q) PROVE TableTypes'
  <2>1. scan[q].phase = "read" /\ UNCHANGED <<data, updates, deleted, is_sketched>>
    BY <1>9 DEF ReadVector
  <2>2. Going(q)
    BY <2>1, InPhase
  <2> DEFINE s == scan[q]
             a == [phase |-> "check", filter |-> s.filter, vector_index |-> s.vector_index + 1,
                   rows |-> s.rows \cup Picked(q)]
  <2>3. IsScan(a)
    BY <2>2 DEF IsScan, Going
  <2>4. scan' = [p \in Query |-> IF p = q THEN a ELSE scan[p]]
    BY <1>9, RowsAdded
  <2> HIDE DEF a
  <2> QED
    BY <1>5, <2>1, <2>2, <2>3, <2>4
<1>10. ASSUME NEW q \in Query, EndScan(q) PROVE TableTypes'
  <2>1. /\ scan[q].phase = "check" /\ UNCHANGED <<data, updates, deleted, is_sketched>>
        /\ scan' = [p \in Query |-> IF p = q THEN Idle ELSE scan[p]]
    BY <1>10 DEF EndScan
  <2>2. IsScan(Idle)
    BY DEF IsScan
  <2> QED
    BY <1>5, <2>1, <2>2, InPhase
<1>11. CASE UNCHANGED vars
  BY <1>11 DEF vars
<1> QED
  BY <1>1, <1>2, <1>3, <1>4, <1>7, <1>8, <1>9, <1>10, <1>11 DEF Next
-----------------------------------------------------------------------------
(* Pruning with zone maps.                                                 *)

\* The rows of the vectors up to v.
LEMMA VectorsInOrder ==
  ASSUME TableTypes, NEW v \in Nat
  PROVE  /\ \A r \in DOMAIN data : (r - 1) \div STANDARD_VECTOR_SIZE \in Nat
         /\ {r \in DOMAIN data : (r - 1) \div STANDARD_VECTOR_SIZE < v + 1}
               = {r \in DOMAIN data : (r - 1) \div STANDARD_VECTOR_SIZE < v} \cup Vector(v)
         /\ {r \in DOMAIN data : (r - 1) \div STANDARD_VECTOR_SIZE < 0} = {}
         /\ v * STANDARD_VECTOR_SIZE < Len(data) => v * STANDARD_VECTOR_SIZE + 1 \in Vector(v)
<1>1. STANDARD_VECTOR_SIZE \in Nat \ {0} /\ DOMAIN data = 1..Len(data) /\ Len(data) \in Nat
  BY ScanConstants DEF TableTypes
<1>2. ASSUME NEW r \in DOMAIN data PROVE (r - 1) \div STANDARD_VECTOR_SIZE \in Nat
  <2>1. r - 1 \in Nat
    BY <1>1
  <2> QED
    BY <1>1, <2>1
<1>3. \A r \in DOMAIN data : (r - 1) \div STANDARD_VECTOR_SIZE < v + 1
         <=> (r - 1) \div STANDARD_VECTOR_SIZE < v \/ (r - 1) \div STANDARD_VECTOR_SIZE = v
  BY <1>2
<1>4. ASSUME v * STANDARD_VECTOR_SIZE < Len(data)
      PROVE  v * STANDARD_VECTOR_SIZE + 1 \in Vector(v)
  <2>1. v * STANDARD_VECTOR_SIZE \in Nat
    BY <1>1
  <2>2. v * STANDARD_VECTOR_SIZE + 1 \in DOMAIN data
    BY <1>1, <1>4, <2>1
  <2>3. ((v * STANDARD_VECTOR_SIZE + 1) - 1) \div STANDARD_VECTOR_SIZE = v
    BY <1>1, <2>1
  <2> QED
    BY <2>2, <2>3 DEF Vector
<1> QED
  BY <1>2, <1>3, <1>4 DEF Vector

\* What CheckZonemap rejects has no qualifying row, old or updated.
LEMMA RejectedRows ==
  ASSUME TableTypes, NEW f \in Filter, NEW v \in Nat, Rejected(f, v), NEW r \in Vector(v)
  PROVE  ~ FilterHolds(f, Current(r))
<1> DEFINE a == -(2^(Width - 1))
           b == 2^(Width - 1) - 1
           values == {data[x] : x \in Vector(v)}
           newer  == {updates[x] : x \in DOMAIN updates}
<1>1. a \in Int /\ b \in Int /\ Value \subseteq a..b /\ IsFilter(f)
  BY SketchConstants, ScanConstants DEF Signed
<1>2. values \in SUBSET (a..b) /\ newer \in SUBSET (a..b) /\ r \in DOMAIN data
  BY <1>1, SMTT(30) DEF TableTypes, Vector
<1>3. data[r] \in values /\ (r \in DOMAIN updates => updates[r] \in newer)
  OBVIOUS
<1>4. /\ CheckStatistics(Min(values), Max(values), f) = "FILTER_ALWAYS_FALSE"
      /\ newer # {} => CheckStatistics(Min(newer), Max(newer), f) = "FILTER_ALWAYS_FALSE"
  BY DEF Rejected
<1> HIDE DEF a, b, values, newer
<1>5. ASSUME NEW S \in SUBSET (a..b), NEW x \in S,
             CheckStatistics(Min(S), Max(S), f) = "FILTER_ALWAYS_FALSE"
      PROVE  ~ FilterHolds(f, x)
  <2>1. /\ Min(S) \in S /\ \A y \in S : Min(S) <= y
        /\ Max(S) \in S /\ \A y \in S : y <= Max(S)
    BY <1>1, BoundsReached
  <2>i. S \subseteq Int
    BY <1>1
  <2>2. Min(S) \in Int /\ Max(S) \in Int /\ x \in Int /\ Min(S) <= x /\ x <= Max(S)
    BY <2>1, <2>i
  <2> QED
    BY <1>1, <1>5, <2>2, ZonemapFilter
<1>6. CASE r \in DOMAIN updates
  BY <1>2, <1>3, <1>4, <1>5, <1>6 DEF Current
<1>7. CASE r \notin DOMAIN updates
  BY <1>2, <1>3, <1>4, <1>5, <1>7 DEF Current
<1> QED
  BY <1>6, <1>7

\* A scan that has returned the qualifying rows among those it has seen.
Exact(q) == scan[q].rows = Qualifying(q) \cap Seen(q)

\* A scan that is exact and goes on by one vector, adding the vector's
\* qualifying rows, stays exact.
LEMMA ScanStepExact ==
  ASSUME TableTypes, NEW q \in Query, Going(q), ~ is_sketched, Exact(q),
         UNCHANGED <<data, updates, deleted>>,
         NEW new, scan' = [p \in Query |-> IF p = q THEN new ELSE scan[p]],
         new.filter = scan[q].filter, new.vector_index = scan[q].vector_index + 1,
         new.rows = scan[q].rows \cup (Qualifying(q) \cap Vector(scan[q].vector_index))
  PROVE  Exact(q)'
<1>1. scan'[q] = new /\ scan[q].vector_index \in Nat
  BY DEF Going
<1>2. Qualifying(q)' = Qualifying(q)
  BY <1>1 DEF Qualifying, Current
<1>3. Seen(q)' = Seen(q) \cup Vector(scan[q].vector_index)
  BY <1>1, VectorsInOrder DEF Seen
<1> QED
  BY <1>1, <1>2, <1>3 DEF Exact

\* The step of one scan leaves the rows of the others exact.
LEMMA OthersExact ==
  ASSUME TableTypes, NEW q \in Query, NEW p \in Query, p # q, Exact(p),
         UNCHANGED <<data, updates, deleted>>,
         NEW new, scan' = [x \in Query |-> IF x = q THEN new ELSE scan[x]]
  PROVE  Exact(p)'
<1>1. scan'[p] = scan[p]
  OBVIOUS
<1> QED
  BY <1>1 DEF Exact, Qualifying, Seen, Current

\* Every step keeps the scans of a table without sketches exact.
LEMMA NativeStep ==
  ASSUME TableTypes, NativeScanExact, Next
  PROVE  NativeScanExact'
<1> SUFFICES ASSUME ~ is_sketched', NEW p \in Query, scan'[p] # Idle
             PROVE  Exact(p)'
  BY DEF NativeScanExact, Scanning, Exact
<1>e. is_sketched' = is_sketched
  BY ZenonT(30) DEF Next, SketchAppend, Delete, Update, StartScan, CheckSketchSegments,
                    CheckZonemapSegments, ReadVector, EndScan
<1>x. scan[p] # Idle => Exact(p)
  BY <1>e DEF NativeScanExact, Scanning, Exact
<1>1. ASSUME NoScan, UNCHANGED scan PROVE FALSE
  BY <1>1 DEF NoScan
<1>2. ASSUME NEW q \in Query, NEW f \in Filter, StartScan(q, f) PROVE Exact(p)'
  <2> DEFINE new == [phase |-> "check", filter |-> f, vector_index |-> 0, rows |-> {}]
  <2>1. /\ UNCHANGED <<data, updates, deleted>>
        /\ scan' = [x \in Query |-> IF x = q THEN new ELSE scan[x]]
    BY <1>2 DEF StartScan, TableTypes
  <2>2. CASE p = q
    <3>1. scan'[q].rows = {} /\ scan'[q].vector_index = 0
      BY <2>1
    <3>2. Seen(q)' = {}
      BY <2>1, <3>1, VectorsInOrder DEF Seen
    <3> QED
      BY <2>2, <3>1, <3>2 DEF Exact
  <2>3. CASE p # q
    <3>1. scan[p] # Idle
      BY <2>1, <2>3
    <3> HIDE DEF new
    <3> QED
      BY <1>x, <2>1, <2>3, <3>1, OthersExact
  <2> QED
    BY <2>2, <2>3
<1>3. ASSUME NEW q \in Query, CheckZonemapSegments(q) PROVE Exact(p)'
  <2>1. /\ scan[q].phase = "check" /\ HasVector(q) /\ UNCHANGED <<data, updates, deleted>>
        /\ \/ scan' = ReadThis(q)
           \/ scan' = NextVector(q) /\ Rejected(scan[q].filter, scan[q].vector_index)
    BY <1>3 DEF CheckZonemapSegments
  <2>2. Going(q)
    BY <2>1, InPhase
  <2> DEFINE s == scan[q]
             a == [phase |-> "read", filter |-> s.filter, vector_index |-> s.vector_index, rows |-> s.rows]
             b == [phase |-> "check", filter |-> s.filter, vector_index |-> s.vector_index + 1, rows |-> s.rows]
  <2>3. CASE scan' = ReadThis(q)
    <3>1. scan' = [x \in Query |-> IF x = q THEN a ELSE scan[x]]
      BY <2>2, <2>3, ScanGoesOn
    <3>2. CASE p = q
      <4>1. scan'[q] = a /\ Exact(q)
        BY <1>x, <2>2, <3>1, <3>2 DEF Going
      <4>2. scan'[q].filter = s.filter /\ scan'[q].vector_index = s.vector_index /\ scan'[q].rows = s.rows
        BY <4>1
      <4> HIDE DEF a
      <4> QED
        BY <2>1, <3>2, <4>1, <4>2 DEF Exact, Qualifying, Seen, Current
    <3>3. CASE p # q
      <4>1. scan[p] # Idle
        BY <3>1, <3>3
      <4> HIDE DEF a
      <4> QED
        BY <1>x, <2>1, <3>1, <3>3, <4>1, OthersExact
    <3> QED
      BY <3>2, <3>3
  <2>4. CASE scan' = NextVector(q) /\ Rejected(scan[q].filter, scan[q].vector_index)
    <3>1. scan' = [x \in Query |-> IF x = q THEN b ELSE scan[x]]
      BY <2>2, <2>4, ScanGoesOn
    <3>2. CASE p = q
      <4>1. s.filter \in Filter /\ s.vector_index \in Nat
        BY <2>2 DEF Going
      <4>2. Qualifying(q) \cap Vector(s.vector_index) = {}
        BY <2>4, <4>1, RejectedRows DEF Qualifying
      <4>3. /\ b.filter = s.filter /\ b.vector_index = s.vector_index + 1
            /\ b.rows = s.rows \cup (Qualifying(q) \cap Vector(s.vector_index))
        BY <4>2
      <4>4. Exact(q)
        BY <1>x, <2>2, <3>2 DEF Going
      <4> HIDE DEF b
      <4> QED
        BY <1>e, <2>1, <2>2, <3>1, <3>2, <4>3, <4>4, ScanStepExact
    <3>3. CASE p # q
      <4>1. scan[p] # Idle
        BY <3>1, <3>3
      <4> HIDE DEF b
      <4> QED
        BY <1>x, <2>1, <3>1, <3>3, <4>1, OthersExact
    <3> QED
      BY <3>2, <3>3
  <2> QED
    BY <2>1, <2>3, <2>4
<1>4. ASSUME NEW q \in Query, ReadVector(q) PROVE Exact(p)'
  <2>1. scan[q].phase = "read" /\ UNCHANGED <<data, updates, deleted>>
    BY <1>4 DEF ReadVector
  <2>2. Going(q)
    BY <2>1, InPhase
  <2> DEFINE s == scan[q]
             b == [phase |-> "check", filter |-> s.filter, vector_index |-> s.vector_index + 1,
                   rows |-> s.rows \cup Picked(q)]
  <2>3. scan' = [x \in Query |-> IF x = q THEN b ELSE scan[x]]
    BY <1>4, RowsAdded
  <2>4. CASE p = q
    <3>1. Picked(q) = Qualifying(q) \cap Vector(s.vector_index)
      BY <1>e DEF Picked, Qualifying, Vector
    <3>2. /\ b.filter = s.filter /\ b.vector_index = s.vector_index + 1
          /\ b.rows = s.rows \cup (Qualifying(q) \cap Vector(s.vector_index))
      BY <3>1
    <3>3. Exact(q)
      BY <1>x, <2>2, <2>4 DEF Going
    <3> HIDE DEF b
    <3> QED
      BY <1>e, <2>1, <2>2, <2>3, <2>4, <3>2, <3>3, ScanStepExact
  <2>5. CASE p # q
    <3>1. scan[p] # Idle
      BY <2>3, <2>5
    <3> HIDE DEF b
    <3> QED
      BY <1>x, <2>1, <2>3, <2>5, <3>1, OthersExact
  <2> QED
    BY <2>4, <2>5
<1>5. ASSUME NEW q \in Query, EndScan(q) PROVE Exact(p)'
  <2>1. /\ UNCHANGED <<data, updates, deleted>>
        /\ scan' = [x \in Query |-> IF x = q THEN Idle ELSE scan[x]]
    BY <1>5 DEF EndScan, TableTypes
  <2>2. p # q /\ scan[p] # Idle
    BY <2>1
  <2> QED
    BY <1>x, <2>1, <2>2, OthersExact
<1>6. ASSUME NEW q \in Query, CheckSketchSegments(q) PROVE FALSE
  BY <1>e, <1>6 DEF CheckSketchSegments
<1>7. CASE \E n \in ChunkSize : \E chunk \in [1..n -> Value] : SketchAppend(chunk)
  BY <1>1, <1>7 DEF SketchAppend
<1>8. CASE \E r \in DOMAIN data : Delete(r)
  BY <1>1, <1>8 DEF Delete
<1>9. CASE \E r \in DOMAIN data, v \in Value : Update(r, v)
  BY <1>1, <1>9 DEF Update
<1> QED
  BY <1>2, <1>3, <1>4, <1>5, <1>6, <1>7, <1>8, <1>9 DEF Next

\* CheckZonemapSegments and Select together: for any table, filters and history
\* of updates and deletes, a scan without sketches returns exactly the rows that
\* satisfy its filter, vector by vector.
THEOREM ZonemapsChangeNoResult == Spec => []NativeScanExact
<1>1. Init => TableTypes /\ NativeScanExact
  <2>1. Init => Scanning = {}
    BY DEF Init, Scanning
  <2> QED
    BY <2>1, TypesInit DEF NativeScanExact
<1>2. TableTypes /\ NativeScanExact /\ [Next]_vars => (TableTypes /\ NativeScanExact)'
  <2> SUFFICES ASSUME TableTypes, NativeScanExact, [Next]_vars PROVE TableTypes' /\ NativeScanExact'
    OBVIOUS
  <2>1. CASE UNCHANGED vars
    BY <2>1, TypesStep DEF vars, NativeScanExact, Scanning, Qualifying, Seen, Current
  <2> QED
    BY <2>1, TypesStep, NativeStep
<1> QED
  BY <1>1, <1>2, PTL DEF Spec
-----------------------------------------------------------------------------
(* Building a sketch.                                                      *)

\* Positions of values below x, and of values up to x.
Below(e, x) == {i \in DOMAIN e : e[i] < x}
UpTo(e, x)  == {i \in DOMAIN e : e[i] <= x}

\* Counts of positions.
LEMMA Counts ==
  ASSUME NEW n \in Nat, NEW S \in SUBSET (1..n)
  PROVE  /\ IsFiniteSet(S) /\ Cardinality(S) \in 0..n
         /\ Cardinality(S) = 0 <=> S = {}
         /\ Cardinality(S) = n <=> S = 1..n
         /\ \A T \in SUBSET S : Cardinality(T) <= Cardinality(S)
         /\ \A T \in SUBSET S : T # S => Cardinality(T) < Cardinality(S)
<1>1. IsFiniteSet(1..n) /\ Cardinality(1..n) = n
  <2>1. IsFiniteSet(1..n) /\ Cardinality(1..n) = IF 1 > n THEN 0 ELSE n - 1 + 1
    BY FS_Interval
  <2> QED
    BY <2>1
<1>2. /\ IsFiniteSet(S) /\ Cardinality(S) <= n /\ Cardinality(S) \in Nat
      /\ Cardinality(S) = n => S = 1..n
  BY <1>1, FS_Subset, FS_CardinalityType
<1>3. Cardinality(S) = 0 <=> S = {}
  BY <1>2, FS_EmptySet
<1>4. ASSUME NEW T \in SUBSET S
      PROVE  /\ Cardinality(T) <= Cardinality(S)
             /\ T # S => Cardinality(T) < Cardinality(S)
  <2>1. /\ IsFiniteSet(T) /\ Cardinality(T) <= Cardinality(S)
        /\ Cardinality(S) = Cardinality(T) => S = T
    BY <1>2, FS_Subset
  <2>2. Cardinality(T) \in Nat
    BY <2>1, FS_CardinalityType
  <2> QED
    BY <1>2, <2>1, <2>2
<1> QED
  BY <1>1, <1>2, <1>3, <1>4

\* std::sort: there is a k-th smallest value.
LEMMA KthSmallest ==
  ASSUME NEW n \in Nat \ {0}, NEW M \in Nat, NEW base \in [1..n -> 0..M], NEW k \in 1..n
  PROVE  /\ Sorted(base)[k] \in ToSet(base)
         /\ Cardinality(Below(base, Sorted(base)[k])) < k
         /\ Cardinality(UpTo(base, Sorted(base)[k])) >= k
<1> DEFINE V == ToSet(base)
           T == {x \in V : Cardinality(UpTo(base, x)) >= k}
<1>1. V = {base[i] : i \in 1..n} /\ V \in SUBSET (0..M) /\ V # {}
  BY DEF ToSet
<1>2. \A x : UpTo(base, x) \in SUBSET (1..n) /\ Below(base, x) \in SUBSET (1..n)
  BY DEF UpTo, Below
<1>c. \A x : Cardinality(UpTo(base, x)) \in Nat
  BY <1>2, Counts
<1> HIDE DEF V
<1>3. Max(V) \in V /\ \A x \in V : x <= Max(V)
  BY <1>1, MaxIsGreatest
<1>4. UpTo(base, Max(V)) = 1..n
  BY <1>1, <1>3 DEF UpTo
<1>5. Max(V) \in T
  <2>1. Cardinality(1..n) = n
    BY Counts
  <2> QED
    BY <1>3, <1>4, <2>1
<1>6. T \in SUBSET Nat /\ T \in SUBSET V
  BY <1>1
<1>7. Min(T) \in T /\ \A x \in T : Min(T) <= x
  BY <1>5, <1>6, MinIsLeast
<1> DEFINE m == Min(T)
           L == {x \in V : x < m}
<1>t. \A x \in T : Cardinality(UpTo(base, x)) >= k
  OBVIOUS
<1>u. \A x \in V : x \notin T => ~ (Cardinality(UpTo(base, x)) >= k)
  OBVIOUS
<1> HIDE DEF T
<1>8. m \in V /\ m \in Nat /\ Cardinality(UpTo(base, m)) >= k
  BY <1>6, <1>7, <1>t
<1>9. Cardinality(Below(base, m)) < k
  <2> HIDE DEF m
  <2>1. CASE L = {}
    <3>1. Below(base, m) = {}
      BY <1>1, <2>1 DEF Below
    <3> QED
      BY <3>1, FS_EmptySet
  <2>2. CASE L # {}
    <3>1. L \in SUBSET (0..M)
      BY <1>1
    <3>2. Max(L) \in L /\ \A x \in L : x <= Max(L)
      BY <2>2, <3>1, MaxIsGreatest
    <3>3. Max(L) \in V /\ Max(L) < m /\ Max(L) \in Nat
      BY <3>1, <3>2
    <3>4. Max(L) \notin T
      <4>1. \A x \in T : m <= x
        BY <1>7 DEF m
      <4> HIDE DEF L
      <4> QED
        BY <1>8, <3>3, <4>1
    <3>5. Below(base, m) = UpTo(base, Max(L))
      <4>1. ASSUME NEW i \in 1..n PROVE base[i] < m <=> base[i] <= Max(L)
        <5>1. base[i] \in V /\ base[i] \in Nat
          BY <1>1
        <5>2. base[i] < m => base[i] <= Max(L)
          BY <3>2, <5>1
        <5> HIDE DEF L
        <5> QED
          BY <1>8, <3>3, <5>1, <5>2
      <4> QED
        BY <4>1 DEF Below, UpTo
    <3>6. ~ (Cardinality(UpTo(base, Max(L))) >= k)
      BY <1>u, <3>3, <3>4
    <3> QED
      BY <1>c, <3>5, <3>6
  <2> QED
    BY <2>1, <2>2
<1> HIDE DEF m
<1>10. \E x \in V : /\ Cardinality({i \in DOMAIN base : base[i] < x}) < k
                    /\ Cardinality({i \in DOMAIN base : base[i] <= x}) >= k
  BY <1>8, <1>9 DEF Below, UpTo
<1>11. Sorted(base)[k] = CHOOSE x \in V : /\ Cardinality({i \in DOMAIN base : base[i] < x}) < k
                                          /\ Cardinality({i \in DOMAIN base : base[i] <= x}) >= k
  BY DEF Sorted, V
<1>12. /\ Sorted(base)[k] \in V
       /\ Cardinality({i \in DOMAIN base : base[i] < Sorted(base)[k]}) < k
       /\ Cardinality({i \in DOMAIN base : base[i] <= Sorted(base)[k]}) >= k
  BY <1>10, <1>11
<1> QED
  BY <1>12 DEF V, Below, UpTo

\* The sorted sample begins and ends with the smallest and the largest value.
LEMMA SortedEnds ==
  ASSUME NEW n \in Nat \ {0}, NEW M \in Nat, NEW base \in [1..n -> 0..M]
  PROVE  /\ Sorted(base) \in [1..n -> 0..M]
         /\ \A i \in 1..n : Sorted(base)[1] <= base[i] /\ base[i] <= Sorted(base)[n]
<1>1. \A k \in 1..n : Sorted(base)[k] \in 0..M
  <2> SUFFICES ASSUME NEW k \in 1..n PROVE Sorted(base)[k] \in 0..M
    OBVIOUS
  <2>1. Sorted(base)[k] \in ToSet(base)
    BY KthSmallest
  <2> QED
    BY <2>1 DEF ToSet
<1>2. DOMAIN Sorted(base) = 1..n /\ Sorted(base) = [k \in 1..n |-> Sorted(base)[k]]
  <2>1. DOMAIN base = 1..n
    OBVIOUS
  <2>2. DOMAIN Sorted(base) = DOMAIN base
    BY DEF Sorted
  <2>3. Sorted(base) = [k \in DOMAIN base |-> Sorted(base)[k]]
    <3> DEFINE e(k) == CHOOSE x \in ToSet(base) :
                          /\ Cardinality({i \in DOMAIN base : base[i] < x}) < k
                          /\ Cardinality({i \in DOMAIN base : base[i] <= x}) >= k
    <3>1. Sorted(base) = [k \in DOMAIN base |-> e(k)]
      BY Zenon DEF Sorted
    <3> HIDE DEF e
    <3> QED
      BY <3>1
  <2> QED
    BY <2>1, <2>2, <2>3
<1>3. 1 \in 1..n /\ n \in 1..n
  OBVIOUS
<1>4. ASSUME NEW i \in 1..n PROVE Sorted(base)[1] <= base[i]
  <2> DEFINE x == Sorted(base)[1]
  <2>1. Cardinality(Below(base, x)) < 1 /\ x \in 0..M
    BY <1>1, <1>3, KthSmallest
  <2> HIDE DEF x
  <2>2. Below(base, x) \in SUBSET (1..n)
    BY DEF Below
  <2>3. Below(base, x) = {}
    BY <2>1, <2>2, Counts
  <2>4. ~ (base[i] < x)
    BY <2>3 DEF Below
  <2> QED
    BY <2>1, <2>4 DEF x
<1>5. ASSUME NEW i \in 1..n PROVE base[i] <= Sorted(base)[n]
  <2> DEFINE x == Sorted(base)[n]
  <2>1. Cardinality(UpTo(base, x)) >= n
    BY <1>3, KthSmallest
  <2> HIDE DEF x
  <2>2. UpTo(base, x) \in SUBSET (1..n)
    BY DEF UpTo
  <2>3. UpTo(base, x) = 1..n
    BY <2>1, <2>2, Counts
  <2> QED
    BY <2>3 DEF UpTo, x
<1> QED
  BY <1>1, <1>2, <1>4, <1>5

\* What the constructor guarantees: n values, m codes, the last of which is
\* that of the largest value.
MaxBase == 2^Width - 1

SketchOf(s, n, m) ==
  /\ n \in Nat \ {0} /\ m \in 1..n /\ m <= Codes
  /\ s.base_data \in [1..n -> 0..MaxBase] /\ s.endpoints \in [1..m -> 0..MaxBase]
  /\ \A i \in 1..n : s.sketch[i] = Code(s.endpoints, s.base_data[i])
  /\ s.need_check_base \in BOOLEAN
  /\ s.min_data \in Nat /\ s.max_data \in Nat
  /\ \A i \in 1..n : s.min_data <= s.base_data[i] /\ s.base_data[i] <= s.max_data
  /\ s.endpoints[m] = s.max_data

\* The constructor of column_sketch.hpp builds a sketch of the shape that the
\* lemmas below start from.
LEMMA Built ==
  ASSUME NEW n \in Nat \ {0}, NEW base \in [1..n -> 0..MaxBase]
  PROVE  \E m : SketchOf(BuildSketch(base), n, m) /\ BuildSketch(base).base_data = base
<1> DEFINE m == Min({Len(base), Codes})
           e == Endpoints(Sorted(base), m)
           s == BuildSketch(base)
<1>1. MaxBase \in Nat
  BY SketchConstants DEF MaxBase
<1>2. /\ Sorted(base) \in [1..n -> 0..MaxBase] /\ Len(base) = n /\ Len(Sorted(base)) = n
      /\ \A i \in 1..n : Sorted(base)[1] <= base[i] /\ base[i] <= Sorted(base)[n]
  <2>1. Sorted(base) \in [1..n -> 0..MaxBase]
    BY <1>1, SortedEnds
  <2>2. Len(base) = n /\ Len(Sorted(base)) = n
    BY <2>1
  <2> QED
    BY <1>1, <2>1, <2>2, SortedEnds
<1>3. m \in 1..n /\ m <= Codes /\ m \in Nat \ {0}
  <2>1. {n, Codes} \in SUBSET Nat
    BY SketchConstants
  <2>2. Min({n, Codes}) \in {n, Codes} /\ \A x \in {n, Codes} : Min({n, Codes}) <= x
    BY <2>1, MinIsLeast
  <2>3. m = Min({n, Codes})
    BY <1>2
  <2> HIDE DEF m
  <2> QED
    BY <2>2, <2>3, SketchConstants
<1>4. s = [base_data       |-> base,
           endpoints       |-> e,
           sketch          |-> [i \in DOMAIN base |-> Code(e, base[i])],
           need_check_base |-> Cardinality(ToSet(base)) > m,
           min_data        |-> Sorted(base)[1],
           max_data        |-> Sorted(base)[Len(Sorted(base))]]
  BY DEF BuildSketch
<1> HIDE DEF m, s
<1>5. e = [i \in 1..m |-> Sorted(base)[(i * n) \div m]]
  BY <1>2 DEF Endpoints
<1>6. \A i \in 1..m : (i * n) \div m \in 1..n
  <2> SUFFICES ASSUME NEW i \in 1..m PROVE (i * n) \div m \in 1..n
    OBVIOUS
  <2>1. i \in Nat \ {0} /\ i <= m /\ m <= n
    BY <1>3
  <2> QED
    BY <1>3, <2>1
<1>7. (m * n) \div m = n
  BY <1>3
<1>8. e \in [1..m -> 0..MaxBase] /\ e[m] = Sorted(base)[n]
  <2>1. \A i \in 1..m : Sorted(base)[(i * n) \div m] \in 0..MaxBase
    BY <1>2, <1>6
  <2> HIDE DEF e
  <2>2. e \in [1..m -> 0..MaxBase]
    BY <1>5, <2>1
  <2>3. e[m] = Sorted(base)[(m * n) \div m]
    BY <1>3, <1>5
  <2> QED
    BY <1>7, <2>2, <2>3
<1> HIDE DEF e
<1>9. /\ s.base_data = base /\ s.endpoints = e
      /\ \A i \in 1..n : s.sketch[i] = Code(s.endpoints, s.base_data[i])
      /\ s.need_check_base = (Cardinality(ToSet(base)) > m)
      /\ s.min_data = Sorted(base)[1] /\ s.max_data = Sorted(base)[n]
  BY <1>2, <1>4
<1>10. Sorted(base)[1] \in Nat /\ Sorted(base)[n] \in Nat /\ s.need_check_base \in BOOLEAN
  BY <1>1, <1>2, <1>9
<1>11. SketchOf(s, n, m)
  BY <1>2, <1>3, <1>8, <1>9, <1>10 DEF SketchOf
<1> QED
  BY <1>9, <1>11 DEF s

\* Codes of values and operands up to the largest value are not cut, and they
\* keep the order; two have different codes if an endpoint parts them.
LEMMA CodeOrder ==
  ASSUME NEW s, NEW n, NEW m, SketchOf(s, n, m), NEW x \in Nat, NEW y \in Nat
  PROVE  LET e == s.endpoints IN
         /\ lower_bound(e, x) \in Nat /\ Code(e, x) \in Nat /\ Code(e, x) <= lower_bound(e, x)
         /\ x <= s.max_data => Code(e, x) = lower_bound(e, x)
         /\ x <= y => lower_bound(e, x) <= lower_bound(e, y)
         /\ x <= y => (lower_bound(e, x) < lower_bound(e, y) <=> \E z \in ToSet(e) : x <= z /\ z < y)
<1> DEFINE e == s.endpoints
<1>0. /\ m \in Nat \ {0} /\ m <= Codes /\ Codes \in Nat \ {0}
      /\ e \in [1..m -> 0..MaxBase] /\ e[m] = s.max_data /\ s.max_data \in Nat
      /\ \A i \in 1..m : e[i] \in Nat
  <2>1. MaxBase \in Nat
    BY SketchConstants DEF MaxBase
  <2> QED
    BY <2>1, SketchConstants DEF SketchOf
<1> HIDE DEF e
<1>1. \A z : lower_bound(e, z) = Cardinality(Below(e, z)) /\ Below(e, z) \in SUBSET (1..m)
  BY <1>0 DEF lower_bound, Below
<1>2. \A z : lower_bound(e, z) \in 0..m
  BY <1>0, <1>1, Counts
<1>3. Code(e, x) \in Nat /\ Code(e, x) <= lower_bound(e, x)
  <2>1. \A k \in Nat : k % Codes \in Nat /\ k % Codes <= k
    BY <1>0
  <2> QED
    BY <1>0, <1>2, <2>1 DEF Code
<1>4. ASSUME x <= s.max_data PROVE Code(e, x) = lower_bound(e, x)
  <2>1. m \notin Below(e, x)
    BY <1>0, <1>4 DEF Below
  <2>2. Below(e, x) # 1..m
    BY <1>0, <2>1
  <2>3. lower_bound(e, x) < m
    BY <1>0, <1>1, <1>2, <2>2, Counts
  <2>4. \A k \in 0..Codes - 1 : k % Codes = k
    BY <1>0
  <2> QED
    BY <1>0, <1>2, <2>3, <2>4 DEF Code
<1>5. ASSUME x <= y PROVE Below(e, x) \in SUBSET Below(e, y)
  BY <1>0, <1>5 DEF Below
<1>6. ASSUME x <= y PROVE lower_bound(e, x) <= lower_bound(e, y)
  BY <1>0, <1>1, <1>5, <1>6, Counts
<1>7. ASSUME x <= y, NEW z \in ToSet(e), x <= z, z < y PROVE lower_bound(e, x) < lower_bound(e, y)
  <2>1. PICK i \in 1..m : e[i] = z
    BY <1>0, <1>7 DEF ToSet
  <2>2. i \in Below(e, y) /\ i \notin Below(e, x)
    BY <1>0, <1>7, <2>1 DEF Below
  <2>3. Below(e, x) \in SUBSET Below(e, y) /\ Below(e, x) # Below(e, y)
    BY <1>5, <1>7, <2>2
  <2> QED
    BY <1>0, <1>1, <2>3, Counts
<1>8. ASSUME x <= y, ~ \E z \in ToSet(e) : x <= z /\ z < y
      PROVE  lower_bound(e, x) = lower_bound(e, y)
  <2>1. \A i \in 1..m : e[i] \in ToSet(e)
    BY <1>0 DEF ToSet
  <2>2. Below(e, x) = Below(e, y)
    BY <1>0, <1>8, <2>1 DEF Below
  <2> QED
    BY <1>1, <2>2
<1>9. ASSUME x <= y
      PROVE  lower_bound(e, x) < lower_bound(e, y) <=> \E z \in ToSet(e) : x <= z /\ z < y
  BY <1>2, <1>7, <1>8, <1>9
<1> QED
  BY <1>2, <1>3, <1>4, <1>6, <1>9 DEF e
-----------------------------------------------------------------------------
(* The checks leave selections of rows of the chunk.                       *)

SelOf(D)   == [bitmask : SUBSET D, rows : SUBSET D]
Checked(D) == [msel : SelOf(D), result : Results]
Merging(D) == [msel : SelOf(D), result : Results, merged : SUBSET D, n : Nat]

\* A comparison on the sketch leaves a selection of the vector's rows.
LEMMA LeafSelects ==
  ASSUME NEW D, NEW s, DOMAIN s.base_data = D, NEW msel \in SelOf(D), NEW f, IsLeaf(f)
  PROVE  CheckSketchLeaf(s, f, msel) \in Checked(D)
<1> USE DEF SelOf, Checked, Results
<1>1. ASSUME NEW x PROVE evaluate_less_than_AVX512(s, x, msel).msel \in SelOf(D)
  BY DEF evaluate_less_than_AVX512, Select
<1>2. ASSUME NEW x PROVE evaluate_greater_than_AVX512(s, x, msel).msel \in SelOf(D)
  BY DEF evaluate_greater_than_AVX512, Select
<1>3. ASSUME NEW r, r.msel \in SelOf(D) PROVE PruneResult(s, r) \in Checked(D)
  BY <1>3 DEF PruneResult
<1>4. CASE f.type # "constant"
  BY <1>4 DEF CheckSketchLeaf
<1>5. CASE f.type = "constant"
  <2> DEFINE o == f.op
             x == Unsigned(f.c)
             l(y) == PruneResult(s, evaluate_less_than_AVX512(s, y, msel))
             g(y) == PruneResult(s, evaluate_greater_than_AVX512(s, y, msel))
  <2>1. \A y : l(y) \in Checked(D) /\ g(y) \in Checked(D)
    BY <1>1, <1>2, <1>3
  <2>2. CheckSketchLeaf(s, f, msel) = CheckSketch(s, o, f.c, msel) /\ o \in Comparison
    BY <1>5 DEF CheckSketchLeaf, IsLeaf
  <2> HIDE DEF o
  <2>3. CASE o \in {"=", "!="}
    BY <2>2, <2>3 DEF CheckSketch
  <2>4. CASE o = ">="
    <3>1. CheckSketch(s, o, f.c, msel) = g(Unsigned(x - 1))
      BY <2>4 DEF CheckSketch
    <3> QED
      BY <2>1, <2>2, <3>1
  <2>5. CASE o = ">"
    <3>1. CheckSketch(s, o, f.c, msel) = g(x)
      BY <2>5 DEF CheckSketch
    <3> QED
      BY <2>1, <2>2, <3>1
  <2>6. CASE o = "<="
    <3>1. CheckSketch(s, o, f.c, msel) = l(Unsigned(x + 1))
      BY <2>6 DEF CheckSketch
    <3> QED
      BY <2>1, <2>2, <3>1
  <2>7. CASE o = "<"
    <3>1. CheckSketch(s, o, f.c, msel) = l(x)
      BY <2>7 DEF CheckSketch
    <3> QED
      BY <2>1, <2>2, <3>1
  <2> QED
    BY <2>2, <2>3, <2>4, <2>5, <2>6, <2>7 DEF Comparison
<1> QED
  BY <1>4, <1>5

\* One round of the loops over the children of OR and AND.
OrStep(s, acc, f) ==
  IF acc.result = "FILTER_ALWAYS_FALSE" THEN CheckSketchLeaf(s, f, acc.msel) ELSE acc

AndStep(s, acc, f) ==
  IF acc.result = "FILTER_ALWAYS_FALSE" THEN acc
  ELSE LET r == CheckSketchChild(s, f, acc.msel) IN
       [msel   |-> r.msel,
        result |-> IF r.result \in {"FILTER_ALWAYS_FALSE", acc.result} THEN r.result
                   ELSE "NO_PRUNING_POSSIBLE",
        merged |-> IF f.type = "constant"
                   THEN MergeMask(acc.n = 0, acc.merged, r.msel.bitmask)
                   ELSE acc.merged,
        n      |-> IF f.type = "constant" THEN acc.n + 1 ELSE acc.n]

AndEnd(end) ==
  [result |-> end.result,
   msel   |-> IF end.result # "FILTER_ALWAYS_FALSE" /\ end.n # 1
              THEN Select(end.merged) ELSE end.msel]

\* The loop of an OR: w[k] is what has been accumulated after k children.
OrLoop(w, n, D, s, fs, msel) ==
  /\ w \in [0..n -> Checked(D)]
  /\ w[0] = [msel |-> msel, result |-> "FILTER_ALWAYS_FALSE"]
  /\ \A k \in 1..n : w[k] = OrStep(s, w[k - 1], fs[k])
  /\ CheckSketchOr(s, fs, msel) = w[n]

\* The loop over the children of an OR goes through results and selections.
LEMMA SketchOrWay ==
  ASSUME NEW D, NEW s, DOMAIN s.base_data = D, NEW msel \in SelOf(D),
         NEW fs, NEW n \in Nat, DOMAIN fs = 1..n, \A i \in 1..n : IsLeaf(fs[i])
  PROVE  \E w : OrLoop(w, n, D, s, fs, msel)
<1> DEFINE A == Checked(D)
           base == [msel |-> msel, result |-> "FILTER_ALWAYS_FALSE"]
           E(it) == [S \in SUBSET DOMAIN fs |->
                        IF S = {} THEN base ELSE OrStep(s, it[S \ {Max(S)}], fs[Max(S)])]
           F == [p \in (1..n) \X A |-> OrStep(s, p[2], fs[p[1]])]
           z == CHOOSE x : x = E(x)
<1>1. CheckSketchOr(s, fs, msel) = z[DOMAIN fs]
  BY Zenon DEF CheckSketchOr, FoldLeft, MapThenFoldSet, OrStep
<1>2. base \in A
  BY DEF SelOf, Checked, Results, Merging
<1>3. \A k \in 1..n, a \in A : OrStep(s, a, fs[k]) \in A
  <2> SUFFICES ASSUME NEW k \in 1..n, NEW a \in A PROVE OrStep(s, a, fs[k]) \in A
    OBVIOUS
  <2>1. a.msel \in SelOf(D)
    BY DEF Checked
  <2>2. CheckSketchLeaf(s, fs[k], a.msel) \in A
    BY <2>1, LeafSelects
  <2> QED
    BY <2>2 DEF OrStep
<1> HIDE DEF A, base
<1>4. F \in [(1..n) \X A -> A]
  BY <1>3
<1>5. PICK it \in [SUBSET (1..n) -> A] : Solves(it, n, base, F)
  BY <1>2, <1>4, FoldSolution
<1>6. it = E(it)
  <2>1. ASSUME NEW S \in SUBSET (1..n), S # {}
        PROVE  F[<<Max(S), it[S \ {Max(S)}]>>] = OrStep(s, it[S \ {Max(S)}], fs[Max(S)])
    <3>1. Max(S) \in 1..n
      <4>1. S \in SUBSET (0..n)
        OBVIOUS
      <4> QED
        BY <2>1, <4>1, MaxIsGreatest
    <3>2. <<Max(S), it[S \ {Max(S)}]>> \in (1..n) \X A
      BY <3>1
    <3> QED
      BY <3>2
  <2> HIDE DEF F
  <2>2. it = [S \in SUBSET (1..n) |-> IF S = {} THEN base ELSE F[<<Max(S), it[S \ {Max(S)}]>>]]
    BY <1>5 DEF Solves
  <2>3. \A S \in SUBSET (1..n) : (IF S = {} THEN base ELSE F[<<Max(S), it[S \ {Max(S)}]>>])
                = IF S = {} THEN base ELSE OrStep(s, it[S \ {Max(S)}], fs[Max(S)])
    BY <2>1
  <2> QED
    BY <2>2, <2>3, Zenon
<1>7. z = E(z)
  BY <1>6
<1> HIDE DEF F, z
<1>8. z[1..0] = base
  BY <1>7
<1>9. ASSUME NEW k \in 1..n PROVE z[1..k] = OrStep(s, z[1..k - 1], fs[k])
  <2>1. 1..k \in SUBSET (1..n) /\ 1..k # {} /\ k \in Nat \ {0} /\ (1..k) \ {k} = 1..k - 1
    OBVIOUS
  <2>2. Max(1..k) = k
    BY <2>1, MaxOfInterval
  <2>3. z[1..k] = OrStep(s, z[(1..k) \ {Max(1..k)}], fs[Max(1..k)])
    BY <1>7, <2>1
  <2> QED
    BY <2>1, <2>2, <2>3
<1>10. \A k \in 1..n : z[1..k - 1] \in A => z[1..k] = F[<<k, z[1..k - 1]>>]
  BY <1>9 DEF F
<1>11. GoesThrough(z, n, A, base, F)
  BY <1>8, <1>10 DEF GoesThrough
<1>12. PICK w : Way(w, n, A, base, F, z[1..n])
  BY <1>2, <1>4, <1>11, FoldWay
<1>13. ASSUME NEW k \in 1..n PROVE w[k] = OrStep(s, w[k - 1], fs[k])
  <2>1. k - 1 \in 0..n
    OBVIOUS
  <2>2. w[k - 1] \in A /\ w[k] = F[<<k, w[k - 1]>>]
    BY <1>12, <2>1 DEF Way
  <2> QED
    BY <2>2 DEF F
<1>14. w \in [0..n -> A] /\ w[0] = base /\ w[n] = z[1..n]
  BY <1>12 DEF Way
<1>15. CheckSketchOr(s, fs, msel) = w[n]
  BY <1>1, <1>14
<1> QED
  BY <1>13, <1>14, <1>15 DEF A, base, OrLoop

\* A child of a conjunction leaves a selection of the vector's rows.
LEMMA ChildSelects ==
  ASSUME NEW D, NEW s, DOMAIN s.base_data = D, NEW msel \in SelOf(D), NEW f, IsChild(f)
  PROVE  CheckSketchChild(s, f, msel) \in Checked(D)
<1>1. CASE f.type # "or"
  BY <1>1, LeafSelects DEF CheckSketchChild, IsChild
<1>2. CASE f.type = "or"
  <2> DEFINE n == Len(f.children)
  <2>1. n \in Nat /\ DOMAIN f.children = 1..n /\ \A i \in 1..n : IsLeaf(f.children[i])
    BY <1>2 DEF IsChild, IsLeaf, IsList
  <2> HIDE DEF n
  <2>2. PICK w : OrLoop(w, n, D, s, f.children, msel)
    BY <2>1, SketchOrWay
  <2> QED
    BY <1>2, <2>1, <2>2 DEF CheckSketchChild, OrLoop
<1> QED
  BY <1>1, <1>2

\* The loop of an AND: w[k] is what has been accumulated after k children.
AndLoop(w, n, D, s, fs, msel) ==
  /\ w \in [0..n -> Merging(D)]
  /\ w[0] = [msel |-> msel, result |-> "FILTER_ALWAYS_TRUE", merged |-> {}, n |-> 0]
  /\ \A k \in 1..n : w[k] = AndStep(s, w[k - 1], fs[k])
  /\ CheckSketchAnd(s, fs, msel) = AndEnd(w[n])

\* The loop of ConjunctionAndFilter::CheckSketchStatistics goes through merged
\* selections of the vector's rows.
LEMMA SketchAndWay ==
  ASSUME NEW D, NEW s, DOMAIN s.base_data = D, NEW msel \in SelOf(D),
         NEW fs, NEW n \in Nat, DOMAIN fs = 1..n, \A i \in 1..n : IsChild(fs[i])
  PROVE  \E w : AndLoop(w, n, D, s, fs, msel)
<1> DEFINE A == Merging(D)
           base == [msel |-> msel, result |-> "FILTER_ALWAYS_TRUE", merged |-> {}, n |-> 0]
           E(it) == [S \in SUBSET DOMAIN fs |->
                        IF S = {} THEN base ELSE AndStep(s, it[S \ {Max(S)}], fs[Max(S)])]
           F == [p \in (1..n) \X A |-> AndStep(s, p[2], fs[p[1]])]
           z == CHOOSE x : x = E(x)
<1>1. CheckSketchAnd(s, fs, msel) = AndEnd(z[DOMAIN fs])
  BY Zenon DEF CheckSketchAnd, FoldLeft, MapThenFoldSet, AndStep, AndEnd
<1>2. base \in A
  BY DEF SelOf, Checked, Results, Merging
<1>3. \A k \in 1..n, a \in A : AndStep(s, a, fs[k]) \in A
  <2> SUFFICES ASSUME NEW k \in 1..n, NEW a \in A PROVE AndStep(s, a, fs[k]) \in A
    OBVIOUS
  <2> DEFINE r == CheckSketchChild(s, fs[k], a.msel)
  <2>1. a.msel \in SelOf(D) /\ a.merged \in SUBSET D /\ a.n \in Nat /\ a.result \in Results
    BY DEF Merging
  <2>2. r \in Checked(D)
    BY <2>1, ChildSelects
  <2>3. r.msel \in SelOf(D) /\ r.msel.bitmask \in SUBSET D /\ r.result \in Results
    BY <2>2 DEF Checked, SelOf
  <2> DEFINE new == [msel   |-> r.msel,
                     result |-> IF r.result \in {"FILTER_ALWAYS_FALSE", a.result} THEN r.result
                                ELSE "NO_PRUNING_POSSIBLE",
                     merged |-> IF fs[k].type = "constant"
                                THEN MergeMask(a.n = 0, a.merged, r.msel.bitmask)
                                ELSE a.merged,
                     n      |-> IF fs[k].type = "constant" THEN a.n + 1 ELSE a.n]
  <2>4. AndStep(s, a, fs[k]) = IF a.result = "FILTER_ALWAYS_FALSE" THEN a ELSE new
    BY DEF AndStep
  <2> HIDE DEF r
  <2>5. new \in A
    BY <2>1, <2>3 DEF Merging, MergeMask, Results
  <2> QED
    BY <2>4, <2>5
<1> HIDE DEF A, base
<1>4. F \in [(1..n) \X A -> A]
  BY <1>3
<1>5. PICK it \in [SUBSET (1..n) -> A] : Solves(it, n, base, F)
  BY <1>2, <1>4, FoldSolution
<1>6. it = E(it)
  <2>1. ASSUME NEW S \in SUBSET (1..n), S # {}
        PROVE  F[<<Max(S), it[S \ {Max(S)}]>>] = AndStep(s, it[S \ {Max(S)}], fs[Max(S)])
    <3>1. Max(S) \in 1..n
      <4>1. S \in SUBSET (0..n)
        OBVIOUS
      <4> QED
        BY <2>1, <4>1, MaxIsGreatest
    <3>2. <<Max(S), it[S \ {Max(S)}]>> \in (1..n) \X A
      BY <3>1
    <3> QED
      BY <3>2
  <2> HIDE DEF F
  <2>2. it = [S \in SUBSET (1..n) |-> IF S = {} THEN base ELSE F[<<Max(S), it[S \ {Max(S)}]>>]]
    BY <1>5 DEF Solves
  <2>3. \A S \in SUBSET (1..n) : (IF S = {} THEN base ELSE F[<<Max(S), it[S \ {Max(S)}]>>])
                = IF S = {} THEN base ELSE AndStep(s, it[S \ {Max(S)}], fs[Max(S)])
    BY <2>1
  <2> QED
    BY <2>2, <2>3, Zenon
<1>7. z = E(z)
  BY <1>6
<1> HIDE DEF F, z
<1>8. z[1..0] = base
  BY <1>7
<1>9. ASSUME NEW k \in 1..n PROVE z[1..k] = AndStep(s, z[1..k - 1], fs[k])
  <2>1. 1..k \in SUBSET (1..n) /\ 1..k # {} /\ k \in Nat \ {0} /\ (1..k) \ {k} = 1..k - 1
    OBVIOUS
  <2>2. Max(1..k) = k
    BY <2>1, MaxOfInterval
  <2>3. z[1..k] = AndStep(s, z[(1..k) \ {Max(1..k)}], fs[Max(1..k)])
    BY <1>7, <2>1
  <2> QED
    BY <2>1, <2>2, <2>3
<1>10. \A k \in 1..n : z[1..k - 1] \in A => z[1..k] = F[<<k, z[1..k - 1]>>]
  BY <1>9 DEF F
<1>11. GoesThrough(z, n, A, base, F)
  BY <1>8, <1>10 DEF GoesThrough
<1>12. PICK w : Way(w, n, A, base, F, z[1..n])
  BY <1>2, <1>4, <1>11, FoldWay
<1>13. ASSUME NEW k \in 1..n PROVE w[k] = AndStep(s, w[k - 1], fs[k])
  <2>1. k - 1 \in 0..n
    OBVIOUS
  <2>2. w[k - 1] \in A /\ w[k] = F[<<k, w[k - 1]>>]
    BY <1>12, <2>1 DEF Way
  <2> QED
    BY <2>2 DEF F
<1>14. w \in [0..n -> A] /\ w[0] = base /\ w[n] = z[1..n]
  BY <1>12 DEF Way
<1>15. CheckSketchAnd(s, fs, msel) = AndEnd(w[n])
  BY <1>1, <1>14
<1> QED
  BY <1>13, <1>14, <1>15 DEF A, base, AndLoop

\* Checking any filter leaves a selection of the vector's rows.
LEMMA CheckSelects ==
  ASSUME NEW D, NEW s, DOMAIN s.base_data = D, NEW msel \in SelOf(D), NEW f, IsFilter(f)
  PROVE  CheckSketchStatistics(s, f, msel).msel \in SelOf(D)
<1>1. CASE f.type # "and"
  <2>1. CheckSketchChild(s, f, msel) \in Checked(D)
    BY <1>1, ChildSelects DEF IsFilter
  <2> QED
    BY <1>1, <2>1 DEF CheckSketchStatistics, Checked
<1>2. CASE f.type = "and"
  <2> DEFINE n == Len(f.children)
  <2>1. n \in Nat /\ DOMAIN f.children = 1..n /\ \A i \in 1..n : IsChild(f.children[i])
    BY <1>2 DEF IsFilter, IsChild, IsLeaf, IsList
  <2> HIDE DEF n
  <2>2. PICK w : AndLoop(w, n, D, s, f.children, msel)
    BY <2>1, SketchAndWay
  <2>3. w[n] \in Merging(D) /\ CheckSketchAnd(s, f.children, msel) = AndEnd(w[n])
    BY <2>1, <2>2 DEF AndLoop
  <2>4. AndEnd(w[n]).msel \in SelOf(D)
    BY <2>3 DEF AndEnd, Merging, SelOf, Select
  <2> QED
    BY <1>2, <2>3, <2>4 DEF CheckSketchStatistics
<1> QED
  BY <1>1, <1>2
-----------------------------------------------------------------------------
(* Sketches and their selections.                                          *)

\* Sketches of chunks that can be appended.
Base     == UNION {[1..n -> 0..MaxBase] : n \in ChunkSize}
Sketches == {BuildSketch(base) : base \in Base}

SketchTypes ==
  /\ segment_sketches \in Seq(Sketches)
  /\ vector_sels \in Seq(SelOf(Nat)) /\ Len(vector_sels) = Len(segment_sketches)
  /\ \A i \in DOMAIN vector_sels : vector_sels[i] \in SelOf(DOMAIN segment_sketches[i].base_data)

\* Every sketch that an append can build has that shape.
LEMMA EverySketch ==
  ASSUME NEW s \in Sketches
  PROVE  \E n \in ChunkSize : \E m : SketchOf(s, n, m)
<1>0. PICK n \in ChunkSize : \E base \in [1..n -> 0..MaxBase] : s = BuildSketch(base)
  BY DEF Sketches, Base
<1>1. PICK base \in [1..n -> 0..MaxBase] : s = BuildSketch(base)
  BY <1>0
<1>2. n \in Nat \ {0}
  BY ScanConstants
<1> QED
  BY <1>1, <1>2, Built

\* The sketch of an appended chunk.
LEMMA ChunkSketch ==
  ASSUME NEW n \in ChunkSize, NEW chunk \in [1..n -> Value]
  PROVE  LET base == [i \in DOMAIN chunk |-> Unsigned(chunk[i])] IN
         /\ n \in Nat \ {0} /\ base \in [1..n -> 0..MaxBase]
         /\ BuildSketch(base) \in Sketches /\ BuildSketch(base).base_data = base
         /\ \E m : SketchOf(BuildSketch(base), n, m)
<1> DEFINE base == [i \in DOMAIN chunk |-> Unsigned(chunk[i])]
<1>1. n \in Nat \ {0} /\ DOMAIN chunk = 1..n
  BY ScanConstants
<1>2. \A v \in Value : Unsigned(v) \in 0..MaxBase
  <2> SUFFICES ASSUME NEW v \in Value PROVE Unsigned(v) \in 0..MaxBase
    OBVIOUS
  <2> DEFINE W == 2^Width
  <2>1. W \in Nat \ {0} /\ v \in Int
    BY SketchConstants, ScanConstants DEF Signed
  <2>2. Unsigned(v) = v % W /\ MaxBase = W - 1
    BY DEF Unsigned, MaxBase
  <2> HIDE DEF W
  <2> QED
    BY <2>1, <2>2
<1>3. base \in [1..n -> 0..MaxBase]
  BY <1>1, <1>2
<1> HIDE DEF base
<1>4. BuildSketch(base) \in Sketches
  BY <1>3 DEF Sketches, Base
<1>5. \E m : SketchOf(BuildSketch(base), n, m) /\ BuildSketch(base).base_data = base
  BY <1>1, <1>3, Built
<1> QED
  BY <1>1, <1>3, <1>4, <1>5 DEF base

\* Every step keeps the sketches and the shared selections well-formed.
LEMMA SketchTypesStep ==
  ASSUME TableTypes, SketchTypes, [Next]_vars
  PROVE  SketchTypes'
<1>1. ASSUME NEW n \in ChunkSize, NEW chunk \in [1..n -> Value], SketchAppend(chunk)
      PROVE  SketchTypes'
  <2> DEFINE base == [i \in DOMAIN chunk |-> Unsigned(chunk[i])]
             s    == BuildSketch(base)
             m    == [bitmask |-> {}, rows |-> DOMAIN chunk]
  <2>1. CASE ~ is_sketched
    BY <1>1, <2>1 DEF SketchAppend, SketchTypes
  <2>2. CASE is_sketched
    <3>1. segment_sketches' = Append(segment_sketches, s) /\ vector_sels' = Append(vector_sels, m)
      BY <1>1, <2>2 DEF SketchAppend
    <3>2. s \in Sketches /\ s.base_data = base /\ DOMAIN base = DOMAIN chunk /\ DOMAIN chunk = 1..n
          /\ n \in Nat \ {0}
      BY ChunkSketch
    <3>3. m \in SelOf(DOMAIN s.base_data) /\ m \in SelOf(Nat)
      BY <3>2 DEF SelOf
    <3> HIDE DEF s, m
    <3>4. /\ segment_sketches' \in Seq(Sketches) /\ vector_sels' \in Seq(SelOf(Nat))
          /\ Len(vector_sels') = Len(segment_sketches')
          /\ Len(vector_sels') = Len(vector_sels) + 1 /\ Len(vector_sels) \in Nat
          /\ DOMAIN vector_sels' = 1..Len(vector_sels) + 1 /\ DOMAIN vector_sels = 1..Len(vector_sels)
      BY <3>1, <3>2, <3>3 DEF SketchTypes
    <3>5. ASSUME NEW i \in DOMAIN vector_sels'
          PROVE  vector_sels'[i] \in SelOf(DOMAIN segment_sketches'[i].base_data)
      <4>1. CASE i = Len(vector_sels) + 1
        <5>1. vector_sels'[i] = m /\ segment_sketches'[i] = s
          BY <3>1, <3>4, <4>1 DEF SketchTypes
        <5> QED
          BY <3>3, <5>1
      <4>2. CASE i # Len(vector_sels) + 1
        <5>1. i \in DOMAIN vector_sels /\ i \in 1..Len(segment_sketches)
          BY <3>4, <4>2 DEF SketchTypes
        <5>2. vector_sels'[i] = vector_sels[i] /\ segment_sketches'[i] = segment_sketches[i]
          BY <3>1, <3>4, <5>1 DEF SketchTypes
        <5> QED
          BY <5>1, <5>2 DEF SketchTypes
      <4> QED
        BY <4>1, <4>2
    <3> QED
      BY <3>4, <3>5 DEF SketchTypes
  <2>3. is_sketched \in BOOLEAN
    BY DEF TableTypes
  <2> QED
    BY <2>1, <2>2
<1>2. ASSUME NEW q \in Query, CheckSketchSegments(q) PROVE SketchTypes'
  <2> DEFINE i == scan[q].vector_index + 1
             r == CheckSketchStatistics(segment_sketches[i], scan[q].filter, vector_sels[i])
  <2>1. /\ scan[q].phase = "check" /\ segment_sketches' = segment_sketches
        /\ vector_sels' = [vector_sels EXCEPT ![i] = r.msel]
    BY <1>2 DEF CheckSketchSegments
  <2>2. IsFilter(scan[q].filter)
    BY <2>1, InPhase, ScanConstants DEF Going
  <2>3. ASSUME i \in DOMAIN vector_sels
        PROVE  r.msel \in SelOf(DOMAIN segment_sketches[i].base_data)
    BY <2>2, <2>3, CheckSelects DEF SketchTypes
  <2>4. ASSUME i \in DOMAIN vector_sels
        PROVE  r.msel \in SelOf(Nat)
    <3>1. segment_sketches[i] \in Sketches
      BY <2>4 DEF SketchTypes
    <3>2. DOMAIN segment_sketches[i].base_data \subseteq Nat
      BY <3>1, EverySketch DEF SketchOf
    <3> QED
      BY <2>3, <2>4, <3>2 DEF SelOf
  <2> HIDE DEF i, r
  <2>5. vector_sels' \in Seq(SelOf(Nat)) /\ Len(vector_sels') = Len(vector_sels)
        /\ DOMAIN vector_sels' = DOMAIN vector_sels
    <3> DEFINE X == SelOf(Nat)
               L == Len(vector_sels)
    <3>1. L \in Nat /\ vector_sels \in [1..L -> X] /\ DOMAIN vector_sels = 1..L
      BY DEF SketchTypes
    <3> HIDE DEF X, L
    <3>2. vector_sels' \in [1..L -> X] /\ DOMAIN vector_sels' = 1..L
      BY <2>1, <2>4, <3>1 DEF X
    <3>3. vector_sels' \in Seq(X) /\ Len(vector_sels') = L
      BY <3>1, <3>2
    <3> QED
      BY <3>1, <3>2, <3>3 DEF X, L
  <2> QED
    BY <2>1, <2>3, <2>5 DEF SketchTypes
<1>3. CASE UNCHANGED <<segment_sketches, vector_sels>>
  BY <1>3 DEF SketchTypes
<1>4. CASE UNCHANGED vars
  BY <1>3, <1>4 DEF vars
<1>5. CASE \E r \in DOMAIN data : Delete(r)
  BY <1>3, <1>5 DEF Delete
<1>6. CASE \E r \in DOMAIN data, v \in Value : Update(r, v)
  BY <1>3, <1>6 DEF Update
<1>7. CASE \E q \in Query, f \in Filter : StartScan(q, f)
  BY <1>3, <1>7 DEF StartScan
<1>8. CASE \E q \in Query : CheckZonemapSegments(q) \/ ReadVector(q) \/ EndScan(q)
  BY <1>3, <1>8 DEF CheckZonemapSegments, ReadVector, EndScan
<1> QED
  BY <1>1, <1>2, <1>4, <1>5, <1>6, <1>7, <1>8 DEF Next

\* Tables, scans, sketches and selections are always well-formed.
LEMMA SketchTypesAlways == Spec => [](TableTypes /\ SketchTypes)
<1>1. Init => TableTypes /\ SketchTypes
  BY TypesInit DEF Init, SketchTypes
<1>2. TableTypes /\ SketchTypes /\ [Next]_vars => (TableTypes /\ SketchTypes)'
  BY TypesStep, SketchTypesStep
<1> QED
  BY <1>1, <1>2, PTL DEF Spec

\* Type correctness for any filters, chunks and values: each sketch has a
\* selection, and no check leaves rows in it that the chunk does not have.
THEOREM ScanTypeOK == Spec => []TypeOK
<1>1. TableTypes /\ SketchTypes => TypeOK
  <2> SUFFICES ASSUME TableTypes, SketchTypes PROVE TypeOK
    OBVIOUS
  <2>1. \A i \in DOMAIN vector_sels :
           vector_sels[i].bitmask \cup vector_sels[i].rows \subseteq DOMAIN segment_sketches[i].base_data
    BY DEF SketchTypes, SelOf
  <2> QED
    BY <2>1 DEF TypeOK, TableTypes, SketchTypes
<1> QED
  BY <1>1, SketchTypesAlways, PTL

\* build_order_preserving_map: whatever values are appended and however many
\* codes there are, no code contradicts the order of two values.
THEOREM CodesPreserveOrder == Spec => []CodesOrderPreserving
<1>1. SketchTypes => CodesOrderPreserving
  <2> SUFFICES ASSUME SketchTypes, NEW k \in DOMAIN segment_sketches,
                      NEW i \in DOMAIN segment_sketches[k].base_data,
                      NEW j \in DOMAIN segment_sketches[k].base_data,
                      segment_sketches[k].base_data[i] < segment_sketches[k].base_data[j]
               PROVE  segment_sketches[k].sketch[i] <= segment_sketches[k].sketch[j]
    BY DEF CodesOrderPreserving
  <2> DEFINE s == segment_sketches[k]
  <2>1. s \in Sketches
    BY DEF SketchTypes
  <2>0. PICK n \in ChunkSize : \E m : SketchOf(s, n, m)
    BY <2>1, EverySketch
  <2>2. PICK m : SketchOf(s, n, m)
    BY <2>0
  <2> DEFINE x == s.base_data[i]
             y == s.base_data[j]
  <2>3. /\ x < y /\ i \in 1..n /\ j \in 1..n /\ x \in 0..MaxBase /\ y \in 0..MaxBase
        /\ s.sketch[i] = Code(s.endpoints, x) /\ s.sketch[j] = Code(s.endpoints, y)
        /\ y <= s.max_data /\ s.max_data \in Nat
    BY <2>2 DEF SketchOf
  <2> HIDE DEF s, x, y
  <2>4. x \in Nat /\ y \in Nat /\ x <= y /\ x <= s.max_data
    BY <2>3, SketchConstants DEF MaxBase
  <2>5. lower_bound(s.endpoints, x) <= lower_bound(s.endpoints, y)
    BY <2>2, <2>4, CodeOrder
  <2>6. Code(s.endpoints, x) = lower_bound(s.endpoints, x)
    BY <2>2, <2>4, CodeOrder
  <2>7. Code(s.endpoints, y) = lower_bound(s.endpoints, y)
    BY <2>2, <2>3, <2>4, CodeOrder
  <2> QED
    BY <2>3, <2>5, <2>6, <2>7 DEF s, x, y
<1> QED
  BY <1>1, SketchTypesAlways, PTL
-----------------------------------------------------------------------------
(* Which rows a range comparison selects.                                  *)

Lower(s, x)   == {i \in DOMAIN s.base_data : s.base_data[i] < x}
Greater(s, x) == {i \in DOMAIN s.base_data : s.base_data[i] > x}

\* Rows that are not told from the operand by their codes and not looked at.
NotParted(s, lo, hi) == ~ \E e \in ToSet(s.endpoints) : lo <= e /\ e < hi
TiedBelow(s, x, i) == ~ s.need_check_base /\ InBlock(s, i) /\ NotParted(s, s.base_data[i], x)
TiedAbove(s, x, i) ==
  ~ s.need_check_base /\ InBlock(s, i) /\ x >= s.min_data /\ NotParted(s, x, s.base_data[i])

LowerFound(s, x)   == {i \in Lower(s, x) : ~ TiedBelow(s, x, i)}
GreaterFound(s, x) == {i \in Greater(s, x) : ~ TiedAbove(s, x, i)}

\* What the lemmas on comparisons know of a row and of the sketch's bounds.
LEMMA RowFacts ==
  ASSUME NEW s, NEW n, NEW m, SketchOf(s, n, m)
  PROVE  /\ DOMAIN s.base_data = 1..n /\ s.max_data \in Nat /\ s.min_data \in Nat
         /\ s.max_data \in ToSet(s.endpoints) /\ s.need_check_base \in BOOLEAN
         /\ \A i \in DOMAIN s.base_data :
               /\ s.base_data[i] \in Nat /\ s.min_data <= s.base_data[i]
               /\ s.base_data[i] <= s.max_data
               /\ s.sketch[i] = Code(s.endpoints, s.base_data[i])
<1>1. s.max_data \in ToSet(s.endpoints)
  BY SketchConstants DEF SketchOf, ToSet
<1> QED
  BY <1>1, SketchConstants DEF SketchOf, MaxBase

\* The rows evaluate_less_than_AVX512 selects are those below the operand that
\* are not tied with it.
LEMMA LessRows ==
  ASSUME NEW s, NEW n, NEW m, SketchOf(s, n, m), NEW x \in Nat
  PROVE  LET rows == IF x > s.max_data THEN DOMAIN s.base_data
                     ELSE {i \in DOMAIN s.base_data : LessThanRow(s, x, i)}
         IN  /\ rows = LowerFound(s, x)
             /\ x <= s.min_data => LowerFound(s, x) = {}
<1> DEFINE D == DOMAIN s.base_data
           e == s.endpoints
           rows == IF x > s.max_data THEN D ELSE {i \in D : LessThanRow(s, x, i)}
<1>1. /\ s.max_data \in Nat /\ s.min_data \in Nat /\ s.max_data \in ToSet(s.endpoints)
      /\ \A i \in D : /\ s.base_data[i] \in Nat /\ s.min_data <= s.base_data[i]
                      /\ s.base_data[i] <= s.max_data
                      /\ s.sketch[i] = Code(e, s.base_data[i])
  BY RowFacts
<1>2. ASSUME NEW i \in D, x <= s.max_data
      PROVE  LessThanRow(s, x, i) <=> s.base_data[i] < x /\ ~ TiedBelow(s, x, i)
  <2> DEFINE b == s.base_data[i]
  <2>1. b \in Nat /\ b <= s.max_data /\ s.sketch[i] = Code(e, b)
    BY <1>1
  <2> HIDE DEF b
  <2>2. /\ Code(e, b) = lower_bound(e, b) /\ Code(e, b) \in Nat
        /\ b <= x => (lower_bound(e, b) < lower_bound(e, x) <=> ~ NotParted(s, b, x))
        /\ b <= x => lower_bound(e, b) <= lower_bound(e, x)
    BY <2>1, CodeOrder DEF NotParted
  <2>3. /\ Code(e, x) = lower_bound(e, x) /\ Code(e, x) \in Nat
        /\ x <= b => lower_bound(e, x) <= lower_bound(e, b)
    BY <1>2, <2>1, CodeOrder
  <2>4. LessThanRow(s, x, i) <=> \/ Code(e, b) < Code(e, x)
                                 \/ Code(e, b) = Code(e, x) /\ BaseChecked(s, i) /\ b < x
    BY <2>1 DEF LessThanRow, b
  <2>5. TiedBelow(s, x, i) <=> ~ BaseChecked(s, i) /\ NotParted(s, b, x)
    BY DEF BaseChecked, TiedBelow, b
  <2> HIDE DEF e
  <2>6. CASE b < x
    BY <2>1, <2>2, <2>3, <2>4, <2>5, <2>6 DEF b
  <2>7. CASE ~ (b < x)
    BY <2>1, <2>2, <2>3, <2>4, <2>7 DEF b
  <2> QED
    BY <2>6, <2>7
<1>3. x <= s.min_data => LowerFound(s, x) = {}
  BY <1>1 DEF Lower, LowerFound
<1>4. CASE x > s.max_data
  <2>1. \A i \in D : s.base_data[i] < x /\ ~ NotParted(s, s.base_data[i], x)
    BY <1>1, <1>4 DEF NotParted
  <2>2. rows = D
    BY <1>4
  <2>3. rows = LowerFound(s, x)
    BY <2>1, <2>2 DEF Lower, LowerFound, TiedBelow
  <2> QED
    BY <1>3, <2>3
<1>5. CASE ~ (x > s.max_data)
  <2>1. x <= s.max_data /\ rows = {i \in D : LessThanRow(s, x, i)}
    BY <1>1, <1>5
  <2>2. rows = LowerFound(s, x)
    BY <1>2, <2>1 DEF Lower, LowerFound
  <2> QED
    BY <1>3, <2>2
<1> QED
  BY <1>4, <1>5

\* The same for evaluate_greater_than_AVX512.
LEMMA GreaterRows ==
  ASSUME NEW s, NEW n, NEW m, SketchOf(s, n, m), NEW x \in Nat
  PROVE  LET rows == IF x < s.min_data THEN DOMAIN s.base_data
                     ELSE {i \in DOMAIN s.base_data : GreaterThanRow(s, x, i)}
         IN  /\ x < s.max_data => rows = GreaterFound(s, x)
             /\ x >= s.max_data => GreaterFound(s, x) = {}
<1> DEFINE D == DOMAIN s.base_data
           e == s.endpoints
           rows == IF x < s.min_data THEN D ELSE {i \in D : GreaterThanRow(s, x, i)}
<1>1. /\ s.max_data \in Nat /\ s.min_data \in Nat
      /\ \A i \in D : /\ s.base_data[i] \in Nat /\ s.min_data <= s.base_data[i]
                      /\ s.base_data[i] <= s.max_data
                      /\ s.sketch[i] = Code(e, s.base_data[i])
  BY RowFacts
<1>2. ASSUME NEW i \in D, x < s.max_data, x >= s.min_data
      PROVE  GreaterThanRow(s, x, i) <=> s.base_data[i] > x /\ ~ TiedAbove(s, x, i)
  <2> DEFINE b == s.base_data[i]
  <2>1. b \in Nat /\ b <= s.max_data /\ s.sketch[i] = Code(e, b) /\ x <= s.max_data
    BY <1>1, <1>2
  <2> HIDE DEF b
  <2>2. /\ Code(e, b) = lower_bound(e, b) /\ Code(e, b) \in Nat
        /\ b <= x => lower_bound(e, b) <= lower_bound(e, x)
    BY <2>1, CodeOrder
  <2>3. /\ Code(e, x) = lower_bound(e, x) /\ Code(e, x) \in Nat
        /\ x <= b => lower_bound(e, x) <= lower_bound(e, b)
        /\ x <= b => (lower_bound(e, x) < lower_bound(e, b) <=> ~ NotParted(s, x, b))
    BY <2>1, CodeOrder DEF NotParted
  <2>4. GreaterThanRow(s, x, i) <=> \/ Code(e, b) > Code(e, x)
                                    \/ Code(e, b) = Code(e, x) /\ BaseChecked(s, i) /\ b > x
    BY <2>1 DEF GreaterThanRow, b
  <2>5. TiedAbove(s, x, i) <=> ~ BaseChecked(s, i) /\ NotParted(s, x, b)
    BY <1>2 DEF BaseChecked, TiedAbove, b
  <2> HIDE DEF e
  <2>6. CASE b > x
    BY <2>1, <2>2, <2>3, <2>4, <2>5, <2>6 DEF b
  <2>7. CASE ~ (b > x)
    BY <2>1, <2>2, <2>3, <2>4, <2>7 DEF b
  <2> QED
    BY <2>6, <2>7
<1>3. x >= s.max_data => GreaterFound(s, x) = {}
  BY <1>1 DEF Greater, GreaterFound
<1>4. CASE x < s.min_data
  <2>1. \A i \in D : s.base_data[i] > x /\ ~ TiedAbove(s, x, i)
    BY <1>1, <1>4 DEF TiedAbove
  <2>2. D = GreaterFound(s, x) /\ rows = D
    BY <1>4, <2>1 DEF Greater, GreaterFound
  <2> QED
    BY <1>3, <2>2
<1>5. CASE ~ (x < s.min_data)
  <2>1. x >= s.min_data /\ rows = {i \in D : GreaterThanRow(s, x, i)}
    BY <1>1, <1>5
  <2>2. x < s.max_data => rows = GreaterFound(s, x)
    BY <1>2, <2>1 DEF Greater, GreaterFound
  <2> QED
    BY <1>3, <1>5, <2>2
<1> QED
  BY <1>4, <1>5
-----------------------------------------------------------------------------
(* Range filters on a sketch.                                              *)

\* Comparisons that the conversion to the unsigned type does not distort: the
\* operand is not negative, nor is the one that replaces it for ">=".
RangeComparison(f) ==
  /\ f.type = "constant" /\ f.op \in {"<", "<=", ">", ">="} /\ f.c \in Signed
  /\ f.c >= 0 /\ (f.op = ">=" => f.c >= 1)

\* Comparisons of the column with at least one constant, and IS NOT NULL.
RangeFilter(f) ==
  \/ RangeComparison(f)
  \/ /\ f.type = "and" /\ IsList(f.children)
     /\ \A i \in DOMAIN f.children : RangeComparison(f.children[i]) \/ f.children[i].type = "is_not_null"
     /\ \E i \in DOMAIN f.children : RangeComparison(f.children[i])

Match(s, f) == {i \in DOMAIN s.base_data : LeafHolds(f, s.base_data[i])}

\* The rows that a comparison finds, and what a check returns that selects R.
Found(s, f) == {i \in Match(s, f) : ~ Overlooked(s, f, i)}

Returns(r, R) ==
  IF R = {} THEN r.result = "FILTER_ALWAYS_FALSE"
  ELSE r.result # "FILTER_ALWAYS_FALSE" /\ r.msel = Select(R)

\* Operands in reach are not changed by the conversion to an unsigned value,
\* nor are the neighbours that <= and >= are evaluated with.
LEMMA Converted ==
  ASSUME NEW f, RangeComparison(f)
  PROVE  /\ f.c \in Nat /\ Unsigned(f.c) = f.c /\ Unsigned(f.c + 1) = f.c + 1
         /\ f.op = ">=" => f.c - 1 \in Nat /\ Unsigned(f.c - 1) = f.c - 1
<1> DEFINE c == f.c
           H == 2^(Width - 1)
           W == 2^Width
<1>1. H \in Nat \ {0} /\ W = 2 * H /\ c \in (-H)..(H - 1) /\ c >= 0 /\ (f.op = ">=" => c >= 1)
  BY SketchConstants DEF RangeComparison, Signed
<1>2. \A v : Unsigned(v) = v % W
  BY DEF Unsigned
<1> HIDE DEF c, H, W
<1>3. W \in Nat \ {0} /\ c \in 0..W - 1 /\ c + 1 \in 0..W - 1 /\ (f.op = ">=" => c - 1 \in 0..W - 1)
  BY <1>1
<1>4. \A v \in 0..W - 1 : v % W = v
  BY <1>3
<1> QED
  BY <1>2, <1>3, <1>4 DEF c

\* What evaluate_less_than_AVX512 selects, and the result that follows.
LEMMA LessOutcome ==
  ASSUME NEW s, NEW n, NEW m, SketchOf(s, n, m), NEW x \in Nat, NEW msel
  PROVE  Returns(PruneResult(s, evaluate_less_than_AVX512(s, x, msel)), LowerFound(s, x))
<1> DEFINE rows == IF x > s.max_data THEN DOMAIN s.base_data
                   ELSE {i \in DOMAIN s.base_data : LessThanRow(s, x, i)}
           v == evaluate_less_than_AVX512(s, x, msel)
           r == PruneResult(s, v)
<1>1. /\ rows = LowerFound(s, x)
      /\ x <= s.min_data => LowerFound(s, x) = {}
  BY LessRows
<1>2. v = IF x <= s.min_data THEN [count |-> 0, msel |-> msel]
          ELSE [count |-> Cardinality(rows), msel |-> Select(rows)]
  BY DEF evaluate_less_than_AVX512
<1>3. rows \in SUBSET (1..n) /\ n \in Nat /\ Len(s.base_data) = n /\ n # 0 /\ s.max_data \in Nat
  BY SMTT(30) DEF SketchOf
<1> HIDE DEF rows, v
<1>4. Cardinality(rows) = 0 <=> rows = {}
  BY <1>3, Counts
<1>5. /\ r.msel = v.msel
      /\ r.result = "FILTER_ALWAYS_FALSE" <=> v.count = 0
  BY DEF PruneResult
<1>6. CASE x <= s.min_data
  <2>1. v.count = 0
    BY <1>2, <1>6
  <2>2. Returns(r, LowerFound(s, x))
    BY <1>1, <1>5, <1>6, <2>1 DEF Returns
  <2> QED
    BY <2>2 DEF v
<1>7. CASE ~ (x <= s.min_data)
  <2>1. v.count = Cardinality(rows) /\ v.msel = Select(rows)
    BY <1>2, <1>7
  <2>2. rows = LowerFound(s, x)
    BY <1>1, <1>3, <1>7
  <2>3. Returns(r, rows)
    BY <1>4, <1>5, <2>1 DEF Returns
  <2> QED
    BY <2>2, <2>3 DEF v
<1> QED
  BY <1>6, <1>7

\* What evaluate_greater_than_AVX512 selects, and the result that follows.
LEMMA GreaterOutcome ==
  ASSUME NEW s, NEW n, NEW m, SketchOf(s, n, m), NEW x \in Nat, NEW msel
  PROVE  Returns(PruneResult(s, evaluate_greater_than_AVX512(s, x, msel)), GreaterFound(s, x))
<1> DEFINE rows == IF x < s.min_data THEN DOMAIN s.base_data
                   ELSE {i \in DOMAIN s.base_data : GreaterThanRow(s, x, i)}
           v == evaluate_greater_than_AVX512(s, x, msel)
           r == PruneResult(s, v)
<1>1. /\ x < s.max_data => rows = GreaterFound(s, x)
      /\ x >= s.max_data => GreaterFound(s, x) = {}
  BY GreaterRows
<1>2. v = IF x >= s.max_data THEN [count |-> 0, msel |-> msel]
          ELSE [count |-> Cardinality(rows), msel |-> Select(rows)]
  BY DEF evaluate_greater_than_AVX512
<1>3. rows \in SUBSET (1..n) /\ n \in Nat /\ Len(s.base_data) = n /\ n # 0 /\ s.max_data \in Nat
  BY SMTT(30) DEF SketchOf
<1> HIDE DEF rows, v
<1>4. Cardinality(rows) = 0 <=> rows = {}
  BY <1>3, Counts
<1>5. /\ r.msel = v.msel
      /\ r.result = "FILTER_ALWAYS_FALSE" <=> v.count = 0
  BY DEF PruneResult
<1>6. CASE x >= s.max_data
  <2>1. v.count = 0
    BY <1>2, <1>6
  <2>2. Returns(r, GreaterFound(s, x))
    BY <1>1, <1>5, <1>6, <2>1 DEF Returns
  <2> QED
    BY <2>2 DEF v
<1>7. CASE ~ (x >= s.max_data)
  <2>1. v.count = Cardinality(rows) /\ v.msel = Select(rows)
    BY <1>2, <1>7
  <2>2. rows = GreaterFound(s, x)
    BY <1>1, <1>3, <1>7
  <2>3. Returns(r, rows)
    BY <1>4, <1>5, <2>1 DEF Returns
  <2> QED
    BY <2>2, <2>3 DEF v
<1> QED
  BY <1>6, <1>7

\* CheckSketchTemplated of a range comparison selects the rows that satisfy it
\* and are not overlooked.
LEMMA ComparisonRows ==
  ASSUME NEW s, NEW n, NEW m, SketchOf(s, n, m), NEW f, RangeComparison(f), NEW msel
  PROVE  Returns(CheckSketchLeaf(s, f, msel), Found(s, f))
<1> DEFINE o == f.op
           c == f.c
           k == CheckSketchLeaf(s, f, msel)
<1>1. /\ o \in {"<", "<=", ">", ">="} /\ c \in Nat /\ Unsigned(c) = c /\ Unsigned(c + 1) = c + 1
      /\ o = ">=" => c - 1 \in Nat /\ Unsigned(c - 1) = c - 1
  BY Converted DEF RangeComparison
<1>2. k = CheckSketch(s, o, c, msel)
  BY DEF CheckSketchLeaf, RangeComparison
<1>3. Match(s, f) = {i \in DOMAIN s.base_data : Holds(s.base_data[i], o, c)}
  BY DEF Match, LeafHolds, RangeComparison
<1>4. s.min_data \in Nat /\ \A i \in DOMAIN s.base_data : s.base_data[i] \in Nat /\ s.min_data <= s.base_data[i]
  BY RowFacts
<1>5. \A i : o \in {"<", "<="} => (Overlooked(s, f, i) <=>
          StrictOperand(f) >= s.min_data /\ TiedBelow(s, StrictOperand(f), i))
  BY DEF Overlooked, TiedBelow, NotParted
<1>6. \A i : o \in {">", ">="} => (Overlooked(s, f, i) <=> TiedAbove(s, StrictOperand(f), i))
  BY DEF Overlooked, TiedAbove, NotParted
<1>7. StrictOperand(f) = CASE o = ">=" -> c - 1 [] o = "<=" -> c + 1 [] OTHER -> c
  BY DEF StrictOperand
<1> HIDE DEF o, c, k
<1>8. ASSUME NEW x \in Nat, x = StrictOperand(f), o \in {"<", "<="}, Match(s, f) = Lower(s, x)
      PROVE  Found(s, f) = LowerFound(s, x)
  <2>1. \A i \in Lower(s, x) : x >= s.min_data
    BY <1>4 DEF Lower
  <2> QED
    BY <1>5, <1>8, <2>1 DEF Found, LowerFound
<1>9. ASSUME NEW x \in Nat, x = StrictOperand(f), o \in {">", ">="}, Match(s, f) = Greater(s, x)
      PROVE  Found(s, f) = GreaterFound(s, x)
  BY <1>6, <1>9 DEF Found, GreaterFound
<1>10. CASE o = "<"
  <2>1. k = PruneResult(s, evaluate_less_than_AVX512(s, c, msel))
    BY <1>1, <1>2, <1>10 DEF CheckSketch
  <2>2. Match(s, f) = Lower(s, c) /\ c = StrictOperand(f)
    BY <1>3, <1>7, <1>10 DEF Lower, Holds
  <2> QED
    BY <1>1, <1>8, <1>10, <2>1, <2>2, LessOutcome DEF k
<1>11. CASE o = "<="
  <2>1. k = PruneResult(s, evaluate_less_than_AVX512(s, c + 1, msel))
    BY <1>1, <1>2, <1>11 DEF CheckSketch
  <2>2. Match(s, f) = Lower(s, c + 1) /\ c + 1 = StrictOperand(f)
    BY <1>1, <1>3, <1>4, <1>7, <1>11 DEF Lower, Holds
  <2>3. c + 1 \in Nat
    BY <1>1
  <2> QED
    BY <1>8, <1>11, <2>1, <2>2, <2>3, LessOutcome DEF k
<1>12. CASE o = ">"
  <2>1. k = PruneResult(s, evaluate_greater_than_AVX512(s, c, msel))
    BY <1>1, <1>2, <1>12 DEF CheckSketch
  <2>2. Match(s, f) = Greater(s, c) /\ c = StrictOperand(f)
    BY <1>3, <1>7, <1>12 DEF Greater, Holds
  <2> QED
    BY <1>1, <1>9, <1>12, <2>1, <2>2, GreaterOutcome DEF k
<1>13. CASE o = ">="
  <2>1. k = PruneResult(s, evaluate_greater_than_AVX512(s, c - 1, msel))
    BY <1>1, <1>2, <1>13 DEF CheckSketch
  <2>2. Match(s, f) = Greater(s, c - 1) /\ c - 1 = StrictOperand(f)
    BY <1>1, <1>3, <1>4, <1>7, <1>13 DEF Greater, Holds
  <2> QED
    BY <1>1, <1>9, <1>13, <2>1, <2>2, GreaterOutcome DEF k
<1> QED
  BY <1>1, <1>10, <1>11, <1>12, <1>13

\* The children of a range filter, the rows that all of the first k find, and
\* what the loop over them has merged by then.
RangeChild(f) == RangeComparison(f) \/ f.type = "is_not_null"

ChildFound(s, f) == IF f.type = "constant" THEN Found(s, f) ELSE DOMAIN s.base_data

Common(s, fs, k) == {i \in DOMAIN s.base_data : \A j \in 1..k : i \in ChildFound(s, fs[j])}

HasMerged(s, fs, k, a) ==
  /\ a.result = "FILTER_ALWAYS_FALSE" => Common(s, fs, k) = {}
  /\ a.result # "FILTER_ALWAYS_FALSE" =>
        /\ a.n = 0 => \A j \in 1..k : fs[j].type # "constant"
        /\ a.n # 0 => a.merged = Common(s, fs, k)
        /\ a.n = 1 => a.msel = Select(a.merged)

\* One more child of a conjunction: the merged selection is that of the
\* children so far.
LEMMA MergesOneMore ==
  ASSUME NEW s, NEW n, NEW m, SketchOf(s, n, m), NEW fs, NEW k \in Nat,
         \A j \in 1..k + 1 : RangeChild(fs[j]),
         NEW a, a.n \in Nat, HasMerged(s, fs, k, a)
  PROVE  HasMerged(s, fs, k + 1, AndStep(s, a, fs[k + 1]))
<1> DEFINE g == fs[k + 1]
           C == Common(s, fs, k)
           N == Common(s, fs, k + 1)
           b == AndStep(s, a, g)
           r == CheckSketchChild(s, g, a.msel)
<1>1. k + 1 \in 1..k + 1 /\ 1..k + 1 = (1..k) \cup {k + 1} /\ RangeChild(g)
  OBVIOUS
<1>2. N = C \cap ChildFound(s, g)
  BY <1>1 DEF Common
<1>3. (\A j \in 1..k : fs[j].type # "constant") => C = DOMAIN s.base_data
  BY DEF Common, ChildFound
<1>4. CASE a.result = "FILTER_ALWAYS_FALSE"
  <2>1. b = a
    BY <1>4 DEF AndStep
  <2>2. N = {}
    BY <1>2, <1>4 DEF HasMerged
  <2> QED
    BY <1>4, <2>1, <2>2 DEF HasMerged
<1>5. CASE a.result # "FILTER_ALWAYS_FALSE"
  <2>0. /\ a.n = 0 => \A j \in 1..k : fs[j].type # "constant"
        /\ a.n # 0 => a.merged = C
        /\ a.n = 1 => a.msel = Select(a.merged)
    BY <1>5 DEF HasMerged
  <2>1. b = [msel   |-> r.msel,
             result |-> IF r.result \in {"FILTER_ALWAYS_FALSE", a.result} THEN r.result
                        ELSE "NO_PRUNING_POSSIBLE",
             merged |-> IF g.type = "constant"
                        THEN MergeMask(a.n = 0, a.merged, r.msel.bitmask) ELSE a.merged,
             n      |-> IF g.type = "constant" THEN a.n + 1 ELSE a.n]
    BY <1>5 DEF AndStep
  <2>2. CASE g.type # "constant"
    <3>1. g.type = "is_not_null"
      BY <1>1, <2>2 DEF RangeChild, RangeComparison
    <3>2. r = [msel |-> a.msel, result |-> "FILTER_ALWAYS_TRUE"]
      BY <3>1 DEF CheckSketchChild, CheckSketchLeaf
    <3> HIDE DEF b, r
    <3>3. /\ b.msel = a.msel /\ b.merged = a.merged /\ b.n = a.n /\ b.result # "FILTER_ALWAYS_FALSE"
      BY <2>1, <2>2, <3>2
    <3>4. N = C
      BY <1>2, <2>2 DEF ChildFound, Common
    <3>5. a.n = 0 => \A j \in 1..k + 1 : fs[j].type # "constant"
      BY <1>1, <2>0, <2>2
    <3>6. HasMerged(s, fs, k + 1, b)
      BY <2>0, <3>3, <3>4, <3>5 DEF HasMerged
    <3> QED
      BY <3>6 DEF b
  <2>3. CASE g.type = "constant"
    <3> DEFINE R == Found(s, g)
    <3>1. RangeComparison(g) /\ ChildFound(s, g) = R
      BY <1>1, <2>3 DEF RangeChild, ChildFound
    <3>2. r = CheckSketchLeaf(s, g, a.msel)
      BY <2>3 DEF CheckSketchChild
    <3>3. Returns(r, R)
      BY <3>1, <3>2, ComparisonRows
    <3>4. R \subseteq DOMAIN s.base_data
      BY DEF Found, Match
    <3> HIDE DEF b, r, R
    <3>5. CASE R = {}
      <4>1. b.result = "FILTER_ALWAYS_FALSE"
        BY <2>1, <3>3, <3>5 DEF Returns
      <4>2. N = {}
        BY <1>2, <3>1, <3>5
      <4>3. HasMerged(s, fs, k + 1, b)
        BY <4>1, <4>2 DEF HasMerged
      <4> QED
        BY <4>3 DEF b
    <3>6. CASE R # {}
      <4>1. r.result # "FILTER_ALWAYS_FALSE" /\ r.msel = Select(R) /\ r.msel.bitmask = R
        BY <3>3, <3>6 DEF Returns, Select
      <4>2. /\ b.result # "FILTER_ALWAYS_FALSE" /\ b.msel = Select(R) /\ b.n = a.n + 1
            /\ b.merged = IF a.n = 0 THEN R ELSE a.merged \cap R
        BY <2>1, <2>3, <4>1 DEF MergeMask
      <4>3. b.n # 0 /\ b.n \in Nat /\ (b.n = 1 => a.n = 0)
        BY <4>2
      <4>4. b.merged = N
        <5>1. CASE a.n = 0
          BY <1>2, <1>3, <2>0, <3>1, <3>4, <4>2, <5>1
        <5>2. CASE a.n # 0
          BY <1>2, <2>0, <3>1, <4>2, <5>2
        <5> QED
          BY <5>1, <5>2
      <4>5. b.n = 1 => b.msel = Select(b.merged)
        BY <4>2, <4>3
      <4>6. HasMerged(s, fs, k + 1, b)
        BY <4>2, <4>3, <4>4, <4>5 DEF HasMerged
      <4> QED
        BY <4>6 DEF b
    <3> QED
      BY <3>5, <3>6
  <2> QED
    BY <2>2, <2>3
<1> QED
  BY <1>4, <1>5

\* The rows that satisfy a filter, and those of them that no comparison
\* overlooks.
Satisfying(s, f) == {i \in DOMAIN s.base_data : FilterHolds(f, s.base_data[i])}
Selected(s, f) == {i \in Satisfying(s, f) : ~ \E g \in Comparisons(f) : Overlooked(s, g, i)}

\* What the check of a filter gives.
Filtered(s, f, r) ==
  IF r.result = "FILTER_ALWAYS_FALSE" THEN Selected(s, f) = {} ELSE r.msel.rows = Selected(s, f)

\* Checking a filter on a sketch selects exactly the rows that satisfy it and
\* that none of its comparisons overlooks.
LEMMA FilterRows ==
  ASSUME NEW s, NEW n, NEW m, SketchOf(s, n, m), NEW f, RangeFilter(f),
         NEW msel \in SelOf(DOMAIN s.base_data)
  PROVE  Filtered(s, f, CheckSketchStatistics(s, f, msel))
<1> DEFINE r == CheckSketchStatistics(s, f, msel)
<1>1. CASE RangeComparison(f)
  <2>1. f.type = "constant"
    BY <1>1 DEF RangeComparison
  <2>2. r = CheckSketchLeaf(s, f, msel)
    BY <2>1 DEF CheckSketchStatistics, CheckSketchChild
  <2>3. Returns(r, Found(s, f))
    BY <1>1, <2>2, ComparisonRows
  <2>4. Selected(s, f) = Found(s, f)
    BY <2>1 DEF Satisfying, Selected, Found, Match, FilterHolds, ChildHolds, Comparisons
  <2> HIDE DEF r
  <2>5. Filtered(s, f, r)
    BY <2>3, <2>4 DEF Filtered, Returns, Select
  <2> QED
    BY <2>5 DEF r
<1>2. CASE ~ RangeComparison(f)
  <2> DEFINE fs == f.children
             N == Len(fs)
             D == DOMAIN s.base_data
  <2>1. /\ f.type = "and" /\ N \in Nat /\ DOMAIN fs = 1..N
        /\ \A i \in 1..N : RangeChild(fs[i])
        /\ \E i \in 1..N : RangeComparison(fs[i])
    BY <1>2 DEF RangeFilter, IsList, RangeChild
  <2>2. \A i \in 1..N : IsChild(fs[i])
    BY <2>1 DEF RangeChild, RangeComparison, IsChild, IsLeaf, Comparison
  <2>3. r = CheckSketchAnd(s, fs, msel)
    BY <2>1 DEF CheckSketchStatistics
  <2>4. \A i \in 1..N : fs[i].type # "or"
    BY <2>1 DEF RangeChild, RangeComparison
  <2>5. Selected(s, f) = Common(s, fs, N)
    <3>1. \A i \in D : FilterHolds(f, s.base_data[i]) <=> \A j \in 1..N : LeafHolds(fs[j], s.base_data[i])
      BY <2>1, <2>4 DEF FilterHolds, ChildHolds
    <3>2. \A i \in D : (\E g \in Comparisons(f) : Overlooked(s, g, i))
                       <=> \E j \in 1..N : fs[j].type = "constant" /\ Overlooked(s, fs[j], i)
      <4>1. Comparisons(f) = {g \in ToSet(fs) : g.type = "constant"}
        BY <2>1 DEF Comparisons
      <4>2. ToSet(fs) = {fs[j] : j \in 1..N}
        BY <2>1 DEF ToSet
      <4> HIDE DEF fs, N
      <4> QED
        BY <4>1, <4>2
    <3>3. \A i \in D : \A j \in 1..N : i \in ChildFound(s, fs[j]) <=>
              LeafHolds(fs[j], s.base_data[i]) /\ ~ (fs[j].type = "constant" /\ Overlooked(s, fs[j], i))
      BY DEF ChildFound, Found, Match, LeafHolds
    <3> HIDE DEF fs, N
    <3>4. \A i \in D : i \in Common(s, fs, N) <=> i \in Selected(s, f)
      BY <3>1, <3>2, <3>3 DEF Common, Selected, Satisfying
    <3> QED
      BY <3>4 DEF Common, Selected, Satisfying
  <2> HIDE DEF N, fs, D, r
  <2>7. PICK w : AndLoop(w, N, D, s, fs, msel)
    BY <2>1, <2>2, SketchAndWay DEF D
  <2>8. /\ w \in [0..N -> Merging(D)] /\ w[0].result = "FILTER_ALWAYS_TRUE" /\ w[0].n = 0
        /\ \A k \in 1..N : w[k] = AndStep(s, w[k - 1], fs[k])
        /\ r = AndEnd(w[N])
    BY <2>3, <2>7 DEF AndLoop
  <2> DEFINE S == {k \in 0..N : HasMerged(s, fs, k, w[k])}
  <2>9. 0 \in S
    BY <2>1, <2>8 DEF HasMerged
  <2>10. ASSUME NEW k \in 0..N - 1, k \in S PROVE k + 1 \in S
    <3>1. k \in Nat /\ k \in 0..N /\ k + 1 \in 1..N /\ k + 1 \in 0..N /\ (k + 1) - 1 = k /\ 1..k + 1 \subseteq 1..N
      BY <2>1
    <3>2. w[k].n \in Nat
      BY <2>8, <3>1 DEF Merging
    <3>3. w[k + 1] = AndStep(s, w[k], fs[k + 1])
      BY <2>8, <3>1
    <3>4. HasMerged(s, fs, k, w[k])
      BY <2>10
    <3>5. \A j \in 1..k + 1 : RangeChild(fs[j])
      BY <2>1, <3>1
    <3>6. HasMerged(s, fs, k + 1, AndStep(s, w[k], fs[k + 1]))
      BY <3>1, <3>2, <3>4, <3>5, MergesOneMore
    <3> QED
      BY <3>1, <3>3, <3>6
  <2> HIDE DEF S
  <2>11. N \in S
    <3>1. \A k \in 0..N - 1 : k \in S => k + 1 \in S
      BY <2>10
    <3>2. \A k \in 0..N : k \in S
      BY <2>1, <2>9, <3>1, CountingUp
    <3> QED
      BY <2>1, <3>2
  <2>12. HasMerged(s, fs, N, w[N])
    BY <2>11 DEF S
  <2> DEFINE a == w[N]
  <2>13. \E j \in 1..N : fs[j].type = "constant"
    BY <2>1 DEF RangeComparison
  <2>14. r.result = a.result
    BY <2>8 DEF AndEnd
  <2> HIDE DEF a
  <2>15. CASE a.result = "FILTER_ALWAYS_FALSE"
    <3>1. Filtered(s, f, r)
      BY <2>5, <2>12, <2>14, <2>15 DEF Filtered, HasMerged, a
    <3> QED
      BY <3>1 DEF r
  <2>16. CASE a.result # "FILTER_ALWAYS_FALSE"
    <3>1. /\ a.n # 0 /\ a.merged = Common(s, fs, N)
          /\ a.n = 1 => a.msel = Select(a.merged)
      BY <2>12, <2>13, <2>16 DEF HasMerged, a
    <3>2. r.msel = Select(a.merged)
      BY <2>8, <2>16, <3>1 DEF AndEnd, a
    <3>3. r.msel.rows = a.merged
      BY <3>2 DEF Select
    <3>4. Filtered(s, f, r)
      BY <2>5, <2>14, <2>16, <3>1, <3>3 DEF Filtered
    <3> QED
      BY <3>4 DEF r
  <2> QED
    BY <2>15, <2>16
<1> QED
  BY <1>1, <1>2
-----------------------------------------------------------------------------
(* Scans with sketches.                                                    *)

\* Where the scan returns rows of its filter only: no value is updated or
\* negative, sketches describe whole vectors, segments end between vectors,
\* one query scans at a time, and the filters are ranges.
WithinReach ==
  /\ "update" \notin Modify /\ Value \subseteq Nat
  /\ ChunkSize \subseteq {STANDARD_VECTOR_SIZE} /\ SegmentEnds \subseteq {FALSE}
  /\ \A p, q \in Query : p = q
  /\ \A f \in Filter : RangeFilter(f)

\* Sketch k describes vector k - 1.
Aligned ==
  /\ DOMAIN updates = {}
  /\ is_sketched =>
        /\ Len(data) = STANDARD_VECTOR_SIZE * Len(segment_sketches)
        /\ \A k \in 1..Len(segment_sketches) :
              LET base == segment_sketches[k].base_data IN
              /\ DOMAIN base = 1..STANDARD_VECTOR_SIZE
              /\ \A i \in 1..STANDARD_VECTOR_SIZE : base[i] = data[(k - 1) * STANDARD_VECTOR_SIZE + i]

\* Row i of vector k, of L vectors of size S, is a row of the table.
LEMMA Places ==
  ASSUME NEW S \in Nat \ {0}, NEW L \in Nat, NEW k \in 1..L, NEW i \in 1..S
  PROVE  (k - 1) * S + i \in 1..S * L
<1>1. (k - 1) * S \in Nat /\ (k - 1) * S + S = S * k
  OBVIOUS
<1>2. S * k <= S * L /\ S * L \in Nat
  <2>1. L - k \in Nat /\ S * (L - k) \in Nat
    OBVIOUS
  <2>2. S * L = S * k + S * (L - k)
    OBVIOUS
  <2> QED
    BY <2>1, <2>2
<1>3. (k - 1) * S + i <= S * k /\ (k - 1) * S + i >= 1
  BY <1>1
<1> QED
  BY <1>1, <1>2, <1>3

\* Appends of full vectors keep every sketch over the rows of its vector.
LEMMA AlignedStep ==
  ASSUME WithinReach, TableTypes, SketchTypes, Aligned, [Next]_vars
  PROVE  Aligned'
<1>1. ASSUME NEW n \in ChunkSize, NEW chunk \in [1..n -> Value], SketchAppend(chunk)
      PROVE  Aligned'
  <2> DEFINE S == STANDARD_VECTOR_SIZE
             L == Len(segment_sketches)
             base == [i \in DOMAIN chunk |-> Unsigned(chunk[i])]
             s == BuildSketch(base)
  <2>1. data' = data \o chunk /\ updates' = updates /\ is_sketched' = is_sketched
    BY <1>1 DEF SketchAppend
  <2>2. n = S /\ S \in Nat \ {0} /\ L \in Nat /\ DOMAIN chunk = 1..S /\ chunk \in Seq(Value) /\ Len(chunk) = S
    BY ScanConstants DEF WithinReach, SketchTypes
  <2>3. \A i \in 1..S : Unsigned(chunk[i]) = chunk[i]
    <3> SUFFICES ASSUME NEW i \in 1..S PROVE Unsigned(chunk[i]) = chunk[i]
      OBVIOUS
    <3> DEFINE H == 2^(Width - 1)
               W == 2^Width
               v == chunk[i]
    <3>1. v \in Nat /\ v \in (-H)..(H - 1) /\ H \in Nat \ {0} /\ W = 2 * H
      BY <2>2, SketchConstants, ScanConstants DEF WithinReach, Signed
    <3>2. Unsigned(v) = v % W
      BY DEF Unsigned
    <3> HIDE DEF H, W, v
    <3>3. W \in Nat \ {0} /\ v \in 0..W - 1
      BY <3>1
    <3>4. v % W = v
      BY <3>3
    <3> QED
      BY <3>2, <3>4 DEF v
  <2>4. ASSUME is_sketched
        PROVE  /\ Len(data') = S * Len(segment_sketches')
               /\ \A k \in 1..Len(segment_sketches') :
                     LET b == segment_sketches'[k].base_data IN
                     DOMAIN b = 1..S /\ \A i \in 1..S : b[i] = data'[(k - 1) * S + i]
    <3>1. segment_sketches' = Append(segment_sketches, s)
      BY <1>1, <2>4 DEF SketchAppend
    <3>2. s.base_data = base /\ s \in Sketches
      BY ChunkSketch
    <3>3. DOMAIN base = 1..S /\ \A i \in 1..S : base[i] = chunk[i]
      BY <2>2, <2>3
    <3> HIDE DEF s, base, L, S
    <3>4. Len(data) = S * L /\ Len(data) \in Nat /\ data \in Seq(Value)
      BY <2>4 DEF Aligned, S, L, TableTypes
    <3>5. /\ Len(segment_sketches') = L + 1 /\ segment_sketches'[L + 1] = s
          /\ \A k \in 1..L : segment_sketches'[k] = segment_sketches[k]
      BY <2>2, <3>1, <3>2 DEF SketchTypes, L
    <3>6. Len(data') = Len(data) + S
      <4>1. Len(data \o chunk) = Len(data) + Len(chunk)
        BY <2>2, <3>4
      <4> QED
        BY <2>1, <2>2, <4>1
    <3>7. Len(data') = S * (L + 1)
      BY <2>2, <3>4, <3>6
    <3>8. ASSUME NEW k \in 1..L + 1, NEW i \in 1..S
          PROVE  LET b == segment_sketches'[k].base_data IN
                 DOMAIN b = 1..S /\ b[i] = data'[(k - 1) * S + i]
      <4>1. CASE k = L + 1
        <5>1. (k - 1) * S = Len(data)
          BY <2>2, <3>4, <4>1
        <5>2. data'[Len(data) + i] = chunk[i]
          BY <2>1, <2>2, <3>4
        <5> QED
          BY <3>2, <3>3, <3>5, <4>1, <5>1, <5>2
      <4>2. CASE k # L + 1
        <5>1. k \in 1..L
          BY <2>2, <4>2
        <5>2. (k - 1) * S + i \in 1..Len(data)
          BY <2>2, <3>4, <5>1, Places
        <5>3. data'[(k - 1) * S + i] = data[(k - 1) * S + i]
          BY <2>1, <2>2, <3>4, <5>2
        <5>4. LET b == segment_sketches[k].base_data IN
              DOMAIN b = 1..S /\ b[i] = data[(k - 1) * S + i]
          BY <2>4, <5>1 DEF Aligned, S, L
        <5> QED
          BY <3>5, <5>1, <5>3, <5>4
      <4> QED
        BY <4>1, <4>2
    <3>9. 1 \in 1..S
      BY <2>2
    <3> QED
      BY <3>5, <3>7, <3>8, <3>9
  <2> QED
    BY <2>1, <2>4 DEF Aligned
<1>2. CASE UNCHANGED <<data, updates, is_sketched, segment_sketches>>
  BY <1>2 DEF Aligned
<1>3. CASE UNCHANGED vars
  BY <1>2, <1>3 DEF vars
<1>4. CASE \E r \in DOMAIN data : Delete(r)
  BY <1>2, <1>4 DEF Delete
<1>5. ASSUME NEW r \in DOMAIN data, NEW v \in Value, Update(r, v) PROVE FALSE
  BY <1>5 DEF Update, WithinReach
<1>6. CASE \E q \in Query, f \in Filter : StartScan(q, f)
  BY <1>2, <1>6 DEF StartScan
<1>7. CASE \E q \in Query : \/ CheckSketchSegments(q) \/ CheckZonemapSegments(q)
                            \/ ReadVector(q) \/ EndScan(q)
  BY <1>2, <1>7 DEF CheckSketchSegments, CheckZonemapSegments, ReadVector, EndScan
<1> QED
  BY <1>1, <1>3, <1>4, <1>5, <1>6, <1>7 DEF Next

\* The rows of a vector and the values that its sketch describes.
LEMMA VectorRows ==
  ASSUME TableTypes, SketchTypes, Aligned, is_sketched, NEW v \in Nat, v < Len(segment_sketches)
  PROVE  /\ \A i \in 1..STANDARD_VECTOR_SIZE :
               /\ v * STANDARD_VECTOR_SIZE + i \in Vector(v)
               /\ Current(v * STANDARD_VECTOR_SIZE + i) = segment_sketches[v + 1].base_data[i]
         /\ \A r \in Vector(v) : \E i \in 1..STANDARD_VECTOR_SIZE : r = v * STANDARD_VECTOR_SIZE + i
         /\ DOMAIN segment_sketches[v + 1].base_data = 1..STANDARD_VECTOR_SIZE
         /\ (v + 1) * STANDARD_VECTOR_SIZE <= Len(data)
<1> DEFINE S == STANDARD_VECTOR_SIZE
           L == Len(segment_sketches)
<1>1. S \in Nat \ {0} /\ L \in Nat /\ v + 1 \in 1..L /\ (v + 1) - 1 = v
  BY ScanConstants DEF SketchTypes
<1>2. /\ Len(data) = S * L /\ DOMAIN data = 1..S * L /\ DOMAIN updates = {}
      /\ DOMAIN segment_sketches[v + 1].base_data = 1..S
      /\ \A i \in 1..S : segment_sketches[v + 1].base_data[i] = data[v * S + i]
  BY <1>1 DEF Aligned, TableTypes
<1>3. \A x : Vector(x) = {r \in DOMAIN data : (r - 1) \div S = x}
  BY DEF Vector
<1> HIDE DEF S, L
<1>4. ASSUME NEW i \in 1..S
      PROVE  v * S + i \in DOMAIN data /\ ((v * S + i) - 1) \div S = v
  <2>1. v * S + i \in 1..S * L
    BY <1>1, Places
  <2>2. ((v * S + i) - 1) \div S = v
    BY <1>1
  <2> QED
    BY <1>2, <2>1, <2>2
<1>5. ASSUME NEW r \in Vector(v) PROVE \E i \in 1..S : r = v * S + i
  <2>1. r \in Nat \ {0} /\ (r - 1) \div S = v
    BY <1>1, <1>2, <1>3, <1>5
  <2>2. r - v * S \in 1..S /\ r = v * S + (r - v * S)
    BY <1>1, <2>1
  <2> QED
    BY <2>2
<1>6. (v + 1) * S <= Len(data)
  <2>1. S \in 1..S
    BY <1>1
  <2>2. v * S + S \in DOMAIN data
    BY <1>4, <2>1
  <2>3. (v + 1) * S = v * S + S
    BY <1>1
  <2>4. v * S + S \in 1..S * L
    BY <1>2, <2>2
  <2> QED
    BY <1>1, <1>2, <2>3, <2>4
<1>7. ASSUME NEW i \in 1..S PROVE Current(v * S + i) = segment_sketches[v + 1].base_data[i]
  BY <1>2 DEF Current
<1> QED
  BY <1>2, <1>3, <1>4, <1>5, <1>6, <1>7 DEF S

\* A scan about to read a vector finds in vector_sels what its own check left.
SelectionFits(q) ==
  LET k == scan[q].vector_index + 1 IN
  /\ scan[q].vector_index < Len(segment_sketches)
  /\ vector_sels[k].rows = Selected(segment_sketches[k], scan[q].filter)

\* The scan has been at its rows, and they satisfy the filter.
Sound(q) ==
  \A r \in scan[q].rows :
     r \in DOMAIN data /\ FilterHolds(scan[q].filter, Current(r))
     /\ (r - 1) \div STANDARD_VECTOR_SIZE < scan[q].vector_index

\* A comparison overlooks row r.
Missed(q, r) ==
  LET v == (r - 1) \div STANDARD_VECTOR_SIZE IN
  \E g \in Comparisons(scan[q].filter) :
     Overlooked(segment_sketches[v + 1], g, r - v * STANDARD_VECTOR_SIZE)

MissesOnly(q) == \A r \in Qualifying(q) \cap Seen(q) : r \in scan[q].rows <=> ~ Missed(q, r)

ScansRight ==
  is_sketched => \A q \in Scanning :
     /\ scan[q].phase = "read" => SelectionFits(q)
     /\ Sound(q) /\ MissesOnly(q)

\* A vector that is skipped, or read, leaves the rows sound and exact: those
\* that are added satisfy the filter, and are all that are not overlooked.
LEMMA VectorDone ==
  ASSUME TableTypes, SketchTypes, Aligned, is_sketched, NEW q \in Query, Going(q),
         Sound(q), MissesOnly(q), scan[q].vector_index < Len(segment_sketches),
         UNCHANGED <<data, updates, deleted, segment_sketches>>,
         NEW new, scan' = [p \in Query |-> IF p = q THEN new ELSE scan[p]],
         new.filter = scan[q].filter, new.vector_index = scan[q].vector_index + 1,
         NEW picked, new.rows = scan[q].rows \cup picked,
         \A r \in picked : r \in Vector(scan[q].vector_index)
                           /\ FilterHolds(scan[q].filter, Current(r)),
         \A r \in Qualifying(q) \cap Vector(scan[q].vector_index) : r \in picked <=> ~ Missed(q, r)
  PROVE  Sound(q)' /\ MissesOnly(q)'
<1> DEFINE v == scan[q].vector_index
           f == scan[q].filter
           VecOf(r) == (r - 1) \div STANDARD_VECTOR_SIZE
<1>1. scan'[q] = new /\ v \in Nat
  BY DEF Going
<1>2. Qualifying(q)' = Qualifying(q)
  BY <1>1 DEF Qualifying, Current
<1>3. Seen(q)' = Seen(q) \cup Vector(v)
  BY <1>1, VectorsInOrder DEF Seen
<1>4. \A r \in DOMAIN data : VecOf(r) \in Int
  <2>1. STANDARD_VECTOR_SIZE \in Nat \ {0} /\ \A r \in DOMAIN data : r \in Int
    BY ScanConstants DEF TableTypes
  <2>2. \A S \in Nat \ {0} : \A r \in Int : (r - 1) \div S \in Int
    OBVIOUS
  <2> QED
    BY <2>1, <2>2
<1>5. \A r \in picked : r \in DOMAIN data /\ VecOf(r) = v
  BY DEF Vector
<1>6. Sound(q)'
  <2> SUFFICES ASSUME NEW r \in scan'[q].rows
               PROVE  r \in DOMAIN data /\ FilterHolds(f, Current(r)) /\ VecOf(r) < v + 1
    BY <1>1 DEF Sound, Current
  <2>1. CASE r \in picked
    BY <1>1, <1>5, <2>1
  <2>2. CASE r \in scan[q].rows
    <3>1. r \in DOMAIN data /\ FilterHolds(f, Current(r)) /\ VecOf(r) < v
      BY <2>2 DEF Sound
    <3>2. VecOf(r) \in Int
      BY <1>4, <3>1
    <3> HIDE DEF VecOf, v
    <3> QED
      BY <1>1, <3>1, <3>2
  <2> QED
    BY <1>1, <2>1, <2>2
<1>7. \A r : Missed(q, r)' <=> Missed(q, r)
  BY <1>1 DEF Missed
<1>8. \A r \in Seen(q) : VecOf(r) \in Int /\ VecOf(r) < v
  BY <1>4 DEF Seen
<1>9. \A r \in scan[q].rows : VecOf(r) \in Int /\ VecOf(r) < v
  BY <1>4 DEF Sound
<1>10. \A r \in Vector(v) : VecOf(r) = v
  BY DEF Vector
<1> HIDE DEF VecOf, v
<1>11. ASSUME NEW r \in Qualifying(q), r \in Seen(q) PROVE r \in scan'[q].rows <=> ~ Missed(q, r)
  <2>1. r \notin picked
    BY <1>1, <1>5, <1>8, <1>11
  <2>2. r \in scan[q].rows <=> ~ Missed(q, r)
    BY <1>11 DEF MissesOnly
  <2> QED
    BY <1>1, <2>1, <2>2
<1>12. ASSUME NEW r \in Qualifying(q), r \in Vector(v) PROVE r \in scan'[q].rows <=> ~ Missed(q, r)
  <2>1. r \notin scan[q].rows
    BY <1>1, <1>9, <1>10, <1>12
  <2>2. r \in picked <=> ~ Missed(q, r)
    BY <1>12 DEF v
  <2> QED
    BY <1>1, <2>1, <2>2
<1>13. MissesOnly(q)'
  <2>1. \A r \in Qualifying(q)' \cap Seen(q)' : r \in scan'[q].rows <=> ~ Missed(q, r)
    BY <1>2, <1>3, <1>11, <1>12
  <2> HIDE DEF Missed
  <2> QED
    BY <1>7, <2>1 DEF MissesOnly
<1> QED
  BY <1>6, <1>13

\* In a vector that a sketch describes, the rows it selects are those that
\* satisfy the filter and are not overlooked.
LEMMA RowOfVector ==
  ASSUME TableTypes, NEW q \in Query, Going(q),
         NEW x, NEW i \in 1..STANDARD_VECTOR_SIZE,
         x = scan[q].vector_index * STANDARD_VECTOR_SIZE + i, x \in Vector(scan[q].vector_index),
         LET s == segment_sketches[scan[q].vector_index + 1] IN
             DOMAIN s.base_data = 1..STANDARD_VECTOR_SIZE /\ Current(x) = s.base_data[i]
  PROVE  LET s == segment_sketches[scan[q].vector_index + 1] IN
         i \in Selected(s, scan[q].filter) <=>
             FilterHolds(scan[q].filter, Current(x)) /\ ~ Missed(q, x)
<1> DEFINE v == scan[q].vector_index
           S == STANDARD_VECTOR_SIZE
           s == segment_sketches[v + 1]
<1>1. (x - 1) \div S = v
  BY DEF Vector
<1>2. x - v * S = i
  <2>1. v \in Nat /\ S \in Nat
    BY ScanConstants DEF Going
  <2>2. v * S \in Nat
    BY <2>1
  <2> HIDE DEF v, S
  <2>3. i \in Nat /\ x = v * S + i
    BY <2>1 DEF v, S
  <2> QED
    BY <2>2, <2>3
<1>3. Missed(q, x) <=> \E g \in Comparisons(scan[q].filter) : Overlooked(s, g, i)
  BY <1>1, <1>2 DEF Missed
<1> QED
  BY <1>3 DEF Selected, Satisfying

\* Every step keeps the sketched scan's rows sound and exact.
LEMMA ScansRightStep ==
  ASSUME WithinReach, TableTypes, SketchTypes, Aligned, ScansRight, Next
  PROVE  ScansRight'
<1> SUFFICES ASSUME is_sketched', NEW p \in Query, scan'[p] # Idle
             PROVE  /\ scan'[p].phase = "read" => SelectionFits(p)'
                    /\ Sound(p)' /\ MissesOnly(p)'
  BY DEF ScansRight, Scanning
<1>e. is_sketched' = is_sketched
  BY ZenonT(30) DEF Next, SketchAppend, Delete, Update, StartScan, CheckSketchSegments,
                    CheckZonemapSegments, ReadVector, EndScan
<1>s. is_sketched /\ \A q \in Query : q = p
  BY <1>e DEF WithinReach
<1>x. scan[p] # Idle => (scan[p].phase = "read" => SelectionFits(p)) /\ Sound(p) /\ MissesOnly(p)
  BY <1>s DEF ScansRight, Scanning
<1>1. ASSUME NoScan, UNCHANGED scan PROVE FALSE
  BY <1>1 DEF NoScan
<1>2. ASSUME NEW f \in Filter, StartScan(p, f)
      PROVE  /\ scan'[p].phase = "read" => SelectionFits(p)'
             /\ Sound(p)' /\ MissesOnly(p)'
  <2>1. /\ UNCHANGED <<data, updates, deleted>>
        /\ scan'[p] = [phase |-> "check", filter |-> f, vector_index |-> 0, rows |-> {}]
    BY <1>2 DEF StartScan, TableTypes
  <2>2. Seen(p)' = {}
    BY <2>1, VectorsInOrder DEF Seen
  <2>3. Sound(p)' /\ scan'[p].phase # "read"
    BY <2>1 DEF Sound
  <2>4. MissesOnly(p)'
    BY <2>2 DEF MissesOnly
  <2> QED
    BY <2>3, <2>4
<1>3. ASSUME CheckSketchSegments(p)
      PROVE  /\ scan'[p].phase = "read" => SelectionFits(p)'
             /\ Sound(p)' /\ MissesOnly(p)'
  <2> DEFINE v == scan[p].vector_index
             f == scan[p].filter
             s == segment_sketches[v + 1]
             r == CheckSketchStatistics(s, f, vector_sels[v + 1])
  <2>1. /\ scan[p].phase = "check" /\ HasVector(p)
        /\ UNCHANGED <<data, updates, deleted, segment_sketches>>
        /\ vector_sels' = [vector_sels EXCEPT ![v + 1] = r.msel]
        /\ \/ (r.result # "FILTER_ALWAYS_FALSE" \/ TRUE \in EndsInside(v)) /\ scan' = ReadThis(p)
           \/ r.result = "FILTER_ALWAYS_FALSE" /\ scan' = NextVector(p)
    BY <1>3 DEF CheckSketchSegments
  <2>2. Going(p) /\ v \in Nat /\ f \in Filter /\ RangeFilter(f)
    BY <2>1, InPhase DEF Going, WithinReach
  <2>3. Sound(p) /\ MissesOnly(p)
    BY <1>x, <2>2 DEF Going
  <2>4. v < Len(segment_sketches)
    <3> DEFINE S == STANDARD_VECTOR_SIZE
               L == Len(segment_sketches)
    <3>1. S \in Nat \ {0} /\ L \in Nat /\ v * S < S * L
      BY <1>s, <2>1, ScanConstants DEF HasVector, Aligned, SketchTypes
    <3> HIDE DEF S, L, v
    <3>2. ASSUME ~ (v < L) PROVE FALSE
      <4>1. v - L \in Nat /\ S * (v - L) \in Nat
        BY <2>2, <3>1, <3>2
      <4>2. v * S = S * L + S * (v - L)
        BY <2>2, <3>1
      <4>3. v * S \in Nat /\ S * L \in Nat
        BY <2>2, <3>1
      <4> QED
        BY <3>1, <4>1, <4>2, <4>3
    <3> QED
      BY <3>2 DEF L
  <2>5. /\ DOMAIN s.base_data = 1..STANDARD_VECTOR_SIZE
        /\ (v + 1) * STANDARD_VECTOR_SIZE <= Len(data)
        /\ \A i \in 1..STANDARD_VECTOR_SIZE :
               /\ v * STANDARD_VECTOR_SIZE + i \in Vector(v)
               /\ Current(v * STANDARD_VECTOR_SIZE + i) = s.base_data[i]
        /\ \A x \in Vector(v) : \E i \in 1..STANDARD_VECTOR_SIZE : x = v * STANDARD_VECTOR_SIZE + i
    BY <1>s, <2>2, <2>4, VectorRows
  <2>6. v + 1 \in DOMAIN vector_sels /\ v + 1 \in DOMAIN segment_sketches
        /\ vector_sels[v + 1] \in SelOf(DOMAIN s.base_data) /\ s \in Sketches
    <3>1. v + 1 \in 1..Len(segment_sketches)
      BY <2>2, <2>4 DEF SketchTypes
    <3>2. v + 1 \in DOMAIN vector_sels /\ v + 1 \in DOMAIN segment_sketches
      BY <3>1 DEF SketchTypes
    <3> QED
      BY <3>2 DEF SketchTypes
  <2>7. Filtered(s, f, r)
    <3>0. PICK n \in ChunkSize : \E m : SketchOf(s, n, m)
      BY <2>6, EverySketch
    <3>1. PICK m : SketchOf(s, n, m)
      BY <3>0
    <3> HIDE DEF s, f, v
    <3> QED
      BY <2>2, <2>6, <3>1, FilterRows
  <2>8. ~ (TRUE \in EndsInside(v))
    <3>1. ~ ((v + 1) * STANDARD_VECTOR_SIZE > Len(data))
      <4>1. (v + 1) * STANDARD_VECTOR_SIZE \in Nat /\ Len(data) \in Nat
        BY <2>2, ScanConstants DEF TableTypes
      <4> QED
        BY <2>5, <4>1
    <3> QED
      BY <3>1 DEF EndsInside, WithinReach
  <2>9. vector_sels'[v + 1] = r.msel
    BY <2>1, <2>6
  <2> HIDE DEF r
  <2>10. CASE r.result # "FILTER_ALWAYS_FALSE" /\ scan' = ReadThis(p)
    <3>1. scan'[p] = [phase |-> "read", filter |-> f, vector_index |-> v, rows |-> scan[p].rows]
      BY <2>2, <2>10, ScanGoesOn
    <3>2. scan'[p].filter = f /\ scan'[p].vector_index = v /\ scan'[p].rows = scan[p].rows
      BY <3>1
    <3>3. SelectionFits(p)'
      <4>1. r.msel.rows = Selected(s, f)
        BY <2>7, <2>10 DEF Filtered
      <4>2. vector_sels'[scan'[p].vector_index + 1].rows = r.msel.rows
            /\ segment_sketches'[scan'[p].vector_index + 1] = s
        BY <2>1, <2>9, <3>2
      <4>3. scan'[p].vector_index < Len(segment_sketches')
        BY <2>1, <2>4, <3>2
      <4> HIDE DEF s, f, v
      <4> QED
        BY <3>2, <4>1, <4>2, <4>3 DEF SelectionFits
    <3>4. Sound(p)'
      BY <2>1, <2>3, <3>2 DEF Sound, Current
    <3>5. Qualifying(p)' = Qualifying(p) /\ Seen(p)' = Seen(p) /\ \A x : Missed(p, x)' <=> Missed(p, x)
      BY <2>1, <3>2 DEF Qualifying, Seen, Current, Missed
    <3>6. MissesOnly(p)'
      BY <2>1, <2>3, <3>2, <3>5 DEF MissesOnly
    <3> QED
      BY <3>3, <3>4, <3>6
  <2>11. CASE r.result = "FILTER_ALWAYS_FALSE" /\ scan' = NextVector(p)
    <3> DEFINE new == [phase |-> "check", filter |-> f, vector_index |-> v + 1, rows |-> scan[p].rows]
    <3>1. scan' = [x \in Query |-> IF x = p THEN new ELSE scan[x]]
      BY <2>2, <2>11, ScanGoesOn
    <3>2. /\ new.filter = f /\ new.vector_index = v + 1 /\ new.rows = scan[p].rows \cup {}
          /\ new.phase = "check" /\ scan'[p] = new
      BY <3>1
    <3>3. ASSUME NEW x \in Qualifying(p) \cap Vector(v) PROVE Missed(p, x)
      <4>1. PICK i \in 1..STANDARD_VECTOR_SIZE : x = v * STANDARD_VECTOR_SIZE + i
        BY <2>5
      <4>2. Current(x) = s.base_data[i] /\ FilterHolds(f, Current(x))
        BY <2>5, <4>1 DEF Qualifying
      <4>3. i \notin Selected(s, f)
        BY <2>7, <2>11 DEF Filtered
      <4> QED
        BY <2>2, <2>5, <4>1, <4>2, <4>3, RowOfVector
    <3> DEFINE none == {}
    <3>4. /\ new.rows = scan[p].rows \cup none
          /\ \A x \in none : x \in Vector(v) /\ FilterHolds(f, Current(x))
          /\ \A x \in Qualifying(p) \cap Vector(v) : x \in none <=> ~ Missed(p, x)
      BY <3>2, <3>3
    <3> HIDE DEF new, none
    <3>5. Sound(p)' /\ MissesOnly(p)'
      BY <1>s, <2>1, <2>2, <2>3, <2>4, <3>1, <3>2, <3>4, VectorDone
    <3> QED
      BY <3>2, <3>5
  <2> QED
    BY <2>1, <2>8, <2>10, <2>11
<1>4. ASSUME ReadVector(p)
      PROVE  /\ scan'[p].phase = "read" => SelectionFits(p)'
             /\ Sound(p)' /\ MissesOnly(p)'
  <2> DEFINE v == scan[p].vector_index
             f == scan[p].filter
             s == segment_sketches[v + 1]
             new == [phase |-> "check", filter |-> f, vector_index |-> v + 1,
                     rows |-> scan[p].rows \cup Picked(p)]
  <2>1. scan[p].phase = "read" /\ UNCHANGED <<data, updates, deleted, segment_sketches>>
    BY <1>4 DEF ReadVector
  <2>2. Going(p) /\ v \in Nat
    BY <2>1, InPhase DEF Going
  <2>3. Sound(p) /\ MissesOnly(p) /\ SelectionFits(p)
    BY <1>x, <2>1, <2>2 DEF Going
  <2>4. /\ v < Len(segment_sketches)
        /\ vector_sels[v + 1].rows = Selected(s, f)
    BY <2>3 DEF SelectionFits
  <2>5. /\ DOMAIN s.base_data = 1..STANDARD_VECTOR_SIZE
        /\ \A i \in 1..STANDARD_VECTOR_SIZE :
               /\ v * STANDARD_VECTOR_SIZE + i \in Vector(v)
               /\ Current(v * STANDARD_VECTOR_SIZE + i) = s.base_data[i]
        /\ \A x \in Vector(v) : \E i \in 1..STANDARD_VECTOR_SIZE : x = v * STANDARD_VECTOR_SIZE + i
    BY <1>s, <2>2, <2>4, VectorRows
  <2>6. Picked(p) = IF Vector(v) \ deleted = {} THEN {}
                    ELSE {v * STANDARD_VECTOR_SIZE + i : i \in vector_sels[v + 1].rows}
    BY <1>s DEF Picked
  <2>7. ASSUME NEW x \in Picked(p) PROVE x \in Vector(v) /\ FilterHolds(f, Current(x))
    <3>1. PICK i \in vector_sels[v + 1].rows : x = v * STANDARD_VECTOR_SIZE + i
      BY <2>6, <2>7
    <3>2. i \in 1..STANDARD_VECTOR_SIZE /\ FilterHolds(f, s.base_data[i])
      BY <2>4, <2>5, <3>1 DEF Selected, Satisfying
    <3> QED
      BY <2>5, <3>1, <3>2
  <2>8. ASSUME NEW x \in Qualifying(p) \cap Vector(v) PROVE x \in Picked(p) <=> ~ Missed(p, x)
    <3>1. PICK i \in 1..STANDARD_VECTOR_SIZE : x = v * STANDARD_VECTOR_SIZE + i
      BY <2>5
    <3>2. Current(x) = s.base_data[i] /\ FilterHolds(f, Current(x)) /\ x \in Vector(v) \ deleted
      BY <2>5, <3>1 DEF Qualifying
    <3>3. i \in Selected(s, f) <=> ~ Missed(p, x)
      BY <2>2, <2>5, <3>1, <3>2, RowOfVector
    <3>4. \A j \in 1..STANDARD_VECTOR_SIZE : x = v * STANDARD_VECTOR_SIZE + j => j = i
      <4>1. v * STANDARD_VECTOR_SIZE \in Nat
        BY <2>2, ScanConstants
      <4> HIDE DEF v
      <4> QED
        BY <3>1, <4>1
    <3>5. vector_sels[v + 1].rows \subseteq 1..STANDARD_VECTOR_SIZE
      BY <2>4, <2>5 DEF Selected, Satisfying
    <3>6. x \in Picked(p) <=> i \in vector_sels[v + 1].rows
      BY <2>6, <3>1, <3>2, <3>4, <3>5
    <3> QED
      BY <2>4, <3>3, <3>6
  <2>9. scan' = [x \in Query |-> IF x = p THEN new ELSE scan[x]]
    BY <1>4, RowsAdded
  <2>10. /\ new.filter = f /\ new.vector_index = v + 1 /\ new.rows = scan[p].rows \cup Picked(p)
         /\ new.phase = "check" /\ scan'[p] = new
    BY <2>9
  <2> HIDE DEF new
  <2>11. Sound(p)' /\ MissesOnly(p)'
    BY <1>s, <2>1, <2>2, <2>3, <2>4, <2>7, <2>8, <2>9, <2>10, VectorDone
  <2> QED
    BY <2>10, <2>11
<1>5. ASSUME EndScan(p) PROVE FALSE
  BY <1>5 DEF EndScan, TableTypes
<1>6. ASSUME CheckZonemapSegments(p) PROVE FALSE
  BY <1>s, <1>6 DEF CheckZonemapSegments
<1>7. CASE \E n \in ChunkSize : \E chunk \in [1..n -> Value] : SketchAppend(chunk)
  BY <1>1, <1>7 DEF SketchAppend
<1>8. CASE \E r \in DOMAIN data : Delete(r)
  BY <1>1, <1>8 DEF Delete
<1>9. CASE \E r \in DOMAIN data, v \in Value : Update(r, v)
  BY <1>1, <1>9 DEF Update
<1>10. \/ \E f \in Filter : StartScan(p, f)
       \/ CheckSketchSegments(p) \/ CheckZonemapSegments(p) \/ ReadVector(p) \/ EndScan(p)
       \/ \E n \in ChunkSize : \E chunk \in [1..n -> Value] : SketchAppend(chunk)
       \/ \E r \in DOMAIN data : Delete(r)
       \/ \E r \in DOMAIN data, v \in Value : Update(r, v)
  BY <1>s DEF Next
<1> QED
  BY <1>2, <1>3, <1>4, <1>5, <1>6, <1>7, <1>8, <1>9, <1>10

\* In reach, sketched scans always have the right rows.
LEMMA ScansRightAlways ==
  ASSUME WithinReach
  PROVE  Spec => []ScansRight
<1> DEFINE Inv == TableTypes /\ SketchTypes /\ Aligned /\ ScansRight
<1>1. Init => Inv
  <2> SUFFICES ASSUME Init PROVE Inv
    OBVIOUS
  <2>1. TableTypes /\ SketchTypes
    BY TypesInit DEF Init, SketchTypes
  <2>2. Scanning = {} /\ DOMAIN updates = {} /\ data = <<>> /\ segment_sketches = <<>>
    BY DEF Init, Scanning
  <2>3. Aligned
    BY <2>2, ScanConstants DEF Aligned
  <2> QED
    BY <2>1, <2>2, <2>3 DEF ScansRight
<1>2. Inv /\ [Next]_vars => Inv'
  <2> SUFFICES ASSUME Inv, [Next]_vars PROVE Inv'
    OBVIOUS
  <2>1. TableTypes' /\ SketchTypes' /\ Aligned'
    BY TypesStep, SketchTypesStep, AlignedStep
  <2>2. CASE Next
    BY <2>1, <2>2, ScansRightStep
  <2>3. CASE UNCHANGED vars
    <3>1. ScansRight'
      BY <2>3 DEF vars, ScansRight, Scanning, SelectionFits, Sound, MissesOnly, Missed, Qualifying, Seen, Current
    <3> QED
      BY <2>1, <3>1
  <2> QED
    BY <2>2, <2>3
<1> QED
  BY <1>1, <1>2, PTL DEF Spec

\* Within reach, for any values, operands, codes, lanes and vector size, every
\* row that a sketched scan returns satisfies the filter, although it reads a
\* selection that is shared and merged from several comparisons.
THEOREM SketchedScansAreSound ==
  ASSUME WithinReach
  PROVE  Spec => []SketchScanSound
<1>1. ScansRight => SketchScanSound
  BY DEF ScansRight, SketchScanSound, Sound
<1> QED
  BY <1>1, ScansRightAlways, PTL

\* Within reach the qualifying rows that a sketched scan misses are exactly those
\* that a comparison overlooks: rows of a chunk with few distinct values, in a
\* whole vector of codes, that no endpoint parts from the operand.
THEOREM SketchedScansMissOverlooked ==
  ASSUME WithinReach
  PROVE  Spec => []SketchScanMissesOverlooked
<1>1. ScansRight => SketchScanMissesOverlooked
  BY DEF ScansRight, SketchScanMissesOverlooked, MissesOnly, Missed
<1> QED
  BY <1>1, ScansRightAlways, PTL
=============================================================================
