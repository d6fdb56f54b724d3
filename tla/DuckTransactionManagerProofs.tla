-------------------- MODULE DuckTransactionManagerProofs --------------------
(***************************************************************************)
(* Proofs about DuckTransactionManager, for any number of transactions and *)
(* queries, and about CheckpointDecision: every step of it is a step of    *)
(* the manager or leaves the manager alone, so what the first part shows   *)
(* of the manager holds in the second as well.                             *)
(***************************************************************************)
EXTENDS CheckpointDecision, WellFoundedInduction, TLAPS

\* Min of the community modules is the least element of a set of naturals.
LEMMA MinIsLeast ==
  ASSUME NEW S \in SUBSET Nat, S # {}
  PROVE  Min(S) \in S /\ \A x \in S : Min(S) <= x
<1>1. \E x \in S : \A y \in S : ~ (<<y, x>> \in OpToRel(<, Nat))
  BY NatLessThanWellFounded, WFMin
<1>2. PICK x \in S : \A y \in S : ~ (<<y, x>> \in OpToRel(<, Nat))
  BY <1>1
<1>3. OpToRel(<, Nat) = {ss \in Nat \X Nat : ss[1] < ss[2]}
  BY DEF OpToRel
<1>4. \A y \in S : ~ (<<y, x>> \in {ss \in Nat \X Nat : ss[1] < ss[2]})
  BY <1>2, <1>3
<1>5. \A y \in S : x <= y
  <2> SUFFICES ASSUME NEW y \in S PROVE x <= y
    OBVIOUS
  <2>1. ~ (y < x)
    BY <1>4
  <2> QED
    BY <2>1
<1> QED
  BY <1>5 DEF Min

\* The loops of RemoveTransaction stop at the first index in stops.
LEMMA PrefixBeforeStops ==
  ASSUME NEW n \in Nat, NEW stops \in SUBSET (1..n)
  PROVE  /\ PrefixBefore(n, stops) \in 0..n
         /\ \A i \in 1..PrefixBefore(n, stops) : i \notin stops
<1>1. CASE stops = {}
  BY <1>1 DEF PrefixBefore
<1>2. CASE stops # {}
  <2>1. Min(stops) \in stops /\ \A x \in stops : Min(stops) <= x
    BY <1>2, MinIsLeast
  <2>2. PICK m \in 1..n : m = Min(stops)
    BY <2>1
  <2>3. PrefixBefore(n, stops) = m - 1
    BY <1>2, <2>2 DEF PrefixBefore
  <2>4. \A x \in stops : m <= x
    BY <2>1, <2>2
  <2> QED
    BY <2>3, <2>4
<1> QED
  BY <1>1, <1>2

\* The members of a list.
LEMMA Members ==
  ASSUME NEW T, NEW s \in Seq(T)
  PROVE  /\ \A x \in ToSet(s) : x \in T /\ \E i \in 1..Len(s) : s[i] = x
         /\ \A i \in 1..Len(s) : s[i] \in ToSet(s)
  BY DEF ToSet

\* Cutting a list in two.
LEMMA CutList ==
  ASSUME NEW T, NEW s \in Seq(T), NEW n \in 0..Len(s)
  PROVE  /\ SubSeq(s, 1, n) \in Seq(T) /\ SubSeq(s, n + 1, Len(s)) \in Seq(T)
         /\ Len(SubSeq(s, 1, n)) = n
         /\ Len(SubSeq(s, n + 1, Len(s))) = Len(s) - n
         /\ \A i \in 1..n : SubSeq(s, 1, n)[i] = s[i]
         /\ \A i \in 1..Len(s) - n : SubSeq(s, n + 1, Len(s))[i] = s[n + i]
         /\ ToSet(s) = ToSet(SubSeq(s, 1, n)) \cup ToSet(SubSeq(s, n + 1, Len(s)))
<1>1. /\ SubSeq(s, 1, n) \in Seq(T) /\ SubSeq(s, n + 1, Len(s)) \in Seq(T)
      /\ Len(SubSeq(s, 1, n)) = n
      /\ Len(SubSeq(s, n + 1, Len(s))) = Len(s) - n
      /\ \A i \in 1..n : SubSeq(s, 1, n)[i] = s[i]
      /\ \A i \in 1..Len(s) - n : SubSeq(s, n + 1, Len(s))[i] = s[n + i]
  OBVIOUS
<1> DEFINE p == SubSeq(s, 1, n)
           q == SubSeq(s, n + 1, Len(s))
<1>2. ASSUME NEW i \in 1..Len(s) PROVE s[i] \in ToSet(p) \cup ToSet(q)
  <2>1. CASE i <= n
    <3>1. i \in 1..Len(p) /\ s[i] = p[i]
      BY <1>1, <2>1
    <3> QED
      BY <1>1, <3>1, Members
  <2>2. CASE i > n
    <3>1. i - n \in 1..Len(q) /\ s[i] = q[i - n]
      BY <1>1, <2>2
    <3>2. \A j \in 1..Len(q) : q[j] \in ToSet(q)
      BY <1>1, Members
    <3> HIDE DEF p, q
    <3> QED
      BY <3>1, <3>2
  <2> QED
    BY <2>1, <2>2
<1>3. ASSUME NEW i \in 1..Len(p) PROVE p[i] \in ToSet(s)
  BY <1>1, Members
<1>4. ASSUME NEW i \in 1..Len(q) PROVE q[i] \in ToSet(s)
  BY <1>1, Members
<1>5. ToSet(s) \subseteq ToSet(p) \cup ToSet(q)
  BY <1>2, Members
<1>6. ToSet(p) \subseteq ToSet(s)
  <2> SUFFICES ASSUME NEW x \in ToSet(p) PROVE x \in ToSet(s)
    OBVIOUS
  <2>1. PICK i \in 1..Len(p) : p[i] = x
    BY <1>1, Members
  <2> QED
    BY <1>3, <2>1
<1>7. ToSet(q) \subseteq ToSet(s)
  <2> SUFFICES ASSUME NEW x \in ToSet(q) PROVE x \in ToSet(s)
    OBVIOUS
  <2>1. PICK i \in 1..Len(q) : q[i] = x
    BY <1>1, Members
  <2> QED
    BY <1>4, <2>1
<1> QED
  BY <1>1, <1>5, <1>6, <1>7

\* The positions of a concatenation.
LEMMA JoinPositions ==
  ASSUME NEW T, NEW s \in Seq(T), NEW r \in Seq(T)
  PROVE  /\ Len(s \o r) = Len(s) + Len(r)
         /\ \A i \in 1..Len(s) : (s \o r)[i] = s[i]
         /\ \A i \in 1..Len(r) : (s \o r)[Len(s) + i] = r[i]
  OBVIOUS

\* The members of a concatenation and of an extended list.
LEMMA JoinLists ==
  ASSUME NEW T, NEW s \in Seq(T), NEW r \in Seq(T)
  PROVE  /\ s \o r \in Seq(T)
         /\ ToSet(s \o r) = ToSet(s) \cup ToSet(r)
<1>1. s \o r \in Seq(T) /\ Len(s \o r) = Len(s) + Len(r)
  OBVIOUS
<1>2. \A i \in 1..Len(s) : (s \o r)[i] = s[i]
  OBVIOUS
<1>3. \A i \in 1..Len(r) : (s \o r)[Len(s) + i] = r[i]
  OBVIOUS
<1>4. ToSet(s) \cup ToSet(r) \subseteq ToSet(s \o r)
  <2>1. ASSUME NEW i \in 1..Len(s) PROVE s[i] \in ToSet(s \o r)
    <3>1. i \in 1..Len(s \o r) /\ (s \o r)[i] = s[i]
      BY <1>1, <1>2
    <3> QED
      BY <1>1, <3>1, Members
  <2>2. ASSUME NEW i \in 1..Len(r) PROVE r[i] \in ToSet(s \o r)
    <3>1. Len(s) + i \in 1..Len(s \o r) /\ (s \o r)[Len(s) + i] = r[i]
      BY <1>1, <1>3
    <3> QED
      BY <1>1, <3>1, Members
  <2> QED
    BY <2>1, <2>2, Members
<1>5. ToSet(s \o r) \subseteq ToSet(s) \cup ToSet(r)
  <2> SUFFICES ASSUME NEW x \in ToSet(s \o r) PROVE x \in ToSet(s) \cup ToSet(r)
    OBVIOUS
  <2>0. PICK i \in 1..Len(s) + Len(r) : x = (s \o r)[i]
    BY <1>1, Members
  <2>1. CASE i <= Len(s)
    BY <1>2, <2>0, <2>1, Members
  <2>2. CASE i > Len(s)
    <3>1. i - Len(s) \in 1..Len(r) /\ (s \o r)[i] = r[i - Len(s)]
      BY <1>3, <2>2
    <3> QED
      BY <2>0, <3>1, Members
  <2> QED
    BY <2>1, <2>2
<1> QED
  BY <1>1, <1>4, <1>5
-----------------------------------------------------------------------------
(* What RemoveTransaction does to the three lists, as sets.                *)

\* The list of recently committed transactions with the one that ends.
WithStored(t) ==
  IF store_transaction /\ commit_id[t] # 0 THEN Append(recently_committed_transactions, t)
                                          ELSE recently_committed_transactions

Aborted(t) == IF store_transaction /\ commit_id[t] = 0 THEN {t} ELSE {}

\* The minima RemoveTransaction computes are lower bounds.
LEMMA LowerBounds ==
  ASSUME TypeOK, NEW others \in SUBSET Txn
  PROVE  /\ LowestStart(others) \in Nat
         /\ \A u \in others : LowestStart(others) <= start_time[u]
         /\ LowestId(others) \in Nat
         /\ LowestQuery(others) \in 1..MAXIMUM_QUERY_ID
         /\ \A u \in others : LowestQuery(others) <= active_query[u]
<1>1. /\ LowestStart(others) \in Nat
      /\ \A u \in others : LowestStart(others) <= start_time[u]
  <2> DEFINE S == {TRANSACTION_ID_START} \cup {start_time[u] : u \in others}
  <2>1. S \in SUBSET Nat /\ S # {}
    BY ConstantsAssumption DEF TypeOK
  <2> HIDE DEF S
  <2>2. Min(S) \in S /\ \A x \in S : Min(S) <= x
    BY <2>1, MinIsLeast
  <2>3. LowestStart(others) = Min(S) /\ \A u \in others : start_time[u] \in S
    BY DEF LowestStart, S
  <2> QED
    BY <2>1, <2>2, <2>3
<1>2. LowestId(others) \in Nat
  <2> DEFINE S == {MAX_TRANSACTION_ID} \cup {transaction_id[u] : u \in others}
  <2>1. S \in SUBSET Nat /\ S # {}
    BY ConstantsAssumption DEF TypeOK, MAX_TRANSACTION_ID
  <2> HIDE DEF S
  <2>2. Min(S) \in S
    BY <2>1, MinIsLeast
  <2> QED
    BY <2>1, <2>2 DEF LowestId, S
<1>3. /\ LowestQuery(others) \in 1..MAXIMUM_QUERY_ID
      /\ \A u \in others : LowestQuery(others) <= active_query[u]
  <2> DEFINE S == {MAXIMUM_QUERY_ID} \cup {active_query[u] : u \in others}
  <2>1. S \in SUBSET Nat /\ S # {} /\ S \subseteq 1..MAXIMUM_QUERY_ID
    BY ConstantsAssumption DEF TypeOK
  <2> HIDE DEF S
  <2>2. Min(S) \in S /\ \A x \in S : Min(S) <= x
    BY <2>1, MinIsLeast
  <2>3. LowestQuery(others) = Min(S) /\ \A u \in others : active_query[u] \in S
    BY DEF LowestQuery, S
  <2> QED
    BY <2>1, <2>2, <2>3
<1> QED
  BY <1>1, <1>2, <1>3

\* Only transactions that committed before lowest_start_time are cleaned up.
LEMMA CleanablePrefix ==
  ASSUME TypeOK, NEW s \in Seq(Txn), NEW low \in Nat
  PROVE  /\ Cleanable(s, low) \in 0..Len(s)
         /\ \A i \in 1..Cleanable(s, low) : commit_id[s[i]] < low
<1> DEFINE stops == {i \in 1..Len(s) : ~ (commit_id[s[i]] < low)}
           n     == PrefixBefore(Len(s), stops)
<1>1. Cleanable(s, low) = n
  BY DEF Cleanable
<1>2. Len(s) \in Nat /\ stops \in SUBSET (1..Len(s))
  OBVIOUS
<1>3. \A i \in 1..Len(s) : i \notin stops => commit_id[s[i]] < low
  OBVIOUS
<1> HIDE DEF stops
<1>4. n \in 0..Len(s) /\ \A i \in 1..n : i \notin stops
  BY <1>2, PrefixBeforeStops
<1> HIDE DEF n
<1> QED
  BY <1>1, <1>2, <1>3, <1>4

\* Only transactions whose queries are over are freed.
LEMMA FreeablePrefix ==
  ASSUME TypeOK,
         NEW s \in Seq(Txn), NEW highest \in [Txn -> Nat], NEW others \in SUBSET Txn
  PROVE  /\ Freeable(s, highest, others) \in 0..Len(s)
         /\ others # {} =>
              \A i \in 1..Freeable(s, highest, others) : highest[s[i]] < lowest_active_query
<1> DEFINE stops == {i \in 1..Len(s) : highest[s[i]] >= lowest_active_query}
           m     == PrefixBefore(Len(s), stops)
<1>1. others # {} => Freeable(s, highest, others) = m
  BY DEF Freeable
<1>2. Len(s) \in Nat /\ stops \in SUBSET (1..Len(s))
  OBVIOUS
<1>3. \A i \in 1..Len(s) : i \notin stops => highest[s[i]] < lowest_active_query
  <2> SUFFICES ASSUME NEW i \in 1..Len(s), ~ (highest[s[i]] >= lowest_active_query)
               PROVE  highest[s[i]] < lowest_active_query
    OBVIOUS
  <2>1. highest[s[i]] \in Nat /\ lowest_active_query \in Nat
    BY ConstantsAssumption DEF TypeOK
  <2> QED
    BY <2>1
<1>4. others = {} => Freeable(s, highest, others) = Len(s)
  BY DEF Freeable
<1> HIDE DEF stops
<1>5. m \in 0..Len(s) /\ \A i \in 1..m : i \notin stops
  BY <1>2, PrefixBeforeStops
<1> HIDE DEF m
<1> QED
  BY <1>1, <1>2, <1>3, <1>4, <1>5

\* C are the transactions RemoveTransaction moves from the recently committed
\* ones to the old ones.
CleansUp(t, C) ==
  LET moved == Aborted(t) \cup C IN
  /\ Recent' \cup C = ToSet(WithStored(t))
  /\ \A v \in C : commit_id[v] < lowest_active_start
  /\ Old' \subseteq Old \cup moved
  /\ \A v \in Txn : highest_active_query'[v] =
         IF v \in moved THEN current_query ELSE highest_active_query[v]
  /\ \A v \in (Old \cup moved) \ Old', u \in active_transactions' :
         highest_active_query'[v] < lowest_active_query

DropsPrefix(t) ==
  \E n \in 0..Len(WithStored(t)) :
      recently_committed_transactions' =
          SubSeq(WithStored(t), n + 1, Len(WithStored(t)))

\* The cleaned transactions precede lowest_active_start; what is freed while
\* others are active precedes lowest_active_query.
LEMMA RemoveTransactionEffect ==
  ASSUME TypeOK, NEW t \in active_transactions, RemoveTransaction(t)
  PROVE  /\ active_transactions' = active_transactions \ {t}
         /\ recently_committed_transactions' \in Seq(Txn)
         /\ old_transactions' \in Seq(Txn)
         /\ highest_active_query' \in [Txn -> Nat]
         /\ write_lock' \subseteq write_lock
         /\ DropsPrefix(t)
         /\ \E C \in SUBSET Txn : CleansUp(t, C)
<1> DEFINE others  == active_transactions \ {t}
           recent  == WithStored(t)
           aborted == IF store_transaction /\ commit_id[t] = 0 THEN <<t>> ELSE <<>>
           n       == Cleanable(recent, lowest_active_start)
           cleaned == SubSeq(recent, 1, n)
           old     == old_transactions \o aborted \o cleaned
           C       == ToSet(cleaned)
           moved   == Aborted(t) \cup C
           highest == HighestActiveQuery(ToSet(aborted) \cup ToSet(cleaned))
           m       == Freeable(old, highest, others)
<1>1. /\ active_transactions' = others
      /\ recently_committed_transactions' = SubSeq(recent, n + 1, Len(recent))
      /\ old_transactions' = SubSeq(old, m + 1, Len(old))
      /\ highest_active_query' = highest
      /\ write_lock' \subseteq write_lock
  BY DEF RemoveTransaction, WithStored
<1>2. t \in Txn /\ others \in SUBSET Txn /\ lowest_active_start \in Nat
  BY DEF TypeOK
<1>3. recent \in Seq(Txn) /\ aborted \in Seq(Txn)
  BY <1>2 DEF TypeOK, WithStored
<1>4. ToSet(aborted) = Aborted(t)
  BY DEF ToSet, Aborted
<1>5. n \in 0..Len(recent) /\ \A i \in 1..n : commit_id[recent[i]] < lowest_active_start
  BY <1>2, <1>3, CleanablePrefix
<1> HIDE DEF recent, n
<1>6. /\ cleaned \in Seq(Txn) /\ SubSeq(recent, n + 1, Len(recent)) \in Seq(Txn)
      /\ Len(cleaned) = n
      /\ \A i \in 1..n : cleaned[i] = recent[i]
      /\ ToSet(recent) = C \cup ToSet(SubSeq(recent, n + 1, Len(recent)))
  BY <1>3, <1>5, CutList
<1> HIDE DEF cleaned
<1>7. C \in SUBSET Txn /\ \A v \in C : commit_id[v] < lowest_active_start
  <2> SUFFICES ASSUME NEW v \in C
               PROVE  v \in Txn /\ commit_id[v] < lowest_active_start
    OBVIOUS
  <2>1. v \in Txn /\ \E i \in 1..Len(cleaned) : cleaned[i] = v
    BY <1>6, Members
  <2> QED
    BY <1>5, <1>6, <2>1
<1>8. old \in Seq(Txn) /\ ToSet(old) = Old \cup moved
  <2>1. old_transactions \in Seq(Txn)
    BY DEF TypeOK
  <2> HIDE DEF aborted
  <2> DEFINE first == old_transactions \o aborted
  <2>2. first \in Seq(Txn) /\ ToSet(first) = Old \cup ToSet(aborted)
    BY <1>3, <2>1, JoinLists DEF Old
  <2> HIDE DEF first
  <2>3. first \o cleaned \in Seq(Txn) /\ ToSet(first \o cleaned) = ToSet(first) \cup C
    BY <1>6, <2>2, JoinLists
  <2> QED
    BY <1>4, <2>2, <2>3 DEF first
<1>9. /\ highest \in [Txn -> Nat]
      /\ \A v \in Txn : highest[v] = IF v \in moved THEN current_query
                                                    ELSE highest_active_query[v]
  <2>1. highest = [u \in Txn |-> IF u \in moved THEN current_query
                                               ELSE highest_active_query[u]]
    BY <1>4 DEF HighestActiveQuery
  <2>2. current_query \in Nat
    BY ConstantsAssumption DEF TypeOK
  <2>3. highest_active_query \in [Txn -> Nat]
    BY DEF TypeOK
  <2> HIDE DEF moved, highest
  <2> QED
    BY <2>1, <2>2, <2>3
<1> HIDE DEF old, highest, moved, C
<1>10. /\ m \in 0..Len(old)
       /\ \A i \in 1..m, u \in others : highest[old[i]] < lowest_active_query
  BY <1>2, <1>8, <1>9, FreeablePrefix
<1> HIDE DEF m
<1> DEFINE freed == SubSeq(old, 1, m)
           kept  == SubSeq(old, m + 1, Len(old))
<1>11. /\ kept \in Seq(Txn) /\ freed \in Seq(Txn)
       /\ ToSet(old) = ToSet(freed) \cup ToSet(kept)
       /\ Len(freed) = m
       /\ \A i \in 1..m : freed[i] = old[i]
  BY <1>8, <1>10, CutList
<1>12. Recent' \cup C = ToSet(recent) /\ Old' = ToSet(kept)
  BY <1>1, <1>6 DEF Recent, Old
<1> HIDE DEF freed
<1>13. \A v \in (Old \cup moved) \ Old', u \in others : highest[v] < lowest_active_query
  <2> SUFFICES ASSUME NEW v \in (Old \cup moved) \ Old', NEW u \in others
               PROVE  highest[v] < lowest_active_query
    OBVIOUS
  <2>1. v \in ToSet(freed)
    BY <1>8, <1>11, <1>12
  <2>2. v \in Txn /\ \E i \in 1..Len(freed) : freed[i] = v
    BY <1>11, <2>1, Members
  <2> QED
    BY <1>10, <1>11, <2>2
<1>14. Old' \subseteq Old \cup moved
  BY <1>8, <1>11, <1>12
<1>15. /\ DropsPrefix(t)
       /\ recently_committed_transactions' \in Seq(Txn)
       /\ old_transactions' \in Seq(Txn)
  BY <1>1, <1>5, <1>6, <1>11 DEF DropsPrefix, recent
<1>16. CleansUp(t, C)
  BY <1>1, <1>7, <1>9, <1>12, <1>13, <1>14 DEF recent, moved, CleansUp
<1> QED
  BY <1>1, <1>7, <1>9, <1>15, <1>16
-----------------------------------------------------------------------------
(* The inductive invariant.                                                *)

\* Each list holds transactions of the right phase; only the owner of
\* transaction_lock is committing or being removed.
ListsMatchPhase ==
  /\ \A t \in Txn : phase[t] \in {"starting", "running", "committing"}
                       => t \in active_transactions
  /\ \A t \in active_transactions : phase[t] \in {"starting", "running", "committing"}
                                      \/ transaction_lock = t
  /\ \A t \in Recent : phase[t] = "committed" /\ t \notin active_transactions
  /\ \A t \in Old : phase[t] \in {"committed", "aborted"} /\ t \notin active_transactions
  /\ \A t \in Txn : phase[t] = "committing" => transaction_lock = t
  /\ \A t \in Txn : transaction_lock = t =>
        /\ t \in active_transactions
        /\ RemovalUnderWay => phase[t] \in {"committed", "aborted"}
        /\ ~ RemovalUnderWay => phase[t] = "committing"
  /\ transaction_lock = NoTxn => ~ RemovalUnderWay

\* Timestamps come from one clock.
ClockAhead ==
  /\ current_start_timestamp > 0
  /\ \A t \in Txn : commit_id[t] < current_start_timestamp
  /\ \A t \in Txn : start_time[t] < current_start_timestamp
  /\ \A t \in Txn : commit_id[t] # 0 <=> phase[t] \in {"committing", "committed"}

\* A transaction that holds a commit id and the lock is newer than all that
\* committed before.
CommittingIsNewest ==
  \A t \in Txn, u \in Recent :
      transaction_lock = t /\ commit_id[t] # 0 => commit_id[u] < commit_id[t]

\* What RemoveTransaction has found out about transactions stays true while it
\* is under way, since the lock keeps others from starting.
RemovalStable ==
  \A t \in Txn : transaction_lock = t /\ RemovalUnderWay =>
      /\ \A u \in active_transactions \ {t} : lowest_active_start <= start_time[u]
      /\ changes[t] \cap Versions # {} => store_transaction

\* What it has found out about queries stays true of the queries that were
\* announced before.
QueriesCounted ==
  RemovalUnderWay =>
      \A w \in Txn \ late : phase[w] = "running" /\ query[w] # 0 =>
          /\ lowest_active_query <= query[w]
          /\ current_query # 0 => query[w] < current_query

\* The query number is read after the scan.
QueryNumberRead == current_query # 0 => RemovalUnderWay

\* A query walks only undo buffers that are still in a list; one it has kept
\* from before the buffer was unlinked remembers a query number at least as
\* high as the query's own.
ReadersKnown ==
  /\ \A t \in Txn : phase[t] = "starting" => query[t] # 0
  /\ \A t \in Txn : reading[t] # {} => phase[t] = "running" /\ query[t] # 0
  /\ \A t \in Txn : phase[t] = "running" /\ query[t] # 0 => active_query[t] = query[t]
  /\ \A t \in Txn : query[t] < current_query_number
  /\ \A t \in Txn \ late : \A u \in reading[t] :
        /\ changes[u] \cap Versions # {}
        /\ \/ u \in active_transactions \cup Recent
           \/ u \in Old /\ query[t] <= highest_active_query[u]

IInv ==
  /\ TypeOK /\ ListsMatchPhase /\ ClockAhead /\ CommittingIsNewest
  /\ RecentlyCommittedOrdered /\ UndoKeptWhileNeeded
  /\ RemovalStable /\ QueriesCounted /\ QueryNumberRead /\ ReadersKnown

\* The initial state satisfies the inductive invariant.
LEMMA InitEstablishesIInv == Init => IInv
<1> SUFFICES ASSUME Init PROVE IInv
  OBVIOUS
<1> USE ConstantsAssumption
<1>1. Recent = {} /\ Old = {} /\ ~ RemovalUnderWay
  BY DEF Init, Recent, Old, ToSet, RemovalUnderWay
<1>2. TypeOK
  <2>1. store_transaction \in BOOLEAN
    BY DEF Init
  <2>2. active_query \in [Txn -> 1..MAXIMUM_QUERY_ID] /\ MAX_TRANSACTION_ID \in Nat
    BY DEF Init, MAX_TRANSACTION_ID
  <2>3. /\ current_query \in 0..MaxQuery + 1 /\ lowest_active_query \in 0..MAXIMUM_QUERY_ID
        /\ current_query_number \in 1..MaxQuery + 1 /\ query \in [Txn -> 0..MaxQuery]
    BY DEF Init
  <2> QED
    BY <2>1, <2>2, <2>3 DEF Init, TypeOK, Phase
<1>3. ListsMatchPhase
  BY <1>1 DEF Init, ListsMatchPhase
<1>4. ClockAhead
  BY DEF Init, ClockAhead
<1>5. CommittingIsNewest /\ RecentlyCommittedOrdered /\ UndoKeptWhileNeeded
  BY <1>1 DEF Init, CommittingIsNewest, RecentlyCommittedOrdered, UndoKeptWhileNeeded
<1>6. RemovalStable /\ QueriesCounted /\ QueryNumberRead
  BY <1>1 DEF Init, RemovalStable, QueriesCounted, QueryNumberRead
<1>7. ReadersKnown
  BY DEF Init, ReadersKnown
<1> QED
  BY <1>2, <1>3, <1>4, <1>5, <1>6, <1>7 DEF IInv
-----------------------------------------------------------------------------
(* Ending a transaction.                                                   *)

\* RemoveTransaction stores a transaction that committed undo information.
LEMMA StoredMembers ==
  ASSUME TypeOK, NEW t \in Txn
  PROVE  /\ WithStored(t) \in Seq(Txn)
         /\ ToSet(WithStored(t)) =
              IF store_transaction /\ commit_id[t] # 0 THEN Recent \cup {t} ELSE Recent
<1>1. recently_committed_transactions \in Seq(Txn) /\ <<t>> \in Seq(Txn)
  BY DEF TypeOK
<1>2. /\ recently_committed_transactions \o <<t>> \in Seq(Txn)
      /\ ToSet(recently_committed_transactions \o <<t>>)
           = ToSet(recently_committed_transactions) \cup ToSet(<<t>>)
  BY <1>1, JoinLists
<1>3. ToSet(<<t>>) = {t}
  BY DEF ToSet
<1>4. Append(recently_committed_transactions, t) = recently_committed_transactions \o <<t>>
  BY <1>1
<1> QED
  BY <1>1, <1>2, <1>3, <1>4 DEF WithStored, Recent

\* Storing the newest commit last keeps the order.
LEMMA StoredOrdered ==
  ASSUME TypeOK, RecentlyCommittedOrdered,
         NEW t \in Txn,
         commit_id[t] # 0 => \A u \in Recent : commit_id[u] < commit_id[t],
         NEW i \in 1..Len(WithStored(t)), NEW k \in 1..Len(WithStored(t)), i < k
  PROVE  commit_id[WithStored(t)[i]] < commit_id[WithStored(t)[k]]
<1> DEFINE r == recently_committed_transactions
           s == WithStored(t)
<1>1. r \in Seq(Txn) /\ s \in Seq(Txn)
  BY StoredMembers DEF TypeOK
<1>2. \A x \in 1..Len(r) : r[x] \in Recent
  BY <1>1, Members DEF Recent
<1>3. CASE s = r
  <2>1. commit_id[s[i]] = commit_id[r[i]] /\ commit_id[s[k]] = commit_id[r[k]]
    BY <1>2, <1>3
  <2> QED
    BY <1>3, <2>1 DEF RecentlyCommittedOrdered
<1>4. CASE s = Append(r, t) /\ commit_id[t] # 0
  <2>1. Len(s) = Len(r) + 1 /\ i \in 1..Len(r) /\ s[i] = r[i]
    BY <1>1, <1>4
  <2>2. CASE k = Len(s)
    <3>1. s[k] = t
      BY <1>1, <1>4, <2>1, <2>2
    <3> QED
      BY <1>2, <1>4, <2>1, <3>1
  <2>3. CASE k < Len(s)
    <3>1. k \in 1..Len(r) /\ s[k] = r[k]
      BY <1>1, <1>4, <2>1, <2>3
    <3>2. commit_id[s[i]] = commit_id[r[i]] /\ commit_id[s[k]] = commit_id[r[k]]
      BY <1>2, <2>1, <3>1
    <3> QED
      BY <2>1, <3>1, <3>2 DEF RecentlyCommittedOrdered
  <2> QED
    BY <1>1, <2>1, <2>2, <2>3
<1> QED
  BY <1>3, <1>4 DEF WithStored

\* Dropping a prefix keeps it, too.
LEMMA OrderKept ==
  ASSUME TypeOK, RecentlyCommittedOrdered,
         NEW t \in Txn,
         commit_id[t] # 0 => \A u \in Recent : commit_id[u] < commit_id[t],
         commit_id' = commit_id,
         NEW n \in 0..Len(WithStored(t)),
         recently_committed_transactions' =
             SubSeq(WithStored(t), n + 1, Len(WithStored(t)))
  PROVE  RecentlyCommittedOrdered'
<1> DEFINE r == recently_committed_transactions
           s == WithStored(t)
<1>1. s \in Seq(Txn)
  BY StoredMembers
<1>3. ASSUME NEW i \in 1..Len(s), NEW k \in 1..Len(s), i < k
      PROVE  commit_id[s[i]] < commit_id[s[k]]
  BY <1>3, StoredOrdered
<1> HIDE DEF s
<1>4. /\ Len(r') = Len(s) - n
      /\ \A i \in 1..Len(s) - n : r'[i] = s[n + i]
  BY <1>1, CutList DEF s
<1>5. ASSUME NEW i \in 1..Len(r'), NEW k \in 1..Len(r'), i < k
      PROVE  commit_id[r'[i]] < commit_id[r'[k]]
  <2>1. n + i \in 1..Len(s) /\ n + k \in 1..Len(s) /\ n + i < n + k
    BY <1>1, <1>4, <1>5 DEF s
  <2>2. commit_id[s[n + i]] < commit_id[s[n + k]]
    BY <1>3, <2>1
  <2> QED
    BY <1>4, <2>2
<1> QED
  BY <1>5 DEF RecentlyCommittedOrdered

\* The rest of RemoveTransaction preserves IInv.
LEMMA RemovePreservesIInv ==
  ASSUME IInv, NEW t \in Txn, RemoveTransaction(t)
  PROVE  IInv'
<1> USE ConstantsAssumption
<1> DEFINE stored == ToSet(WithStored(t))
           gone   == Aborted(t)
<1>0. /\ current_query # 0 /\ transaction_lock = t /\ transaction_lock' = NoTxn
      /\ lowest_active_query' = 0 /\ current_query' = 0 /\ store_transaction' = FALSE
      /\ UNCHANGED <<counters, lowest, phase, fields, active_query, changes, queries>>
  BY DEF RemoveTransaction
<1>1. /\ TypeOK /\ t \in active_transactions /\ RemovalUnderWay
      /\ phase[t] \in {"committed", "aborted"}
  <2>1. TypeOK /\ t \in active_transactions /\ RemovalUnderWay
    BY <1>0 DEF IInv, ListsMatchPhase, QueryNumberRead
  <2> QED
    BY <1>0, <2>1 DEF IInv, ListsMatchPhase
<1>2. /\ active_transactions' = active_transactions \ {t}
      /\ recently_committed_transactions' \in Seq(Txn)
      /\ old_transactions' \in Seq(Txn)
      /\ highest_active_query' \in [Txn -> Nat]
      /\ write_lock' \subseteq write_lock
  BY <1>1, RemoveTransactionEffect
<1>3. PICK n \in 0..Len(WithStored(t)) :
        recently_committed_transactions' = SubSeq(WithStored(t), n + 1, Len(WithStored(t)))
  <2>1. DropsPrefix(t)
    BY <1>1, RemoveTransactionEffect
  <2> QED
    BY <2>1 DEF DropsPrefix
<1>4. PICK C \in SUBSET Txn :
        /\ Recent' \cup C = stored
        /\ \A v \in C : commit_id[v] < lowest_active_start
        /\ Old' \subseteq Old \cup (gone \cup C)
        /\ \A v \in Txn : highest_active_query'[v] =
               IF v \in gone \cup C THEN current_query ELSE highest_active_query[v]
        /\ \A v \in (Old \cup (gone \cup C)) \ Old', u \in active_transactions' :
               highest_active_query'[v] < lowest_active_query
  <2>1. \E C \in SUBSET Txn : CleansUp(t, C)
    BY <1>1, RemoveTransactionEffect
  <2>2. PICK C \in SUBSET Txn : CleansUp(t, C)
    BY <2>1
  <2> WITNESS C \in SUBSET Txn
  <2> QED
    BY <2>2 DEF CleansUp
<1>5. stored = IF store_transaction /\ commit_id[t] # 0 THEN Recent \cup {t} ELSE Recent
  BY <1>1, StoredMembers
<1>6. t \notin Recent /\ t \notin Old
  BY <1>1 DEF IInv, ListsMatchPhase
<1>7. \A v \in stored : phase[v] = "committed" /\ v \in Txn /\ v \notin active_transactions'
  <2>1. \A v \in Recent : v \in Txn /\ phase[v] = "committed" /\ v \notin active_transactions
    BY <1>1, Members DEF IInv, TypeOK, ListsMatchPhase, Recent
  <2>2. commit_id[t] # 0 => phase[t] = "committed"
    BY <1>1 DEF IInv, ClockAhead
  <2> QED
    BY <1>2, <1>5, <2>1, <2>2
<1>8. gone \subseteq {t}
  BY DEF Aborted
<1>9. Old \subseteq Txn /\ Recent \subseteq Txn
  BY <1>1, Members DEF TypeOK, Old, Recent
<1> HIDE DEF stored, gone
<1>10. TypeOK'
  <2>1. store_transaction' \in BOOLEAN
    BY <1>0
  <2>2. transaction_lock' \in Txn \cup {NoTxn} /\ write_lock' \subseteq Txn
    BY <1>0, <1>1, <1>2 DEF TypeOK
  <2>3. lowest_active_query' \in 0..MAXIMUM_QUERY_ID /\ current_query' \in 0..MaxQuery + 1
    BY <1>0
  <2>4. active_transactions' \subseteq Txn
    BY <1>1, <1>2 DEF TypeOK
  <2>5. UNCHANGED <<current_start_timestamp, current_transaction_id, last_commit,
                    lowest_active_start, lowest_active_id, phase, start_time, transaction_id,
                    commit_id, active_query, changes, current_query_number, query, reading,
                    late>>
    BY <1>0 DEF counters, lowest, fields, queries
  <2> QED
    BY <1>1, <1>2, <2>1, <2>2, <2>3, <2>4, <2>5 DEF TypeOK
<1>11. ListsMatchPhase'
  <2>0. ~ RemovalUnderWay'
    BY <1>0 DEF RemovalUnderWay
  <2>1. \A v \in Txn : phase'[v] \in {"starting", "running", "committing"}
                         => v \in active_transactions'
    BY <1>0, <1>1, <1>2 DEF IInv, ListsMatchPhase
  <2>2. \A v \in active_transactions' : phase'[v] \in {"starting", "running", "committing"}
    BY <1>0, <1>1, <1>2 DEF IInv, ListsMatchPhase
  <2>3. \A v \in Recent' : phase'[v] = "committed" /\ v \notin active_transactions'
    BY <1>0, <1>4, <1>7
  <2>4. \A v \in Old' : phase'[v] \in {"committed", "aborted"} /\ v \notin active_transactions'
    <3> SUFFICES ASSUME NEW v \in Old'
                 PROVE  phase[v] \in {"committed", "aborted"} /\ v \notin active_transactions'
      BY <1>0
    <3>1. CASE v \in Old
      BY <1>2, <3>1 DEF IInv, ListsMatchPhase
    <3>2. CASE v \in gone
      BY <1>1, <1>2, <1>8, <3>2
    <3>3. CASE v \in C
      BY <1>4, <1>7, <3>3
    <3> QED
      BY <1>4, <3>1, <3>2, <3>3
  <2>5. \A v \in Txn : phase'[v] # "committing"
    BY <1>0, <1>1 DEF IInv, ListsMatchPhase
  <2> QED
    BY <1>0, <2>0, <2>1, <2>2, <2>3, <2>4, <2>5 DEF ListsMatchPhase
<1>12. ClockAhead'
  BY <1>0 DEF IInv, ClockAhead, counters, fields
<1>13. CommittingIsNewest' /\ RemovalStable' /\ QueriesCounted' /\ QueryNumberRead'
  BY <1>0 DEF CommittingIsNewest, RemovalStable, QueriesCounted, QueryNumberRead, RemovalUnderWay
<1>14. RecentlyCommittedOrdered'
  <2>1. commit_id[t] # 0 => \A u \in Recent : commit_id[u] < commit_id[t]
    BY <1>0, <1>1 DEF IInv, CommittingIsNewest
  <2>2. commit_id' = commit_id
    BY <1>0 DEF fields
  <2> QED
    BY <1>1, <1>3, <2>1, <2>2, OrderKept DEF IInv
<1>15. UndoKeptWhileNeeded'
  <2> SUFFICES ASSUME NEW u \in active_transactions', NEW v \in Txn,
                      phase[v] = "committed", changes[v] \cap Versions # {},
                      start_time[u] < commit_id[v]
               PROVE  v \in Recent'
    BY <1>0 DEF UndoKeptWhileNeeded, Linked, fields
  <2>1. v \in stored
    <3>1. CASE v = t
      <4>1. commit_id[t] # 0
        BY <3>1 DEF IInv, ClockAhead
      <4>2. store_transaction
        BY <1>0, <1>1, <3>1 DEF IInv, RemovalStable
      <4> QED
        BY <1>5, <3>1, <4>1, <4>2
    <3>2. CASE v # t
      <4>1. v \in active_transactions \cup Recent
        BY <1>2 DEF IInv, UndoKeptWhileNeeded, Linked
      <4>2. v \notin active_transactions
        BY <1>0, <3>2 DEF IInv, ListsMatchPhase
      <4> QED
        BY <1>5, <4>1, <4>2
    <3> QED
      BY <3>1, <3>2
  <2>2. v \notin C
    <3>1. u \in Txn /\ lowest_active_start <= start_time[u]
      BY <1>0, <1>1, <1>2 DEF IInv, TypeOK, RemovalStable
    <3>2. start_time[u] \in Nat /\ commit_id[v] \in Nat /\ lowest_active_start \in Nat
      BY <1>1, <3>1 DEF TypeOK
    <3> QED
      BY <1>4, <3>1, <3>2
  <2> QED
    BY <1>4, <2>1, <2>2
<1>16. ReadersKnown'
  <2>1. ASSUME NEW w \in Txn \ late, NEW u \in reading[w]
        PROVE  /\ changes[u] \cap Versions # {}
               /\ \/ u \in active_transactions' \cup Recent'
                  \/ u \in Old' /\ query[w] <= highest_active_query'[u]
    <3> DEFINE tracked == \/ u \in gone \cup C
                          \/ u \in Old /\ query[w] <= highest_active_query[u]
    <3>1. phase[w] = "running" /\ query[w] # 0
      BY <2>1 DEF IInv, ReadersKnown
    <3>2. w \in active_transactions'
      BY <1>1, <1>2, <3>1 DEF IInv, ListsMatchPhase
    <3>3. /\ u \in Txn /\ changes[u] \cap Versions # {}
          /\ \/ u \in active_transactions \cup Recent
             \/ u \in Old /\ query[w] <= highest_active_query[u]
      BY <1>1, <2>1 DEF IInv, TypeOK, ReadersKnown
    <3>4. lowest_active_query <= query[w] /\ query[w] < current_query
      BY <1>0, <1>1, <3>1 DEF IInv, QueriesCounted
    <3>5. /\ query[w] \in Nat /\ current_query \in Nat
          /\ highest_active_query[u] \in Nat /\ lowest_active_query \in Nat
      <4>1. query[w] \in Nat
        BY <1>1 DEF TypeOK
      <4>2. current_query \in Nat /\ lowest_active_query \in Nat
        BY <1>1 DEF TypeOK
      <4>3. highest_active_query[u] \in Nat
        BY <1>1, <3>3 DEF TypeOK
      <4> QED
        BY <4>1, <4>2, <4>3
    <3>6. tracked => query[w] <= highest_active_query'[u]
      BY <1>4, <3>3, <3>4, <3>5
    <3>7. tracked => u \in Old'
      <4> SUFFICES ASSUME tracked, u \notin Old' PROVE FALSE
        OBVIOUS
      <4>1. highest_active_query'[u] < lowest_active_query
        BY <1>4, <3>2
      <4>2. highest_active_query'[u] \in Nat
        BY <1>2, <3>3
      <4> QED
        BY <3>4, <3>5, <3>6, <4>1, <4>2
    <3>8. u \in active_transactions' \cup Recent' \/ tracked
      <4>1. CASE u = t
        <5>1. store_transaction
          BY <1>0, <1>1, <3>3, <4>1 DEF IInv, RemovalStable
        <5> QED
          BY <1>4, <1>5, <4>1, <5>1 DEF gone, Aborted
      <4>2. CASE u # t
        BY <1>2, <1>4, <1>5, <3>3, <4>2
      <4> QED
        BY <4>1, <4>2
    <3> QED
      BY <3>3, <3>6, <3>7, <3>8
  <2> QED
    BY <1>0, <2>1 DEF IInv, ReadersKnown, queries
<1> QED
  BY <1>10, <1>11, <1>12, <1>13, <1>14, <1>15, <1>16 DEF IInv

\* Ending a transaction, by whichever of the three handlers, up to the scan of
\* the active transactions preserves IInv.
LEMMA ScanPreservesIInv ==
  ASSUME IInv, NEW t \in Txn, NEW p \in {"committed", "aborted"}, NEW store \in BOOLEAN,
         ScanActive(t, store),
         phase' = [phase EXCEPT ![t] = p],
         commit_id' \in [Txn -> Nat],
         \A u \in Txn \ {t} : commit_id'[u] = commit_id[u],
         p = "committed" => phase[t] = "committing" /\ commit_id'[t] = commit_id[t],
         p = "aborted" => commit_id'[t] = 0,
         changes[t] \cap Versions # {} => store,
         t \in active_transactions, reading[t] = {}, ~ RemovalUnderWay,
         transaction_lock \in {t, NoTxn}, transaction_lock' = t,
         UNCHANGED <<counters, start_time, transaction_id, active_query, changes, queries>>
  PROVE  IInv'
<1> USE ConstantsAssumption
<1> DEFINE others == active_transactions \ {t}
<1>0. /\ lowest_active_start' = LowestStart(others) /\ lowest_active_id' = LowestId(others)
      /\ lowest_active_query' = LowestQuery(others) /\ store_transaction' = store
      /\ UNCHANGED <<lists, highest_active_query, write_lock, current_query>>
  BY DEF ScanActive
<1>1. TypeOK /\ others \in SUBSET Txn /\ NoTxn # t
  BY DEF IInv, TypeOK
<1>2. /\ LowestStart(others) \in Nat
      /\ \A u \in others : LowestStart(others) <= start_time[u]
      /\ LowestId(others) \in Nat
      /\ LowestQuery(others) \in 1..MAXIMUM_QUERY_ID
      /\ \A u \in others : LowestQuery(others) <= active_query[u]
  BY <1>1, LowerBounds
<1>3. /\ t \in active_transactions /\ transaction_lock \in {t, NoTxn} /\ reading[t] = {}
      /\ ~ RemovalUnderWay
  OBVIOUS
<1>4. RemovalUnderWay' /\ UNCHANGED <<Recent, Old, active_transactions>>
  <2>1. UNCHANGED <<Recent, Old, active_transactions>>
    BY <1>0 DEF lists, Recent, Old
  <2>2. LowestQuery(others) # 0
    BY <1>2
  <2> QED
    BY <1>0, <2>1, <2>2 DEF RemovalUnderWay
<1>5. t \notin Recent /\ t \notin Old /\ Recent \subseteq Txn /\ Old \subseteq Txn
  BY <1>1, <1>3, Members DEF IInv, TypeOK, ListsMatchPhase, Recent, Old
<1>6. phase'[t] = p /\ \A v \in Txn \ {t} : phase'[v] = phase[v]
  BY <1>1 DEF TypeOK
<1> HIDE DEF others
<1>7. TypeOK'
  <2>1. phase' \in [Txn -> Phase]
    BY <1>1 DEF TypeOK, Phase
  <2>2. /\ lowest_active_start' \in Nat /\ lowest_active_id' \in Nat
        /\ lowest_active_query' \in 0..MAXIMUM_QUERY_ID /\ store_transaction' \in BOOLEAN
    BY <1>0, <1>2
  <2> QED
    BY <1>0, <1>1, <2>1, <2>2 DEF TypeOK, counters, lists, queries
<1>8. ListsMatchPhase'
  <2>1. \A v \in Txn : phase'[v] \in {"starting", "running", "committing"}
                         => v \in active_transactions'
    BY <1>4, <1>6 DEF IInv, ListsMatchPhase
  <2>2. \A v \in active_transactions' : phase'[v] \in {"starting", "running", "committing"}
                                          \/ transaction_lock' = v
    BY <1>1, <1>3, <1>4, <1>6 DEF IInv, TypeOK, ListsMatchPhase
  <2>3. \A v \in Recent' : phase'[v] = "committed" /\ v \notin active_transactions'
    BY <1>4, <1>5, <1>6 DEF IInv, ListsMatchPhase
  <2>4. \A v \in Old' : phase'[v] \in {"committed", "aborted"} /\ v \notin active_transactions'
    BY <1>4, <1>5, <1>6 DEF IInv, ListsMatchPhase
  <2>5. \A v \in Txn : phase'[v] # "committing"
    BY <1>1, <1>3, <1>6 DEF IInv, ListsMatchPhase
  <2> QED
    BY <1>1, <1>3, <1>4, <1>6, <2>1, <2>2, <2>3, <2>4, <2>5 DEF ListsMatchPhase
<1>9. ClockAhead'
  <2>1. \A v \in Txn : commit_id'[v] < current_start_timestamp
    BY <1>1 DEF IInv, TypeOK, ClockAhead
  <2>2. \A v \in Txn : commit_id'[v] # 0 <=> phase'[v] \in {"committing", "committed"}
    BY <1>6 DEF IInv, ClockAhead
  <2> QED
    BY <2>1, <2>2 DEF IInv, ClockAhead, counters
<1>10. CommittingIsNewest'
  <2>1. commit_id'[t] # 0 => transaction_lock = t /\ commit_id'[t] = commit_id[t]
    BY DEF IInv, ListsMatchPhase
  <2> QED
    BY <1>4, <1>5, <2>1 DEF IInv, CommittingIsNewest
<1>11. RecentlyCommittedOrdered'
  <2>1. \A i \in 1..Len(recently_committed_transactions) :
           recently_committed_transactions[i] \in Recent
    BY <1>1, Members DEF TypeOK, Recent
  <2> QED
    BY <1>0, <1>5, <2>1 DEF IInv, RecentlyCommittedOrdered, lists
<1>12. UndoKeptWhileNeeded'
  <2> SUFFICES ASSUME NEW u \in active_transactions, NEW v \in Txn,
                      phase'[v] = "committed", changes[v] \cap Versions # {},
                      start_time[u] < commit_id'[v]
               PROVE  v \in active_transactions \cup Recent
    BY <1>4 DEF UndoKeptWhileNeeded, Linked
  <2>1. CASE v = t
    BY <1>3, <2>1
  <2>2. CASE v # t
    BY <1>6, <2>2 DEF IInv, UndoKeptWhileNeeded, Linked
  <2> QED
    BY <2>1, <2>2
<1>13. RemovalStable'
  BY <1>0, <1>2, <1>4 DEF RemovalStable, others
<1>14. QueriesCounted'
  <2> SUFFICES ASSUME NEW w \in Txn \ late, phase'[w] = "running", query[w] # 0
               PROVE  LowestQuery(others) <= query[w] /\ current_query = 0
    BY <1>0 DEF QueriesCounted, queries
  <2>1. w # t /\ phase[w] = "running"
    BY <1>6
  <2>2. w \in others /\ active_query[w] = query[w]
    BY <2>1 DEF IInv, ListsMatchPhase, ReadersKnown, others
  <2>3. current_query = 0
    BY <1>3 DEF IInv, QueryNumberRead
  <2> QED
    BY <1>2, <2>2, <2>3
<1>15. ReadersKnown'
  BY <1>0, <1>3, <1>4, <1>6 DEF IInv, ReadersKnown, queries
<1>16. QueryNumberRead'
  BY <1>4 DEF QueryNumberRead
<1> QED
  BY <1>7, <1>8, <1>9, <1>10, <1>11, <1>12, <1>13, <1>14, <1>15, <1>16 DEF IInv
-----------------------------------------------------------------------------
(* Every step preserves the invariant.                                     *)

\* Steps that leave the lists, the phases, the timestamps and the removal
\* under way alone disturb only the parts of IInv about queries.
LEMMA QuietStep ==
  ASSUME IInv, UNCHANGED <<counters, lowest, transaction_lock, lists, phase, fields, removal>>,
         \A t \in Txn : changes'[t] # changes[t] => phase[t] = "running",
         TypeOK', QueriesCounted', ReadersKnown'
  PROVE  IInv'
<1>1. UNCHANGED <<Recent, Old, RemovalUnderWay>>
  BY DEF Recent, Old, lists, removal, RemovalUnderWay
<1>2. ListsMatchPhase' /\ QueryNumberRead'
  BY <1>1 DEF IInv, ListsMatchPhase, QueryNumberRead, lists, removal
<1>3. ClockAhead' /\ CommittingIsNewest' /\ RecentlyCommittedOrdered'
  BY <1>1 DEF IInv, ClockAhead, CommittingIsNewest, RecentlyCommittedOrdered, counters,
              fields, lists
<1>4. UndoKeptWhileNeeded'
  BY <1>1 DEF IInv, UndoKeptWhileNeeded, Linked, fields, lists
<1>5. RemovalStable'
  BY <1>1 DEF IInv, RemovalStable, ListsMatchPhase, lowest, lists, fields, removal
<1> QED
  BY <1>2, <1>3, <1>4, <1>5 DEF IInv

\* Every step of the manager and of its clients preserves IInv.
LEMMA NextPreservesIInv == IInv /\ [Next]_vars => IInv'
<1> SUFFICES ASSUME IInv, [Next]_vars PROVE IInv'
  OBVIOUS
<1> USE ConstantsAssumption
<1>0. TypeOK
  BY DEF IInv
<1>1. CASE UNCHANGED vars
  <2>1. UNCHANGED <<Recent, Old>>
    BY <1>1 DEF vars, lists, Recent, Old
  <2>2. TypeOK' /\ ReadersKnown'
    BY <1>1, <2>1 DEF IInv, TypeOK, ReadersKnown, vars, counters, lowest, lists, fields, queries,
                      removal
  <2>3. QueriesCounted'
    BY <1>1 DEF IInv, QueriesCounted, RemovalUnderWay, vars, queries, removal
  <2> QED
    BY <1>1, <2>2, <2>3, QuietStep DEF vars
<1>2. ASSUME NEW t \in Txn, BeginQuery(t) PROVE IInv'
  <2>1. TypeOK'
    BY <1>0, <1>2 DEF TypeOK, BeginQuery, Announce, counters, lowest, lists, fields, removal
  <2>2. UNCHANGED <<Recent, Old>>
    BY <1>2 DEF BeginQuery, lists, Recent, Old
  <2>3. /\ reading[t] = {}
        /\ current_query_number \in Nat /\ current_query_number' = current_query_number + 1
    BY <1>0, <1>2 DEF IInv, TypeOK, ReadersKnown, BeginQuery
  <2>4. /\ \A v \in Txn : query'[v] = IF v = t THEN current_query_number ELSE query[v]
        /\ \A v \in Txn \ {t} : active_query'[v] = active_query[v]
        /\ phase[t] = "running" => active_query'[t] = current_query_number
        /\ phase[t] \in {"none", "running"}
        /\ UNCHANGED <<phase, reading, changes, active_transactions, highest_active_query>>
        /\ late' = IF RemovalUnderWay /\ phase[t] # "none" THEN late \cup {t} ELSE late
        /\ UNCHANGED <<RemovalUnderWay, lowest_active_query, current_query>>
    BY <1>0, <1>2 DEF TypeOK, BeginQuery, Announce, RemovalUnderWay, lists, removal
  <2>5. \A v \in Txn : query'[v] < current_query_number'
    <3>1. \A v \in Txn : query[v] \in Nat /\ query[v] < current_query_number
      BY <1>0 DEF IInv, TypeOK, ReadersKnown
    <3> QED
      BY <2>3, <2>4, <3>1
  <2>6. \A v \in Txn : \A u \in reading[v] : v # t
    BY <2>3
  <2>7. ReadersKnown'
    <3>1. \A v \in Txn : phase'[v] = "starting" => query'[v] # 0
      BY <2>3, <2>4 DEF IInv, ReadersKnown
    <3>2. \A v \in Txn : reading'[v] # {} => phase'[v] = "running" /\ query'[v] # 0
      BY <2>3, <2>4 DEF IInv, ReadersKnown
    <3>3. \A v \in Txn : phase'[v] = "running" /\ query'[v] # 0 => active_query'[v] = query'[v]
      BY <2>4 DEF IInv, ReadersKnown
    <3>4. \A v \in Txn \ late' : \A u \in reading'[v] :
            /\ changes'[u] \cap Versions # {}
            /\ \/ u \in active_transactions' \cup Recent'
               \/ u \in Old' /\ query'[v] <= highest_active_query'[u]
      BY <2>2, <2>4, <2>6 DEF IInv, ReadersKnown
    <3> QED
      BY <2>5, <3>1, <3>2, <3>3, <3>4 DEF ReadersKnown
  <2>8. QueriesCounted'
    BY <2>4 DEF IInv, QueriesCounted
  <2> QED
    BY <1>2, <2>1, <2>7, <2>8, QuietStep DEF BeginQuery
<1>3. ASSUME NEW t \in Txn, NEW u \in Txn, ReadVersion(t, u) PROVE IInv'
  <2>1. TypeOK'
    BY <1>0, <1>3 DEF TypeOK, ReadVersion, counters, lowest, lists, fields, removal
  <2>2. UNCHANGED <<Recent, Old>>
    BY <1>3 DEF ReadVersion, lists, Recent, Old
  <2>3. /\ \A v \in Txn \ {t} : reading'[v] = reading[v]
        /\ reading'[t] = reading[t] \cup {u}
        /\ phase[t] = "running" /\ query[t] # 0
        /\ changes[u] \cap Versions # {} /\ u \in active_transactions \cup Recent
        /\ UNCHANGED <<phase, query, active_query, current_query_number, changes,
                       active_transactions, highest_active_query, late>>
    BY <1>0, <1>3 DEF TypeOK, ReadVersion, Linked, lists
  <2>4. ReadersKnown'
    <3>1. \A v \in Txn : reading'[v] # {} => phase[v] = "running" /\ query[v] # 0
      BY <2>3 DEF IInv, ReadersKnown
    <3>2. \A v \in Txn \ late : \A x \in reading'[v] :
            /\ changes[x] \cap Versions # {}
            /\ \/ x \in active_transactions \cup Recent
               \/ x \in Old /\ query[v] <= highest_active_query[x]
      BY <2>3 DEF IInv, ReadersKnown
    <3> QED
      BY <2>2, <2>3, <3>1, <3>2 DEF IInv, ReadersKnown
  <2>5. QueriesCounted'
    BY <1>3, <2>3 DEF IInv, QueriesCounted, RemovalUnderWay, ReadVersion, removal
  <2> QED
    BY <1>3, <2>1, <2>4, <2>5, QuietStep DEF ReadVersion
<1>4. ASSUME NEW t \in Txn, EndQuery(t) PROVE IInv'
  <2>1. TypeOK'
    <3>1. MAXIMUM_QUERY_ID \in 1..MAXIMUM_QUERY_ID
      BY ConstantsAssumption
    <3> QED
      BY <1>0, <1>4, <3>1 DEF TypeOK, EndQuery, counters, lowest, lists, fields, removal
  <2>2. UNCHANGED <<Recent, Old>>
    BY <1>4 DEF EndQuery, lists, Recent, Old
  <2>3. ReadersKnown'
    <3>1. /\ \A v \in Txn \ {t} : reading'[v] = reading[v] /\ query'[v] = query[v]
          /\ \A v \in Txn \ {t} : active_query'[v] = active_query[v]
          /\ reading'[t] = {} /\ query'[t] = 0 /\ phase[t] = "running"
          /\ UNCHANGED <<phase, current_query_number, changes,
                         active_transactions, highest_active_query>>
          /\ late' = late \ {t}
      BY <1>0, <1>4 DEF TypeOK, EndQuery, lists
    <3>2. \A v \in Txn : query'[v] < current_query_number
      <4>1. 0 < current_query_number
        BY <1>0 DEF TypeOK
      <4> QED
        BY <3>1, <4>1 DEF IInv, ReadersKnown
    <3>3. \A v \in Txn : phase[v] = "starting" => query'[v] # 0
      BY <3>1 DEF IInv, ReadersKnown
    <3> QED
      BY <2>2, <3>1, <3>2, <3>3 DEF IInv, ReadersKnown
  <2>4. QueriesCounted'
    BY <1>0, <1>4 DEF IInv, TypeOK, QueriesCounted, RemovalUnderWay, EndQuery, removal
  <2> QED
    BY <1>4, <2>1, <2>3, <2>4, QuietStep DEF EndQuery
<1>5. ASSUME NEW t \in Txn, StartTransaction(t) PROVE IInv'
  <2>1. TypeOK'
    <3>1. phase' \in [Txn -> Phase]
      BY <1>0, <1>5 DEF TypeOK, StartTransaction, Phase
    <3>2. start_time' \in [Txn -> Nat] /\ current_start_timestamp' \in Nat
      BY <1>0, <1>5 DEF TypeOK, StartTransaction
    <3>3. transaction_id' \in [Txn -> Nat] /\ current_transaction_id' \in Nat
      BY <1>0, <1>5 DEF TypeOK, StartTransaction
    <3>4. lowest_active_start' \in Nat /\ lowest_active_id' \in Nat
      BY <1>0, <1>5 DEF TypeOK, StartTransaction, lowest
    <3>5. active_transactions' \subseteq Txn
      BY <1>0, <1>5 DEF TypeOK, StartTransaction
    <3>6. UNCHANGED <<last_commit, transaction_lock, recently_committed_transactions,
                      old_transactions, commit_id, active_query, highest_active_query,
                      changes, write_lock, current_query_number, query, reading, late,
                      store_transaction, lowest_active_query, current_query>>
      BY <1>5 DEF StartTransaction, queries, removal
    <3> QED
      BY <1>0, <3>1, <3>2, <3>3, <3>4, <3>5, <3>6 DEF TypeOK
  <2>2. /\ UNCHANGED <<Recent, Old>> /\ active_transactions' = active_transactions \cup {t}
        /\ ~ RemovalUnderWay /\ ~ RemovalUnderWay'
    BY <1>5 DEF IInv, ListsMatchPhase, StartTransaction, Recent, Old, RemovalUnderWay, removal
  <2>3. ListsMatchPhase'
    <3>1. /\ phase[t] = "none" /\ phase'[t] = "starting"
          /\ \A v \in Txn \ {t} : phase'[v] = phase[v]
          /\ transaction_lock' = transaction_lock /\ transaction_lock = NoTxn
      BY <1>0, <1>5 DEF TypeOK, StartTransaction
    <3>2. Recent \subseteq Txn /\ Old \subseteq Txn
      BY <1>0, Members DEF TypeOK, Recent, Old
    <3>3. t \notin Recent /\ t \notin Old
      BY <3>1 DEF IInv, ListsMatchPhase
    <3>4. \A v \in Txn : phase'[v] \in {"starting", "running", "committing"}
                           => v \in active_transactions'
      BY <2>2, <3>1 DEF IInv, ListsMatchPhase
    <3>5. \A v \in active_transactions' : phase'[v] \in {"starting", "running", "committing"}
      BY <1>0, <2>2, <3>1 DEF IInv, TypeOK, ListsMatchPhase
    <3> QED
      BY <2>2, <3>1, <3>2, <3>3, <3>4, <3>5 DEF IInv, ListsMatchPhase
  <2>4. ClockAhead'
    <3>1. /\ current_start_timestamp' = current_start_timestamp + 1
          /\ current_start_timestamp \in Nat
          /\ phase[t] = "none" /\ phase'[t] = "starting"
          /\ \A v \in Txn \ {t} : phase'[v] = phase[v] /\ start_time'[v] = start_time[v]
          /\ start_time'[t] = current_start_timestamp
          /\ commit_id' = commit_id
          /\ \A v \in Txn : start_time[v] \in Nat /\ commit_id[v] \in Nat
      BY <1>0, <1>5 DEF TypeOK, StartTransaction
    <3>2. \A v \in Txn : commit_id'[v] # 0 <=> phase'[v] \in {"committing", "committed"}
      BY <3>1 DEF IInv, ClockAhead
    <3>3. \A v \in Txn : start_time'[v] < current_start_timestamp'
      BY <3>1 DEF IInv, ClockAhead
    <3> QED
      BY <3>1, <3>2, <3>3 DEF IInv, ClockAhead
  <2>5. CommittingIsNewest' /\ RecentlyCommittedOrdered'
    BY <1>0, <1>5, <2>2
    DEF IInv, TypeOK, CommittingIsNewest, RecentlyCommittedOrdered, StartTransaction
  <2>6. UndoKeptWhileNeeded'
    <3> SUFFICES ASSUME NEW u \in active_transactions', NEW v \in Txn,
                        phase'[v] = "committed", changes'[v] \cap Versions # {},
                        start_time'[u] < commit_id'[v]
                 PROVE  v \in active_transactions \cup Recent
      BY <2>2 DEF UndoKeptWhileNeeded, Linked
    <3>1. phase[v] = "committed" /\ commit_id'[v] = commit_id[v] /\ changes'[v] = changes[v]
      BY <1>0, <1>5 DEF TypeOK, StartTransaction
    <3>2. CASE u = t
      <4>1. start_time'[u] = current_start_timestamp
        BY <1>0, <1>5, <3>2 DEF TypeOK, StartTransaction
      <4>2. commit_id[v] < current_start_timestamp
        BY DEF IInv, ClockAhead
      <4>3. commit_id[v] \in Nat /\ current_start_timestamp \in Nat
        BY <1>0 DEF TypeOK
      <4>4. current_start_timestamp < commit_id[v]
        BY <3>1, <4>1
      <4> QED
        BY <4>2, <4>3, <4>4
    <3>3. CASE u # t
      <4>1. u \in active_transactions /\ start_time'[u] = start_time[u]
        BY <1>0, <1>5, <2>2, <3>3 DEF TypeOK, StartTransaction
      <4> QED
        BY <3>1, <4>1 DEF IInv, UndoKeptWhileNeeded, Linked
    <3> QED
      BY <3>2, <3>3
  <2>7. ReadersKnown'
    BY <1>0, <1>5, <2>2 DEF IInv, TypeOK, ReadersKnown, StartTransaction, queries
  <2>8. RemovalStable' /\ QueriesCounted' /\ QueryNumberRead'
    BY <1>5, <2>2 DEF IInv, RemovalStable, QueriesCounted, QueryNumberRead, StartTransaction,
                      removal
  <2> QED
    BY <2>1, <2>3, <2>4, <2>5, <2>6, <2>7, <2>8 DEF IInv
<1>6. ASSUME NEW t \in Txn, GetTransaction(t) PROVE IInv'
  <2>1. UNCHANGED <<Recent, Old, active_transactions, RemovalUnderWay>>
    BY <1>6 DEF GetTransaction, lists, Recent, Old, RemovalUnderWay, removal
  <2>2. query[t] # 0 /\ reading[t] = {} /\ query[t] \in 1..MAXIMUM_QUERY_ID
    <3>1. query[t] # 0 /\ reading[t] = {}
      BY <1>6 DEF IInv, GetTransaction, ReadersKnown
    <3>2. query[t] \in 0..MaxQuery
      BY <1>0 DEF TypeOK
    <3> QED
      BY <3>1, <3>2
  <2>3. TypeOK'
    BY <1>0, <1>6, <2>2 DEF TypeOK, GetTransaction, Announce, counters, lowest, lists, fields,
                            removal, Phase
  <2>4. ListsMatchPhase'
    BY <1>0, <1>6, <2>1 DEF IInv, TypeOK, ListsMatchPhase, GetTransaction
  <2>5. ClockAhead' /\ CommittingIsNewest' /\ RecentlyCommittedOrdered'
    BY <1>0, <1>6, <2>1 DEF IInv, TypeOK, ClockAhead, CommittingIsNewest,
       RecentlyCommittedOrdered, GetTransaction, counters, fields, lists
  <2>6. UndoKeptWhileNeeded'
    BY <1>0, <1>6, <2>1 DEF IInv, TypeOK, UndoKeptWhileNeeded, Linked, GetTransaction, fields
  <2>7. ReadersKnown'
    BY <1>0, <1>6, <2>1, <2>2 DEF IInv, TypeOK, ReadersKnown, GetTransaction, Announce
  <2>8. RemovalStable' /\ QueryNumberRead'
    BY <1>6, <2>1 DEF IInv, RemovalStable, QueryNumberRead, GetTransaction, lowest, fields, removal
  <2>9. QueriesCounted'
    BY <1>0, <1>6, <2>1 DEF IInv, TypeOK, QueriesCounted, GetTransaction, Announce, removal
  <2> QED
    BY <2>3, <2>4, <2>5, <2>6, <2>7, <2>8, <2>9 DEF IInv
<1>7. ASSUME NEW t \in Txn, SetReadWrite(t) PROVE IInv'
  <2>1. TypeOK'
    BY <1>0, <1>7 DEF TypeOK, SetReadWrite, counters, lowest, lists, fields, queries, removal
  <2>2. UNCHANGED <<Recent, Old>>
    BY <1>7 DEF SetReadWrite, lists, Recent, Old
  <2>3. ReadersKnown'
    BY <1>7, <2>2 DEF IInv, ReadersKnown, SetReadWrite, lists, queries
  <2>4. QueriesCounted'
    BY <1>7 DEF IInv, QueriesCounted, RemovalUnderWay, SetReadWrite, queries, removal
  <2> QED
    BY <1>7, <2>1, <2>3, <2>4, QuietStep DEF SetReadWrite
<1>8. ASSUME NEW t \in Txn, NEW k \in Kind, MakeChange(t, k) PROVE IInv'
  <2>1. TypeOK'
    BY <1>0, <1>8 DEF TypeOK, MakeChange, counters, lowest, lists, fields, queries, removal
  <2>2. UNCHANGED <<Recent, Old>>
    BY <1>8 DEF MakeChange, lists, Recent, Old
  <2>3. \A u \in Txn : changes[u] \subseteq changes'[u]
    BY <1>0, <1>8 DEF TypeOK, MakeChange
  <2>4. ReadersKnown'
    <3>1. \A v \in Txn \ late : \A u \in reading[v] :
              u \in Txn /\ changes'[u] \cap Versions # {}
      BY <1>0, <2>3 DEF IInv, TypeOK, ReadersKnown
    <3> QED
      BY <1>8, <2>2, <3>1 DEF IInv, ReadersKnown, MakeChange, lists, queries
  <2>5. \A u \in Txn : changes'[u] # changes[u] => phase[u] = "running"
    BY <1>0, <1>8 DEF TypeOK, MakeChange
  <2>6. QueriesCounted'
    BY <1>8 DEF IInv, QueriesCounted, RemovalUnderWay, MakeChange, queries, removal
  <2> QED
    BY <1>8, <2>1, <2>4, <2>5, <2>6, QuietStep DEF MakeChange
<1>9. ASSUME NEW t \in Txn, CommitTimestamp(t) PROVE IInv'
  <2>1. TypeOK'
    BY <1>0, <1>9 DEF TypeOK, CommitTimestamp, lowest, lists, queries, removal, Phase
  <2>2. UNCHANGED <<Recent, Old, active_transactions>> /\ ~ RemovalUnderWay /\ ~ RemovalUnderWay'
    BY <1>9 DEF IInv, ListsMatchPhase, CommitTimestamp, lists, Recent, Old, RemovalUnderWay, removal
  <2>3. Recent \subseteq Txn /\ t \notin Recent
    BY <1>0, <1>9, Members DEF IInv, TypeOK, ListsMatchPhase, Recent, CommitTimestamp
  <2>4. ListsMatchPhase'
    BY <1>0, <1>9, <2>2 DEF IInv, TypeOK, ListsMatchPhase, CommitTimestamp
  <2>5. ClockAhead'
    <3>1. /\ current_start_timestamp' = current_start_timestamp + 1
          /\ current_start_timestamp \in Nat
          /\ phase'[t] = "committing"
          /\ \A v \in Txn \ {t} : phase'[v] = phase[v] /\ commit_id'[v] = commit_id[v]
          /\ commit_id'[t] = current_start_timestamp
          /\ start_time' = start_time
          /\ \A v \in Txn : start_time[v] \in Nat /\ commit_id[v] \in Nat
      BY <1>0, <1>9 DEF TypeOK, CommitTimestamp
    <3>2. \A v \in Txn : commit_id'[v] # 0 <=> phase'[v] \in {"committing", "committed"}
      BY <3>1 DEF IInv, ClockAhead
    <3>3. \A v \in Txn : commit_id'[v] < current_start_timestamp'
      BY <3>1 DEF IInv, ClockAhead
    <3> QED
      BY <3>1, <3>2, <3>3 DEF IInv, ClockAhead
  <2>6. CommittingIsNewest'
    <3>1. \A u \in Recent : commit_id'[u] = commit_id[u] /\ commit_id[u] < current_start_timestamp
      BY <1>0, <1>9, <2>3 DEF IInv, TypeOK, ClockAhead, CommitTimestamp
    <3>2. commit_id'[t] = current_start_timestamp
      BY <1>0, <1>9 DEF TypeOK, CommitTimestamp
    <3>3. transaction_lock' = t
      BY <1>9 DEF CommitTimestamp
    <3> QED
      BY <2>2, <3>1, <3>2, <3>3 DEF CommittingIsNewest
  <2>7. RecentlyCommittedOrdered'
    <3>1. \A i \in 1..Len(recently_committed_transactions) :
             recently_committed_transactions[i] \in Recent
      BY <1>0, Members DEF TypeOK, Recent
    <3>2. \A u \in Recent : commit_id'[u] = commit_id[u]
      BY <1>0, <1>9, <2>3 DEF TypeOK, CommitTimestamp
    <3>3. UNCHANGED recently_committed_transactions
      BY <1>9 DEF CommitTimestamp, lists
    <3> QED
      BY <3>1, <3>2, <3>3 DEF IInv, RecentlyCommittedOrdered
  <2>8. UndoKeptWhileNeeded'
    BY <1>0, <1>9, <2>2 DEF IInv, TypeOK, UndoKeptWhileNeeded, Linked, CommitTimestamp
  <2>9. ReadersKnown'
    BY <1>0, <1>9, <2>2 DEF IInv, TypeOK, ReadersKnown, CommitTimestamp, queries
  <2>10. RemovalStable' /\ QueriesCounted' /\ QueryNumberRead'
    BY <1>9, <2>2 DEF IInv, RemovalStable, QueriesCounted, QueryNumberRead, CommitTimestamp,
                      removal
  <2> QED
    BY <2>1, <2>4, <2>5, <2>6, <2>7, <2>8, <2>9, <2>10 DEF IInv
<1>10. ASSUME NEW t \in Txn, CommitSucceeds(t) PROVE IInv'
  <2>1. /\ t \in active_transactions /\ transaction_lock = t /\ reading[t] = {}
        /\ ~ RemovalUnderWay /\ commit_id \in [Txn -> Nat]
    BY <1>0, <1>10 DEF IInv, TypeOK, ListsMatchPhase, ReadersKnown, CommitSucceeds
  <2> DEFINE store == changes[t] \cap Versions # {}
  <2>2. /\ store \in BOOLEAN
        /\ ScanActive(t, store)
        /\ phase' = [phase EXCEPT ![t] = "committed"] /\ phase[t] = "committing"
        /\ commit_id' = commit_id /\ transaction_lock' = t
        /\ UNCHANGED <<counters, start_time, transaction_id, active_query, changes, queries>>
    BY <1>10, <2>1 DEF CommitSucceeds, fields
  <2>3. changes[t] \cap Versions # {} => store
    OBVIOUS
  <2> HIDE DEF store
  <2> QED
    BY <2>1, <2>2, <2>3, ScanPreservesIInv
<1>11. ASSUME NEW t \in Txn, CommitFails(t) PROVE IInv'
  <2>1. /\ t \in active_transactions /\ transaction_lock = t /\ reading[t] = {}
        /\ ~ RemovalUnderWay
    BY <1>0, <1>11 DEF IInv, TypeOK, ListsMatchPhase, ReadersKnown, CommitFails
  <2>2. /\ ScanActive(t, TRUE)
        /\ phase' = [phase EXCEPT ![t] = "aborted"] /\ phase[t] = "committing"
        /\ transaction_lock' = t
        /\ UNCHANGED <<counters, start_time, transaction_id, active_query, changes, queries>>
    BY <1>11, <2>1 DEF CommitFails
  <2>3. /\ commit_id' \in [Txn -> Nat] /\ commit_id'[t] = 0
        /\ \A u \in Txn \ {t} : commit_id'[u] = commit_id[u]
    BY <1>0, <1>11 DEF TypeOK, CommitFails
  <2> QED
    BY <2>1, <2>2, <2>3, ScanPreservesIInv
<1>12. ASSUME NEW t \in Txn, RollbackTransaction(t) PROVE IInv'
  <2>1. /\ t \in active_transactions /\ reading[t] = {} /\ commit_id[t] = 0
        /\ ~ RemovalUnderWay
    BY <1>12 DEF IInv, ClockAhead, ListsMatchPhase, ReadersKnown, RollbackTransaction
  <2> DEFINE store == changes[t] \ {"append"} # {}
  <2>2. /\ store \in BOOLEAN /\ commit_id \in [Txn -> Nat]
        /\ ScanActive(t, store)
        /\ phase' = [phase EXCEPT ![t] = "aborted"]
        /\ phase[t] = "running" /\ query[t] = 0
        /\ commit_id' = commit_id /\ transaction_lock = NoTxn /\ transaction_lock' = t
        /\ UNCHANGED <<counters, start_time, transaction_id, active_query, changes, queries>>
    BY <1>0, <1>12 DEF TypeOK, RollbackTransaction, fields
  <2>3. changes[t] \cap Versions # {} => store
    BY DEF Versions
  <2> HIDE DEF store
  <2> QED
    BY <2>1, <2>2, <2>3, ScanPreservesIInv
<1>13. ASSUME NEW t \in Txn, ReadQueryNumber(t) PROVE IInv'
  <2>1. /\ UNCHANGED <<Recent, Old, RemovalUnderWay>> /\ RemovalUnderWay
        /\ current_query' = current_query_number
    BY <1>13 DEF ReadQueryNumber, Recent, Old, lists, RemovalUnderWay
  <2>2. TypeOK'
    BY <1>0, <1>13 DEF TypeOK, ReadQueryNumber, counters, lowest, lists, fields, queries
  <2>3. ListsMatchPhase' /\ ClockAhead' /\ CommittingIsNewest' /\ RecentlyCommittedOrdered'
    BY <1>13, <2>1 DEF IInv, ListsMatchPhase, ClockAhead, CommittingIsNewest,
       RecentlyCommittedOrdered, ReadQueryNumber, counters, fields, lists
  <2>4. UndoKeptWhileNeeded' /\ RemovalStable' /\ QueryNumberRead'
    BY <1>13, <2>1 DEF IInv, UndoKeptWhileNeeded, Linked, RemovalStable, QueryNumberRead,
       ReadQueryNumber, lowest, fields, lists
  <2>5. QueriesCounted' /\ ReadersKnown'
    BY <1>13, <2>1 DEF IInv, QueriesCounted, ReadersKnown, ReadQueryNumber, lists, queries
  <2> QED
    BY <2>2, <2>3, <2>4, <2>5 DEF IInv
<1>14. ASSUME NEW t \in Txn, RemoveTransaction(t) PROVE IInv'
  BY <1>14, RemovePreservesIInv
<1> QED
  BY <1>1, <1>2, <1>3, <1>4, <1>5, <1>6, <1>7, <1>8, <1>9, <1>10, <1>11, <1>12, <1>13, <1>14
  DEF Next

\* The inductive invariant holds throughout every execution.
LEMMA AlwaysIInv == Spec => []IInv
  BY InitEstablishesIInv, NextPreservesIInv, PTL DEF Spec
-----------------------------------------------------------------------------
\* Type correctness of the manager.
THEOREM TypeCorrect == Spec => []TypeOK
  BY AlwaysIInv, PTL DEF IInv

\* The order on commit_id that the clean-up loop of RemoveTransaction assumes
\* holds in every execution.
THEOREM RecentlyCommittedIsOrdered == Spec => []RecentlyCommittedOrdered
  BY AlwaysIInv, PTL DEF IInv

\* Updates and catalog changes stay linked while an older transaction runs.
THEOREM UndoIsKeptWhileNeeded == Spec => []UndoKeptWhileNeeded
  BY AlwaysIInv, PTL DEF IInv

\* No query is left with a pointer into an undo buffer that has been freed by
\* RemoveTransaction, unless the query was announced in the middle of one.
THEOREM UndoMemoryIsSafe == Spec => []UndoMemorySafe
<1>1. IInv => UndoMemorySafe
  BY DEF IInv, ReadersKnown, UndoMemorySafe
<1> QED
  BY <1>1, AlwaysIInv, PTL
-----------------------------------------------------------------------------
(* The oldest live transaction.                                            *)

\* StartTransaction refuses start times that reach the transaction ids, which
\* is why the initial value of the loop's minimum never wins over one of them.
StartsBelowIds == \A t \in active_transactions : start_time[t] < TRANSACTION_ID_START

LInv == IInv /\ StartsBelowIds /\ LowestActiveStartExact

\* While others are active the minimum is the start time of one of them.
LEMMA LowestStartAttained ==
  ASSUME TypeOK, NEW others \in SUBSET Txn, others # {},
         \A u \in others : start_time[u] < TRANSACTION_ID_START
  PROVE  \E u \in others : start_time[u] = LowestStart(others)
<1> DEFINE S == {TRANSACTION_ID_START} \cup {start_time[u] : u \in others}
<1>1. S \in SUBSET Nat /\ S # {}
  BY ConstantsAssumption DEF TypeOK
<1>2. PICK u \in others : start_time[u] < TRANSACTION_ID_START
  OBVIOUS
<1>3. start_time[u] \in S /\ start_time[u] \in Nat /\ TRANSACTION_ID_START \in Nat
  BY ConstantsAssumption DEF TypeOK
<1>4. LowestStart(others) = Min(S)
  BY DEF LowestStart
<1>5. \A x \in S : x = TRANSACTION_ID_START \/ \E v \in others : x = start_time[v]
  OBVIOUS
<1> HIDE DEF S
<1>6. Min(S) \in S /\ Min(S) <= start_time[u]
  BY <1>1, <1>3, MinIsLeast
<1>7. Min(S) # TRANSACTION_ID_START
  BY <1>1, <1>2, <1>3, <1>6
<1> QED
  BY <1>4, <1>5, <1>6, <1>7

\* The scan of RemoveTransaction leaves the start time of the oldest one.
LEMMA ScanKeepsLowest ==
  ASSUME LInv, NEW t \in Txn, NEW p \in {"committed", "aborted"}, NEW store,
         ScanActive(t, store), phase' = [phase EXCEPT ![t] = p], start_time' = start_time,
         t \in active_transactions, transaction_lock \in {t, NoTxn}
  PROVE  StartsBelowIds' /\ LowestActiveStartExact'
<1> DEFINE others == active_transactions \ {t}
<1>1. /\ lowest_active_start' = LowestStart(others)
      /\ active_transactions' = active_transactions
      /\ start_time' = start_time
  BY DEF ScanActive, lists
<1>2. TypeOK /\ others \in SUBSET Txn /\ NoTxn \notin Txn
  BY ConstantsAssumption DEF LInv, IInv, TypeOK
<1>3. \A u \in others : phase'[u] = phase[u] /\ phase[u] \notin {"committed", "aborted"}
  BY <1>2 DEF LInv, IInv, TypeOK, ListsMatchPhase
<1>4. Live' = others
  <2>1. phase'[t] \in {"committed", "aborted"}
    BY <1>2 DEF TypeOK
  <2> QED
    BY <1>1, <1>3, <2>1 DEF Live
<1>5. StartsBelowIds'
  BY <1>1 DEF LInv, StartsBelowIds
<1>6. \A u \in others : LowestStart(others) <= start_time[u]
  BY <1>2, LowerBounds
<1>7. others # {} => \E u \in others : start_time[u] = LowestStart(others)
  BY <1>2, LowestStartAttained DEF LInv, StartsBelowIds
<1> QED
  BY <1>1, <1>4, <1>5, <1>6, <1>7 DEF LowestActiveStartExact

\* A transaction that starts is the youngest, and the oldest only if alone.
LEMMA StartKeepsLowest ==
  ASSUME LInv, NEW t \in Txn, StartTransaction(t)
  PROVE  StartsBelowIds' /\ LowestActiveStartExact'
<1>1. /\ TypeOK /\ NoTxn \notin Txn /\ transaction_lock = NoTxn
      /\ active_transactions' = active_transactions \cup {t}
      /\ current_start_timestamp < TRANSACTION_ID_START
      /\ t \notin active_transactions
  BY ConstantsAssumption DEF LInv, IInv, TypeOK, StartTransaction, ListsMatchPhase
<1>2. /\ start_time'[t] = current_start_timestamp /\ phase'[t] = "starting"
      /\ \A u \in Txn \ {t} : start_time'[u] = start_time[u] /\ phase'[u] = phase[u]
      /\ \A u \in Txn : start_time[u] < current_start_timestamp
      /\ current_start_timestamp \in Nat /\ \A u \in Txn : start_time[u] \in Nat
      /\ active_transactions \subseteq Txn
  BY DEF LInv, IInv, TypeOK, StartTransaction, ClockAhead
<1>3. Live = active_transactions /\ Live' = active_transactions \cup {t}
  <2>1. \A u \in active_transactions : phase[u] \notin {"committed", "aborted"}
    BY <1>1, <1>2 DEF LInv, IInv, ListsMatchPhase
  <2> QED
    BY <1>1, <1>2, <2>1 DEF Live
<1>4. StartsBelowIds'
  BY <1>1, <1>2 DEF LInv, StartsBelowIds
<1>5. CASE active_transactions = {}
  <2>1. lowest_active_start' = current_start_timestamp
    BY <1>5 DEF StartTransaction
  <2>2. Live' = {t}
    BY <1>3, <1>5
  <2> QED
    BY <1>2, <1>4, <2>1, <2>2 DEF LowestActiveStartExact
<1>6. CASE active_transactions # {}
  <2>1. lowest_active_start' = lowest_active_start /\ lowest_active_start \in Nat
    BY <1>1, <1>6 DEF StartTransaction, lowest, TypeOK
  <2>2. PICK u \in active_transactions : start_time[u] = lowest_active_start
    BY <1>3, <1>6 DEF LInv, LowestActiveStartExact
  <2>3. u \in Live' /\ start_time'[u] = lowest_active_start'
    BY <1>1, <1>2, <1>3, <2>1, <2>2
  <2>4. ASSUME NEW v \in Live' PROVE lowest_active_start' <= start_time'[v]
    <3>1. CASE v = t
      BY <1>2, <2>1, <2>2, <3>1
    <3>2. CASE v # t
      <4>1. v \in Live /\ start_time'[v] = start_time[v]
        BY <1>2, <1>3, <3>2
      <4> QED
        BY <2>1, <4>1 DEF LInv, LowestActiveStartExact
    <3> QED
      BY <3>1, <3>2
  <2> QED
    BY <1>4, <2>3, <2>4 DEF LowestActiveStartExact
<1> QED
  BY <1>5, <1>6

\* A step that changes neither the live transactions nor their start times.
LEMMA SameLiveTransactions ==
  ASSUME LInv, active_transactions' \subseteq active_transactions, Live' = Live,
         UNCHANGED <<start_time, lowest_active_start>>
  PROVE  StartsBelowIds' /\ LowestActiveStartExact'
  BY DEF LInv, StartsBelowIds, LowestActiveStartExact

\* Every step preserves the strengthened invariant.
LEMMA NextPreservesLInv == LInv /\ [Next]_vars => LInv'
<1> SUFFICES ASSUME LInv, [Next]_vars PROVE LInv'
  OBVIOUS
<1>0. IInv' /\ TypeOK
  BY NextPreservesIInv DEF LInv, IInv
<1> SUFFICES StartsBelowIds' /\ LowestActiveStartExact'
  BY <1>0 DEF LInv
<1>1. CASE UNCHANGED vars
  BY <1>1, SameLiveTransactions DEF vars, lists, fields, lowest, Live
<1>2. ASSUME NEW t \in Txn,
             \/ BeginQuery(t) \/ (\E u \in Txn : ReadVersion(t, u)) \/ EndQuery(t)
             \/ SetReadWrite(t) \/ (\E k \in Kind : MakeChange(t, k)) \/ ReadQueryNumber(t)
      PROVE  StartsBelowIds' /\ LowestActiveStartExact'
  <2>1. UNCHANGED <<active_transactions, phase, start_time, lowest_active_start>>
    BY <1>2 DEF BeginQuery, ReadVersion, EndQuery, SetReadWrite, MakeChange, ReadQueryNumber,
                lists, fields, lowest
  <2> QED
    BY <2>1, SameLiveTransactions DEF Live
<1>3. ASSUME NEW t \in Txn, StartTransaction(t)
      PROVE  StartsBelowIds' /\ LowestActiveStartExact'
  BY <1>3, StartKeepsLowest
<1>4. ASSUME NEW t \in Txn, GetTransaction(t) \/ CommitTimestamp(t)
      PROVE  StartsBelowIds' /\ LowestActiveStartExact'
  <2>1. /\ UNCHANGED <<active_transactions, start_time, lowest_active_start>>
        /\ active_transactions \subseteq Txn
        /\ phase[t] \in {"starting", "running"} /\ phase'[t] \in {"running", "committing"}
        /\ \A u \in Txn \ {t} : phase'[u] = phase[u]
    BY <1>0, <1>4 DEF GetTransaction, CommitTimestamp, TypeOK, lists, fields, lowest
  <2>2. Live' = Live
    BY <2>1 DEF Live
  <2> QED
    BY <2>1, <2>2, SameLiveTransactions
<1>5. ASSUME NEW t \in Txn, CommitSucceeds(t)
      PROVE  StartsBelowIds' /\ LowestActiveStartExact'
  <2>1. /\ t \in active_transactions /\ transaction_lock = t
        /\ phase' = [phase EXCEPT ![t] = "committed"] /\ start_time' = start_time
        /\ ScanActive(t, changes[t] \cap Versions # {})
    BY <1>5 DEF CommitSucceeds, fields, LInv, IInv, ListsMatchPhase
  <2> QED
    BY <2>1, ScanKeepsLowest
<1>6. ASSUME NEW t \in Txn, CommitFails(t)
      PROVE  StartsBelowIds' /\ LowestActiveStartExact'
  <2>1. /\ t \in active_transactions /\ transaction_lock = t
        /\ phase' = [phase EXCEPT ![t] = "aborted"] /\ start_time' = start_time
        /\ ScanActive(t, TRUE)
    BY <1>6 DEF CommitFails, LInv, IInv, ListsMatchPhase
  <2> QED
    BY <2>1, ScanKeepsLowest
<1>7. ASSUME NEW t \in Txn, RollbackTransaction(t)
      PROVE  StartsBelowIds' /\ LowestActiveStartExact'
  <2>1. /\ t \in active_transactions /\ transaction_lock = NoTxn
        /\ phase' = [phase EXCEPT ![t] = "aborted"] /\ start_time' = start_time
        /\ ScanActive(t, changes[t] \ {"append"} # {})
    BY <1>7 DEF RollbackTransaction, fields, LInv, IInv, ListsMatchPhase
  <2> QED
    BY <2>1, ScanKeepsLowest
<1>8. ASSUME NEW t \in Txn, RemoveTransaction(t)
      PROVE  StartsBelowIds' /\ LowestActiveStartExact'
  <2>1. /\ active_transactions' = active_transactions \ {t}
        /\ UNCHANGED <<phase, start_time, lowest_active_start>>
        /\ transaction_lock = t /\ current_query # 0
    BY <1>8 DEF RemoveTransaction, fields, lowest
  <2>2. phase[t] \in {"committed", "aborted"}
    BY <2>1 DEF LInv, IInv, QueryNumberRead, ListsMatchPhase
  <2>3. Live' = Live
    BY <2>1, <2>2 DEF Live
  <2> QED
    BY <2>1, <2>3, SameLiveTransactions
<1> QED
  BY <1>1, <1>2, <1>3, <1>4, <1>5, <1>6, <1>7, <1>8 DEF Next

\* The atomic that checkpoints and committed scans read without the lock is the
\* start time of the oldest live transaction in every state.
THEOREM LowestActiveStartIsExact == Spec => []LowestActiveStartExact
<1>1. Init => LInv
  BY InitEstablishesIInv DEF Init, LInv, StartsBelowIds, LowestActiveStartExact, Live
<1>2. LInv => LowestActiveStartExact
  BY DEF LInv
<1> QED
  BY <1>1, <1>2, NextPreservesLInv, PTL DEF Spec
-----------------------------------------------------------------------------
(* The order of old_transactions.                                          *)

\* Stamps come from the query counter, which only grows.
StampsBehind ==
  /\ \A u \in Old : highest_active_query[u] <= current_query_number
  /\ current_query # 0 => /\ current_query <= current_query_number
                          /\ \A u \in Old : highest_active_query[u] <= current_query

\* A transaction is stamped once: it does not return to the committed ones.
RecentNotOld == Recent \cap Old = {}

OInv == IInv /\ OldTransactionsOrdered /\ StampsBehind /\ RecentNotOld

\* What RemoveTransaction moves to the old transactions was not among them.
LEMMA MovedOnce ==
  ASSUME IInv, RecentNotOld, NEW t \in active_transactions
  PROVE  (ToSet(WithStored(t)) \cup Aborted(t)) \cap Old = {}
<1>1. TypeOK /\ t \in Txn /\ t \notin Old
  BY DEF IInv, TypeOK, ListsMatchPhase
<1> QED
  BY <1>1, StoredMembers DEF RecentNotOld, Aborted

\* The part of the recently committed transactions that is cleaned up and the
\* part that is kept are disjoint.
LEMMA CleanedOnce ==
  ASSUME IInv, NEW t \in Txn, transaction_lock = t, NEW n \in 0..Len(WithStored(t))
  PROVE  ToSet(SubSeq(WithStored(t), 1, n))
           \cap ToSet(SubSeq(WithStored(t), n + 1, Len(WithStored(t)))) = {}
<1> DEFINE s == WithStored(t)
           p == SubSeq(s, 1, n)
           q == SubSeq(s, n + 1, Len(s))
<1>1. TypeOK /\ RecentlyCommittedOrdered /\ s \in Seq(Txn)
  BY StoredMembers DEF IInv
<1>2. commit_id[t] # 0 => \A u \in Recent : commit_id[u] < commit_id[t]
  BY DEF IInv, CommittingIsNewest
<1>3. \A i, k \in 1..Len(s) : i < k => commit_id[s[i]] < commit_id[s[k]]
  BY <1>1, <1>2, StoredOrdered
<1>4. \A i \in 1..Len(s) : commit_id[s[i]] \in Nat
  <2>1. commit_id \in [Txn -> Nat]
    BY <1>1 DEF TypeOK
  <2> HIDE DEF s, p, q
  <2>2. \A i \in 1..Len(s) : s[i] \in Txn
    BY <1>1
  <2> QED
    BY <2>1, <2>2
<1>5. /\ p \in Seq(Txn) /\ q \in Seq(Txn) /\ Len(p) = n /\ Len(q) = Len(s) - n
      /\ \A i \in 1..n : p[i] = s[i]
      /\ \A i \in 1..Len(s) - n : q[i] = s[n + i]
  BY <1>1, CutList
<1> SUFFICES ASSUME NEW x \in ToSet(p), x \in ToSet(q) PROVE FALSE
  OBVIOUS
<1> HIDE DEF s, p, q
<1>6. PICK i \in 1..n : s[i] = x
  BY <1>5, Members
<1>7. PICK k \in 1..Len(s) - n : s[n + k] = x
  <2>1. PICK k \in 1..Len(q) : q[k] = x
    BY <1>5, Members
  <2>2. k \in 1..Len(s) - n
    BY <1>5, <2>1
  <2> QED
    BY <1>5, <2>1, <2>2
<1>8. Len(s) \in Nat /\ i \in 1..Len(s) /\ n + k \in 1..Len(s) /\ i < n + k
  BY <1>1, <1>6, <1>7 DEF s
<1>9. commit_id[x] < commit_id[x] /\ commit_id[x] \in Nat
  BY <1>3, <1>4, <1>6, <1>7, <1>8
<1> QED
  BY <1>9

\* RemoveTransaction appends transactions with the newest stamp and frees a
\* prefix.
LEMMA RemoveKeepsOldOrder ==
  ASSUME OInv, NEW t \in Txn, RemoveTransaction(t)
  PROVE  OldTransactionsOrdered' /\ StampsBehind' /\ RecentNotOld'
<1> DEFINE others  == active_transactions \ {t}
           recent  == WithStored(t)
           aborted == IF store_transaction /\ commit_id[t] = 0 THEN <<t>> ELSE <<>>
           n       == Cleanable(recent, lowest_active_start)
           cleaned == SubSeq(recent, 1, n)
           first   == old_transactions \o aborted
           old     == first \o cleaned
           moved   == ToSet(aborted) \cup ToSet(cleaned)
           highest == HighestActiveQuery(moved)
           m       == Freeable(old, highest, others)
<1>1. /\ transaction_lock = t /\ current_query # 0 /\ current_query' = 0
      /\ recently_committed_transactions' = SubSeq(recent, n + 1, Len(recent))
      /\ old_transactions' = SubSeq(old, m + 1, Len(old))
      /\ highest_active_query' = highest
      /\ UNCHANGED current_query_number
  BY DEF RemoveTransaction, WithStored, queries
<1>2. /\ IInv /\ TypeOK /\ RecentNotOld /\ t \in active_transactions /\ others \in SUBSET Txn
      /\ lowest_active_start \in Nat /\ old_transactions \in Seq(Txn)
      /\ current_query \in Nat /\ current_query_number \in Nat
      /\ highest_active_query \in [Txn -> Nat]
  <2>1. IInv /\ TypeOK /\ RecentNotOld /\ t \in active_transactions
    BY <1>1 DEF OInv, IInv, ListsMatchPhase
  <2>2. /\ others \in SUBSET Txn /\ lowest_active_start \in Nat
        /\ old_transactions \in Seq(Txn) /\ highest_active_query \in [Txn -> Nat]
    BY <2>1 DEF TypeOK
  <2>3. current_query \in Nat /\ current_query_number \in Nat
    BY <2>1, ConstantsAssumption DEF TypeOK
  <2> QED
    BY <2>1, <2>2, <2>3
<1>3. recent \in Seq(Txn) /\ aborted \in Seq(Txn) /\ ToSet(aborted) = Aborted(t)
  BY <1>2, StoredMembers DEF ToSet, Aborted
<1>4. n \in 0..Len(recent)
  BY <1>2, <1>3, CleanablePrefix
<1> HIDE DEF recent, n
<1>5. /\ cleaned \in Seq(Txn)
      /\ ToSet(recent) = ToSet(cleaned) \cup ToSet(SubSeq(recent, n + 1, Len(recent)))
  BY <1>3, <1>4, CutList
<1>6. ToSet(cleaned) \cap ToSet(SubSeq(recent, n + 1, Len(recent))) = {}
  BY <1>1, <1>2, <1>4, CleanedOnce DEF recent
<1>7. moved \in SUBSET Txn /\ moved \cap Old = {} /\ ToSet(recent) \cap Old = {}
  <2>1. (ToSet(recent) \cup ToSet(aborted)) \cap Old = {}
    BY <1>2, <1>3, MovedOnce DEF recent
  <2>2. ToSet(aborted) \subseteq Txn /\ ToSet(cleaned) \subseteq Txn
    BY <1>3, <1>5, Members
  <2> QED
    BY <1>5, <2>1, <2>2
<1> HIDE DEF aborted, cleaned
<1>8. /\ first \in Seq(Txn) /\ ToSet(first) = Old \cup ToSet(aborted)
      /\ Len(first) = Len(old_transactions) + Len(aborted)
      /\ \A i \in 1..Len(old_transactions) : first[i] = old_transactions[i]
      /\ \A i \in 1..Len(aborted) : first[Len(old_transactions) + i] = aborted[i]
  BY <1>2, <1>3, JoinLists DEF Old
<1> HIDE DEF first
<1>9. /\ old \in Seq(Txn) /\ ToSet(old) = Old \cup moved
      /\ Len(old) = Len(first) + Len(cleaned)
      /\ \A i \in 1..Len(first) : old[i] = first[i]
      /\ \A i \in 1..Len(cleaned) : old[Len(first) + i] = cleaned[i]
  <2>1. old \in Seq(Txn) /\ ToSet(old) = ToSet(first) \cup ToSet(cleaned)
    BY <1>5, <1>8, JoinLists
  <2>2. /\ Len(old) = Len(first) + Len(cleaned)
        /\ \A i \in 1..Len(first) : old[i] = first[i]
        /\ \A i \in 1..Len(cleaned) : old[Len(first) + i] = cleaned[i]
    <3>1. first \in Seq(Txn) /\ cleaned \in Seq(Txn)
      BY <1>5, <1>8
    <3> QED
      BY <3>1, JoinPositions
  <2> QED
    BY <1>8, <2>1, <2>2
<1>10. /\ highest \in [Txn -> Nat]
       /\ \A v \in Txn : v \in moved => highest[v] = current_query
       /\ \A v \in Old : highest[v] = highest_active_query[v] /\ highest[v] <= current_query
  <2>1. highest = [u \in Txn |-> IF u \in moved THEN current_query
                                               ELSE highest_active_query[u]]
    BY DEF HighestActiveQuery
  <2> HIDE DEF moved, highest
  <2>2. Old \subseteq Txn
    BY <1>2, Members DEF Old
  <2>3. \A v \in Old : highest_active_query[v] <= current_query
    BY <1>1 DEF OInv, StampsBehind
  <2> QED
    BY <1>2, <1>7, <2>1, <2>2, <2>3
<1> HIDE DEF old, highest, moved
<1>11. m \in 0..Len(old)
  BY <1>2, <1>9, <1>10, FreeablePrefix
<1> HIDE DEF m
<1> DEFINE L == Len(old_transactions)
<1>12. ASSUME NEW i \in 1..Len(old)
       PROVE  /\ i <= L => old[i] = old_transactions[i] /\ old[i] \in Old
              /\ i > L => old[i] \in moved
  <2>0. /\ L \in Nat /\ Len(first) \in Nat /\ Len(aborted) \in Nat /\ Len(cleaned) \in Nat
        /\ i \in Nat /\ i >= 1 /\ i <= Len(first) + Len(cleaned)
        /\ Len(first) = L + Len(aborted)
    BY <1>2, <1>3, <1>5, <1>8, <1>9
  <2>1. CASE i <= L
    <3>1. i \in 1..L /\ i \in 1..Len(first)
      BY <2>0, <2>1
    <3>2. old[i] = old_transactions[i]
      BY <1>8, <1>9, <3>1
    <3>3. old_transactions[i] \in Old
      BY <1>2, <3>1, Members DEF Old
    <3> QED
      BY <2>0, <2>1, <3>2, <3>3
  <2>2. CASE i > L /\ i <= Len(first)
    <3> DEFINE k == i - L
    <3>1. k \in 1..Len(aborted) /\ i = L + k /\ i \in 1..Len(first)
      BY <2>0, <2>2
    <3> HIDE DEF k
    <3>2. old[i] = aborted[k]
      BY <1>8, <1>9, <3>1
    <3>3. aborted[k] \in ToSet(aborted)
      BY <1>3, <3>1, Members
    <3> QED
      BY <2>0, <2>2, <3>2, <3>3 DEF moved
  <2>3. CASE i > Len(first)
    <3> DEFINE k == i - Len(first)
    <3>1. k \in 1..Len(cleaned) /\ i = Len(first) + k /\ i > L
      BY <2>0, <2>3
    <3> HIDE DEF k
    <3>2. old[i] = cleaned[k]
      BY <1>9, <3>1
    <3>3. cleaned[k] \in ToSet(cleaned)
      BY <1>5, <3>1, Members
    <3> QED
      BY <2>0, <3>1, <3>2, <3>3 DEF moved
  <2> QED
    BY <2>0, <2>1, <2>2, <2>3
<1>13. ASSUME NEW i \in 1..Len(old), NEW k \in 1..Len(old), i < k
       PROVE  highest[old[i]] <= highest[old[k]]
  <2>0. L \in Nat /\ Len(old) \in Nat
    BY <1>2, <1>9
  <2>1. CASE k <= L
    <3>1. /\ i \in 1..L /\ k \in 1..L
          /\ old[i] = old_transactions[i] /\ old[k] = old_transactions[k]
          /\ old[i] \in Old /\ old[k] \in Old
      BY <1>12, <1>13, <2>0, <2>1
    <3>2. highest_active_query[old[i]] <= highest_active_query[old[k]]
      BY <1>13, <3>1 DEF OInv, OldTransactionsOrdered
    <3> QED
      BY <1>10, <3>1, <3>2
  <2>2. CASE k > L
    <3>1. highest[old[k]] = current_query
      BY <1>7, <1>10, <1>12, <2>2
    <3>2. old[i] \in Old \cup moved
      BY <1>12, <2>0
    <3>3. highest[old[i]] <= current_query
      BY <1>2, <1>7, <1>10, <3>2
    <3> QED
      BY <3>1, <3>3
  <2> QED
    BY <2>0, <2>1, <2>2
<1> DEFINE kept == SubSeq(old, m + 1, Len(old))
<1>14. /\ kept \in Seq(Txn) /\ Len(kept) = Len(old) - m
       /\ \A i \in 1..Len(old) - m : kept[i] = old[m + i]
       /\ ToSet(kept) \subseteq ToSet(old)
  BY <1>9, <1>11, CutList
<1>15. old_transactions' = kept /\ Old' = ToSet(kept)
  BY <1>1 DEF Old
<1> HIDE DEF kept
<1>16. OldTransactionsOrdered'
  <2>1. ASSUME NEW i \in 1..Len(kept), NEW k \in 1..Len(kept), i < k
        PROVE  highest[kept[i]] <= highest[kept[k]]
    <3>1. /\ m + i \in 1..Len(old) /\ m + k \in 1..Len(old) /\ m + i < m + k
          /\ kept[i] = old[m + i] /\ kept[k] = old[m + k]
      BY <1>9, <1>11, <1>14, <2>1
    <3> QED
      BY <1>13, <3>1
  <2> QED
    BY <1>1, <1>15, <2>1 DEF OldTransactionsOrdered
<1>17. StampsBehind'
  <2>1. \A u \in Old' : highest[u] <= current_query
    BY <1>2, <1>7, <1>9, <1>10, <1>14, <1>15
  <2>2. \A u \in Old' : highest[u] \in Nat
    BY <1>10, <1>14, <1>15, Members
  <2>3. current_query <= current_query_number
    BY <1>1 DEF OInv, StampsBehind
  <2>4. \A u \in Old' : highest[u] <= current_query_number
    BY <1>2, <2>1, <2>2, <2>3
  <2> QED
    BY <1>1, <2>4 DEF StampsBehind
<1>18. RecentNotOld'
  <2>1. Recent' = ToSet(SubSeq(recent, n + 1, Len(recent))) /\ Old' \subseteq Old \cup moved
    BY <1>1, <1>9, <1>14, <1>15 DEF Recent
  <2>2. ToSet(aborted) \cap ToSet(recent) = {}
    <3>1. t \notin Recent
      BY <1>2 DEF IInv, ListsMatchPhase
    <3> QED
      BY <1>2, <1>3, <3>1, StoredMembers DEF Aborted, recent
  <2> QED
    BY <1>5, <1>6, <1>7, <2>1, <2>2 DEF RecentNotOld, moved
<1> QED
  BY <1>16, <1>17, <1>18

\* Every step preserves the strengthened invariant.
LEMMA NextPreservesOInv == OInv /\ [Next]_vars => OInv'
<1> SUFFICES ASSUME OInv, [Next]_vars PROVE OInv'
  OBVIOUS
<1>0. IInv' /\ TypeOK /\ TypeOK'
  BY NextPreservesIInv DEF OInv, IInv
<1>1. CASE \E t \in Txn : RemoveTransaction(t)
  BY <1>0, <1>1, RemoveKeepsOldOrder DEF OInv
<1>2. CASE ~ \E t \in Txn : RemoveTransaction(t)
  <2>1. UNCHANGED <<recently_committed_transactions, old_transactions, highest_active_query>>
    BY <1>2 DEF Next, vars, BeginQuery, ReadVersion, EndQuery, StartTransaction,
       GetTransaction, SetReadWrite, MakeChange, CommitTimestamp, CommitSucceeds, CommitFails,
       RollbackTransaction, ScanActive, ReadQueryNumber, lists
  <2>2. UNCHANGED <<Recent, Old>>
    BY <2>1 DEF Recent, Old
  <2>3. /\ current_query_number' \in {current_query_number, current_query_number + 1}
        /\ \/ current_query' = current_query
           \/ current_query' = current_query_number /\ UNCHANGED current_query_number
    BY <1>2 DEF Next, vars, BeginQuery, ReadVersion, EndQuery, StartTransaction,
       GetTransaction, SetReadWrite, MakeChange, CommitTimestamp, CommitSucceeds, CommitFails,
       RollbackTransaction, ScanActive, ReadQueryNumber, queries, removal
  <2>4. StampsBehind'
    <3>1. /\ current_query_number \in Nat /\ current_query \in Nat
          /\ \A u \in Old : highest_active_query[u] \in Nat
      <4>1. old_transactions \in Seq(Txn) /\ highest_active_query \in [Txn -> Nat]
        BY <1>0 DEF TypeOK
      <4>2. Old \subseteq Txn
        BY <4>1, Members DEF Old
      <4>3. current_query_number \in Nat /\ current_query \in Nat
        BY <1>0, ConstantsAssumption DEF TypeOK
      <4> QED
        BY <4>1, <4>2, <4>3
    <3> QED
      BY <2>1, <2>2, <2>3, <3>1 DEF OInv, StampsBehind
  <2>5. OldTransactionsOrdered' /\ RecentNotOld'
    BY <2>1, <2>2 DEF OInv, OldTransactionsOrdered, RecentNotOld
  <2> QED
    BY <1>0, <2>4, <2>5 DEF OInv
<1> QED
  BY <1>1, <1>2

\* The order on highest_active_query that the loop freeing undo buffers assumes
\* holds in every execution.
THEOREM OldTransactionsAreOrdered == Spec => []OldTransactionsOrdered
<1>1. Init => OInv
  <2>1. Init => Recent = {} /\ Old = {}
    BY DEF Init, Recent, Old, ToSet
  <2> QED
    BY <2>1, InitEstablishesIInv DEF Init, OInv, OldTransactionsOrdered, StampsBehind,
       RecentNotOld
<1>2. OInv => OldTransactionsOrdered
  BY DEF OInv
<1> QED
  BY <1>1, <1>2, NextPreservesOInv, PTL DEF Spec
-----------------------------------------------------------------------------
(* What is left when nobody is active.                                     *)

\* The clock has not reached the transaction ids, which takes 2^62 starts and
\* commits.  Starts are refused from then on, and commits are not.
TimestampsBelowIds == current_start_timestamp <= TRANSACTION_ID_START

\* A scan that finds nobody else leaves the initial value of its minimum.
LastScan ==
  RemovalUnderWay /\ active_transactions \ {transaction_lock} = {}
      => lowest_active_start = TRANSACTION_ID_START

\* The shared checkpoint lock is owned by objects that some list refers to.
WritersListed == write_lock \subseteq active_transactions \cup Recent \cup Old

NInv == IInv /\ LastScan /\ WritersListed /\ NothingAwaitsWhenIdle

\* The scan over the other active transactions keeps the lists.
LEMMA ScanKeepsNInv ==
  ASSUME NInv, NEW t \in Txn, NEW store, ScanActive(t, store), t \in active_transactions,
         transaction_lock' = t
  PROVE  LastScan' /\ WritersListed' /\ NothingAwaitsWhenIdle'
<1>1. /\ lowest_active_start' = LowestStart(active_transactions \ {t})
      /\ UNCHANGED <<active_transactions, recently_committed_transactions, old_transactions,
                     write_lock>>
  BY DEF ScanActive, lists
<1>2. active_transactions \ {t} = {} => lowest_active_start' = TRANSACTION_ID_START
  <2> SUFFICES ASSUME active_transactions \ {t} = {}
               PROVE  lowest_active_start' = TRANSACTION_ID_START
    OBVIOUS
  <2>1. lowest_active_start' = Min({TRANSACTION_ID_START})
    <3>1. {TRANSACTION_ID_START} \cup {start_time[u] : u \in active_transactions \ {t}}
            = {TRANSACTION_ID_START}
      OBVIOUS
    <3> QED
      BY <1>1, <3>1 DEF LowestStart
  <2>2. {TRANSACTION_ID_START} \in SUBSET Nat /\ {TRANSACTION_ID_START} # {}
    BY ConstantsAssumption
  <2> QED
    BY <2>1, <2>2, MinIsLeast
<1> QED
  BY <1>1, <1>2 DEF NInv, LastScan, WritersListed, NothingAwaitsWhenIdle, Recent, Old

\* The last transaction to end takes everything with it.
LEMMA LastRemovalClears ==
  ASSUME NInv, TimestampsBelowIds, NEW t \in Txn, RemoveTransaction(t),
         active_transactions \ {t} = {}
  PROVE  /\ recently_committed_transactions' = <<>>
         /\ old_transactions' = <<>>
<1> DEFINE others  == active_transactions \ {t}
           recent  == WithStored(t)
           aborted == IF store_transaction /\ commit_id[t] = 0 THEN <<t>> ELSE <<>>
           n       == Cleanable(recent, lowest_active_start)
           cleaned == SubSeq(recent, 1, n)
           old     == old_transactions \o aborted \o cleaned
           highest == HighestActiveQuery(ToSet(aborted) \cup ToSet(cleaned))
<1>1. /\ recently_committed_transactions' = SubSeq(recent, n + 1, Len(recent))
      /\ old_transactions' = SubSeq(old, Freeable(old, highest, others) + 1, Len(old))
      /\ transaction_lock = t /\ current_query # 0
  BY DEF RemoveTransaction, WithStored
<1>2. TypeOK /\ recent \in Seq(Txn) /\ aborted \in Seq(Txn) /\ old_transactions \in Seq(Txn)
  <2>1. TypeOK
    BY DEF NInv, IInv
  <2>2. recently_committed_transactions \in Seq(Txn) /\ old_transactions \in Seq(Txn)
    BY <2>1 DEF TypeOK
  <2> QED
    BY <2>1, <2>2 DEF WithStored
<1>3. lowest_active_start = TRANSACTION_ID_START
  BY <1>1 DEF NInv, IInv, QueryNumberRead, LastScan
<1>4. \A i \in 1..Len(recent) : commit_id[recent[i]] < lowest_active_start
  <2> SUFFICES ASSUME NEW i \in 1..Len(recent)
               PROVE  commit_id[recent[i]] < lowest_active_start
    OBVIOUS
  <2>1. recent[i] \in Txn
    BY <1>2
  <2>2. /\ commit_id[recent[i]] \in Nat /\ current_start_timestamp \in Nat
        /\ commit_id[recent[i]] < current_start_timestamp
    BY <2>1 DEF NInv, IInv, TypeOK, ClockAhead
  <2> QED
    BY <1>3, <2>2, ConstantsAssumption DEF TimestampsBelowIds
<1> HIDE DEF recent
<1>5. n = Len(recent)
  <2>1. {i \in 1..Len(recent) : ~ (commit_id[recent[i]] < lowest_active_start)} = {}
    BY <1>4
  <2> QED
    BY <2>1 DEF Cleanable, PrefixBefore
<1>6. recently_committed_transactions' = <<>>
  BY <1>1, <1>2, <1>5
<1>7. cleaned \in Seq(Txn)
  BY <1>2, <1>5
<1> HIDE DEF n, aborted, cleaned
<1>8. old \in Seq(Txn)
  BY <1>2, <1>7
<1>9. Freeable(old, highest, others) = Len(old)
  BY DEF Freeable
<1> HIDE DEF old
<1>10. old_transactions' = <<>>
  BY <1>1, <1>8, <1>9
<1> QED
  BY <1>6, <1>10

\* Every step preserves it while the clock is below the transaction ids.
LEMMA NextPreservesNInv == NInv /\ TimestampsBelowIds /\ [Next]_vars => NInv'
<1> SUFFICES ASSUME NInv, TimestampsBelowIds, [Next]_vars PROVE NInv'
  OBVIOUS
<1>0. IInv' /\ TypeOK
  BY NextPreservesIInv DEF NInv, IInv
<1> SUFFICES LastScan' /\ WritersListed' /\ NothingAwaitsWhenIdle'
  BY <1>0 DEF NInv
<1>1. CASE UNCHANGED vars
  BY <1>1 DEF vars, lists, lowest, removal, NInv, LastScan, WritersListed, NothingAwaitsWhenIdle,
              Recent, Old, RemovalUnderWay
<1>2. ASSUME NEW t \in Txn,
             \/ BeginQuery(t) \/ (\E u \in Txn : ReadVersion(t, u)) \/ EndQuery(t)
             \/ GetTransaction(t) \/ (\E k \in Kind : MakeChange(t, k)) \/ ReadQueryNumber(t)
      PROVE  LastScan' /\ WritersListed' /\ NothingAwaitsWhenIdle'
  <2>1. UNCHANGED <<lists, lowest, lowest_active_query, write_lock, transaction_lock>>
    BY <1>2 DEF BeginQuery, ReadVersion, EndQuery, GetTransaction, MakeChange, ReadQueryNumber,
                removal
  <2> QED
    BY <2>1 DEF lists, lowest, NInv, LastScan, WritersListed, NothingAwaitsWhenIdle, Recent, Old,
                RemovalUnderWay
<1>3. ASSUME NEW t \in Txn, SetReadWrite(t)
      PROVE  LastScan' /\ WritersListed' /\ NothingAwaitsWhenIdle'
  <2>1. /\ UNCHANGED <<lists, lowest, lowest_active_query, transaction_lock>>
        /\ write_lock' = write_lock \cup {t}
        /\ t \in active_transactions
    BY <1>3 DEF SetReadWrite, removal, NInv, IInv, ListsMatchPhase
  <2> QED
    BY <2>1 DEF lists, lowest, NInv, LastScan, WritersListed, NothingAwaitsWhenIdle, Recent, Old,
                RemovalUnderWay
<1>4. ASSUME NEW t \in Txn, StartTransaction(t) \/ CommitTimestamp(t)
      PROVE  LastScan' /\ WritersListed' /\ NothingAwaitsWhenIdle'
  <2>1. /\ UNCHANGED <<recently_committed_transactions, old_transactions, write_lock,
                       lowest_active_query>>
        /\ active_transactions' \in {active_transactions, active_transactions \cup {t}}
        /\ transaction_lock = NoTxn
    BY <1>4 DEF StartTransaction, CommitTimestamp, removal, lists
  <2>2. active_transactions' # {}
    <3>1. CASE StartTransaction(t)
      BY <3>1 DEF StartTransaction
    <3>2. CASE CommitTimestamp(t)
      BY <2>1, <3>2 DEF CommitTimestamp, NInv, IInv, ListsMatchPhase
    <3> QED
      BY <1>4, <3>1, <3>2
  <2>3. ~ RemovalUnderWay'
    BY <2>1 DEF NInv, IInv, ListsMatchPhase, RemovalUnderWay
  <2> QED
    BY <2>1, <2>2, <2>3 DEF NInv, LastScan, WritersListed, NothingAwaitsWhenIdle, Recent, Old
<1>5. ASSUME NEW t \in Txn, CommitSucceeds(t) \/ CommitFails(t) \/ RollbackTransaction(t)
      PROVE  LastScan' /\ WritersListed' /\ NothingAwaitsWhenIdle'
  <2>1. /\ \E store : ScanActive(t, store)
        /\ t \in active_transactions
        /\ transaction_lock' = t
    BY <1>5 DEF CommitSucceeds, CommitFails, RollbackTransaction, NInv, IInv, ListsMatchPhase
  <2> QED
    BY <2>1, ScanKeepsNInv
<1>6. ASSUME NEW t \in Txn, RemoveTransaction(t)
      PROVE  LastScan' /\ WritersListed' /\ NothingAwaitsWhenIdle'
  <2>1. /\ active_transactions' = active_transactions \ {t}
        /\ write_lock' \subseteq active_transactions' \cup Recent' \cup Old'
        /\ ~ RemovalUnderWay'
    BY <1>6 DEF RemoveTransaction, RemovalUnderWay
  <2>2. CASE active_transactions \ {t} = {}
    <3>1. recently_committed_transactions' = <<>> /\ old_transactions' = <<>>
      BY <1>6, <2>2, LastRemovalClears
    <3>2. Recent' = {} /\ Old' = {}
      BY <3>1 DEF Recent, Old, ToSet
    <3> QED
      BY <2>1, <2>2, <3>1, <3>2 DEF LastScan, WritersListed, NothingAwaitsWhenIdle
  <2>3. CASE active_transactions \ {t} # {}
    BY <2>1, <2>3 DEF LastScan, WritersListed, NothingAwaitsWhenIdle
  <2> QED
    BY <2>2, <2>3
<1> QED
  BY <1>1, <1>2, <1>3, <1>4, <1>5, <1>6 DEF Next

\* Whatever order transactions end in, the last one leaves no undo buffer behind
\* and no owner of the checkpoint lock, as long as the clock is below the
\* transaction ids.
THEOREM NothingAwaitsAtTheEnd == Spec /\ []TimestampsBelowIds => []NothingAwaitsWhenIdle
<1>1. Init => NInv
  <2>1. Init => Recent = {} /\ Old = {}
    BY DEF Init, Recent, Old, ToSet
  <2> QED
    BY <2>1, InitEstablishesIInv DEF Init, NInv, LastScan, WritersListed, NothingAwaitsWhenIdle,
       RemovalUnderWay
<1>2. NInv => NothingAwaitsWhenIdle
  BY DEF NInv
<1> QED
  BY <1>1, <1>2, NextPreservesNInv, PTL DEF Spec
-----------------------------------------------------------------------------
(* The checkpoint decision.                                                *)

Ended == {"committed", "aborted"}

\* The committed transactions whose deletes a full checkpoint vacuums.
Deleters == {t \in Txn : phase[t] = "committed" /\ "delete" \in changes[t]}

\* Commit ids are no later than last_commit and differ from all start times.
CommitIdsApart ==
  \A t \in Txn : commit_id[t] # 0 =>
      /\ commit_id[t] <= last_commit
      /\ \A u \in Txn : start_time[u] # commit_id[t]

\* Whoever has uncommitted changes owns the shared checkpoint lock.
WritersLocked ==
  \A t \in Txn : changes[t] # {} =>
      /\ phase[t] # "none"
      /\ phase[t] \in Ended \/ t \in write_lock

\* The checkpoint lock is exclusive, up to the upgrade.
LockExclusive == checkpoint_owner # NoTxn => write_lock \subseteq {checkpoint_owner}

\* Who checkpoints, or has decided to, owns the lock exclusively.
OwnerKnown ==
  /\ checkpoint \in {"loading", "full", "concurrent"} => checkpoint_owner = Checkpointer
  /\ \A t \in Txn : decision[t] \in {"full", "concurrent"} => checkpoint_owner = t
  /\ checkpoint # "loading" => DOMAIN loaded = {}

\* What the checkpointer has read bounds the deletes from above and the live
\* transactions from below, except the ones that started after the deletes.
LoadsBound ==
  checkpoint = "loading" =>
      /\ "last" \in DOMAIN loaded =>
           /\ loaded["last"] \in Nat
           /\ \A d \in Deleters : commit_id[d] <= loaded["last"]
      /\ "low" \in DOMAIN loaded =>
           /\ loaded["low"] \in Nat
           /\ \A u \in Live, d \in Deleters :
                  loaded["low"] <= start_time[u] \/ commit_id[d] < start_time[u]

KInv ==
  /\ LInv /\ CTypeOK /\ CommitIdsApart /\ WritersLocked
  /\ LockExclusive /\ OwnerKnown /\ LoadsBound /\ FullCheckpointSafe

\* The facts about the manager that the proofs below use.
LEMMA ManagerFacts ==
  ASSUME LInv
  PROVE  /\ TypeOK /\ ListsMatchPhase /\ ClockAhead
         /\ \A u \in Live : lowest_active_start <= start_time[u]
         /\ Live \subseteq Txn
  BY DEF LInv, IInv, LowestActiveStartExact, Live, TypeOK

\* The initial state.
LEMMA InitEstablishesKInv == CInit => KInv
<1> SUFFICES ASSUME CInit PROVE KInv
  OBVIOUS
<1>1. LInv
  BY InitEstablishesIInv DEF CInit, Init, LInv, StartsBelowIds, LowestActiveStartExact, Live
<1>2. CTypeOK /\ OwnerKnown
  BY DEF CInit, CTypeOK, OwnerKnown, Unread
<1>3. CommitIdsApart /\ WritersLocked /\ LockExclusive
  BY DEF CInit, Init, CommitIdsApart, WritersLocked, LockExclusive
<1>4. LoadsBound /\ FullCheckpointSafe
  BY DEF CInit, LoadsBound, FullCheckpointSafe
<1> QED
  BY <1>1, <1>2, <1>3, <1>4 DEF KInv
-----------------------------------------------------------------------------
(* Steps of the manager.                                                   *)

\* A step of the manager that takes no shared lock, starts no transaction,
\* makes no change and hands out no commit id: it ends or removes some
\* transactions, or does nothing that matters here.
Quiet ==
  /\ UNCHANGED <<start_time, last_commit, changes>>
  /\ write_lock' \subseteq write_lock
  /\ Live' \subseteq Live
  /\ \A t \in Txn :
        /\ commit_id'[t] \in {commit_id[t], 0}
        /\ phase'[t] = "committed" => commit_id'[t] = commit_id[t]
        /\ phase'[t] = "committed" /\ phase[t] # "committed" => t \in Live
        /\ phase[t] \in Ended => phase'[t] \in Ended
        /\ phase[t] # "none" => phase'[t] # "none"
        /\ t \in write_lock /\ phase'[t] \notin Ended \cup {"none"} => t \in write_lock'

\* Queries and the reading of the query number.
LEMMA QueriesQuiet ==
  ASSUME LInv, NEW t \in Txn,
         BeginQuery(t) \/ EndQuery(t) \/ ReadQueryNumber(t) \/ GetTransaction(t)
  PROVE  Quiet
<1>1. /\ UNCHANGED <<start_time, last_commit, changes, write_lock, commit_id,
                     active_transactions>>
      /\ \/ UNCHANGED phase
         \/ phase[t] = "starting" /\ phase' = [phase EXCEPT ![t] = "running"]
  BY DEF BeginQuery, EndQuery, ReadQueryNumber, GetTransaction, counters, fields, lists
<1>2. TypeOK
  BY ManagerFacts
<1>3. \A u \in Txn : \/ phase'[u] = phase[u]
                     \/ phase[u] = "starting" /\ phase'[u] = "running"
  BY <1>1, <1>2 DEF TypeOK
<1>4. active_transactions \subseteq Txn
  BY <1>2 DEF TypeOK
<1>5. Live' \subseteq Live
  BY <1>1, <1>3, <1>4 DEF Live
<1> QED
  BY <1>1, <1>3, <1>5 DEF Quiet, Ended

\* The three ways to end.
LEMMA EndsQuiet ==
  ASSUME LInv, NEW t \in Txn, CommitSucceeds(t) \/ CommitFails(t) \/ RollbackTransaction(t)
  PROVE  Quiet
<1>1. TypeOK /\ t \in active_transactions
  BY ManagerFacts DEF ListsMatchPhase, CommitSucceeds, CommitFails, RollbackTransaction
<1>2. /\ UNCHANGED <<start_time, last_commit, changes, write_lock, active_transactions>>
      /\ phase[t] \in {"committing", "running"}
      /\ \/ phase' = [phase EXCEPT ![t] = "committed"] /\ UNCHANGED commit_id
         \/ /\ phase' = [phase EXCEPT ![t] = "aborted"]
            /\ commit_id' = commit_id \/ commit_id' = [commit_id EXCEPT ![t] = 0]
  BY DEF CommitSucceeds, CommitFails, RollbackTransaction, ScanActive, counters, fields, lists
<1>3. /\ phase'[t] \in Ended
      /\ phase'[t] = "committed" => UNCHANGED commit_id
      /\ \A u \in Txn : commit_id'[u] \in {commit_id[u], 0}
      /\ \A u \in Txn \ {t} : phase'[u] = phase[u] /\ commit_id'[u] = commit_id[u]
  BY <1>1, <1>2 DEF TypeOK, Ended
<1>4. t \in Live /\ Live' \subseteq Live
  BY <1>1, <1>2, <1>3 DEF Live, TypeOK, Ended
<1> QED
  BY <1>2, <1>3, <1>4 DEF Quiet, Ended

\* RemoveTransaction releases only locks of transactions that have ended.
LEMMA RemoveQuiet ==
  ASSUME LInv, NEW t \in Txn, RemoveTransaction(t)
  PROVE  Quiet
<1>1. /\ UNCHANGED <<start_time, last_commit, changes, phase, commit_id>>
      /\ write_lock' = write_lock \cap (active_transactions' \cup Recent' \cup Old')
      /\ active_transactions' = active_transactions \ {t}
      /\ transaction_lock = t /\ current_query # 0
  BY DEF RemoveTransaction, counters, fields
<1>2. phase[t] \in Ended
  BY <1>1 DEF LInv, IInv, ListsMatchPhase, QueryNumberRead, Ended
<1>3. \A u \in Txn : phase[u] \notin Ended \cup {"none"} => u \in active_transactions'
  BY <1>1, <1>2, ManagerFacts DEF TypeOK, Phase, ListsMatchPhase, Ended
<1>4. Live' \subseteq Live
  BY <1>1 DEF Live
<1> QED
  BY <1>1, <1>3, <1>4 DEF Quiet, Ended
-----------------------------------------------------------------------------
(* What steps leave as it is.                                              *)

\* While nothing is deleted and new transactions come after the deletes, what
\* the checkpointer has read stays a bound and its decision stays right.
DeletesSettled ==
  /\ Deleters' \subseteq Deleters
  /\ \A d \in Deleters' : commit_id'[d] = commit_id[d]
  /\ \A u \in Live' : \/ u \in Live /\ start_time'[u] = start_time[u]
                      \/ \A d \in Deleters' : commit_id'[d] < start_time'[u]

\* So do LoadsBound and FullCheckpointSafe.
LEMMA BoundsKept ==
  ASSUME KInv, UNCHANGED <<checkpoint, loaded>>,
         checkpoint \in {"loading", "full"} => DeletesSettled
  PROVE  LoadsBound' /\ FullCheckpointSafe'
<1>1. CASE checkpoint = "loading"
  <2>1. LoadsBound'
    <3>1. "last" \in DOMAIN loaded => /\ loaded["last"] \in Nat
                                      /\ \A d \in Deleters' : commit_id'[d] <= loaded["last"]
      BY <1>1 DEF KInv, LoadsBound, DeletesSettled
    <3>2. "low" \in DOMAIN loaded =>
            /\ loaded["low"] \in Nat
            /\ \A u \in Live', d \in Deleters' :
                  loaded["low"] <= start_time'[u] \/ commit_id'[d] < start_time'[u]
      BY <1>1 DEF KInv, LoadsBound, DeletesSettled
    <3> QED
      BY <3>1, <3>2 DEF LoadsBound
  <2> QED
    BY <1>1, <2>1 DEF FullCheckpointSafe
<1>2. CASE checkpoint = "full"
  <2>1. \A u \in Live, d \in Deleters : commit_id[d] < start_time[u]
    BY <1>2 DEF KInv, FullCheckpointSafe, NoOldReader, Deleters
  <2>2. \A u \in Live', d \in Deleters' : commit_id'[d] < start_time'[u]
    BY <1>2, <2>1 DEF DeletesSettled
  <2>3. NoOldReader'
    BY <2>2 DEF NoOldReader, Deleters
  <2> QED
    BY <1>2, <2>3 DEF LoadsBound, FullCheckpointSafe
<1>3. CASE checkpoint \notin {"loading", "full"}
  BY <1>3 DEF LoadsBound, FullCheckpointSafe
<1> QED
  BY <1>1, <1>2, <1>3

\* While the checkpointer owns the lock nobody has uncommitted changes.
LEMMA NoWriters ==
  ASSUME KInv, checkpoint \in {"loading", "full", "concurrent"}
  PROVE  /\ write_lock = {}
         /\ \A t \in Txn : phase[t] \notin Ended => changes[t] = {}
<1>1. checkpoint_owner = Checkpointer /\ Checkpointer \notin Txn /\ Checkpointer # NoTxn
  BY CheckpointerAssumption DEF KInv, OwnerKnown
<1>2. write_lock \subseteq Txn /\ write_lock \subseteq {Checkpointer}
  BY <1>1, ManagerFacts DEF KInv, TypeOK, LockExclusive
<1> QED
  BY <1>1, <1>2 DEF KInv, WritersLocked

\* Quiet steps keep all that concerns transactions.
LEMMA QuietKeeps ==
  ASSUME KInv, Quiet, UNCHANGED <<checkpoint, loaded>>
  PROVE  /\ CommitIdsApart' /\ WritersLocked'
         /\ LoadsBound' /\ FullCheckpointSafe'
<1>1. CommitIdsApart'
  BY DEF KInv, Quiet, CommitIdsApart
<1>2. WritersLocked'
  BY DEF KInv, Quiet, WritersLocked
<1>3. ASSUME checkpoint \in {"loading", "full"} PROVE DeletesSettled
  <2>1. \A t \in Txn : phase[t] \notin Ended => changes[t] = {}
    BY <1>3, NoWriters
  <2>2. Live \subseteq Txn /\ \A u \in Live : phase[u] \notin Ended
    BY ManagerFacts DEF KInv, Live, Ended
  <2>3. ASSUME NEW d \in Deleters' PROVE d \in Deleters /\ commit_id'[d] = commit_id[d]
    <3>1. d \in Txn /\ phase'[d] = "committed" /\ "delete" \in changes[d]
      BY <2>3 DEF Deleters, Quiet
    <3>2. phase[d] = "committed"
      BY <2>1, <2>2, <3>1 DEF Quiet
    <3> QED
      BY <3>1, <3>2 DEF Quiet, Deleters
  <2> QED
    BY <2>3 DEF DeletesSettled, Quiet
<1> QED
  BY <1>1, <1>2, <1>3, BoundsKept

\* A transaction that starts is later than all commits.
LEMMA StartKeeps ==
  ASSUME KInv, NEW t \in Txn, StartTransaction(t), UNCHANGED cvars
  PROVE  /\ CommitIdsApart' /\ WritersLocked' /\ UNCHANGED write_lock
         /\ LoadsBound' /\ FullCheckpointSafe'
<1>1. TypeOK /\ ClockAhead /\ active_transactions \subseteq Txn
  BY ManagerFacts DEF KInv, TypeOK
<1>2. /\ UNCHANGED <<last_commit, commit_id, changes, write_lock, checkpoint, loaded>>
      /\ phase[t] = "none" /\ phase'[t] = "starting"
      /\ start_time'[t] = current_start_timestamp
      /\ \A u \in Txn \ {t} : start_time'[u] = start_time[u] /\ phase'[u] = phase[u]
      /\ active_transactions' = active_transactions \cup {t}
      /\ current_start_timestamp \in Nat
  BY <1>1 DEF StartTransaction, TypeOK, cvars
<1>3. CommitIdsApart'
  <2>1. \A u \in Txn : commit_id[u] \in Nat /\ commit_id[u] < current_start_timestamp
    BY <1>1 DEF ClockAhead, TypeOK
  <2> QED
    BY <1>2, <2>1 DEF KInv, CommitIdsApart
<1>4. WritersLocked'
  BY <1>2 DEF KInv, WritersLocked, Ended
<1>5. DeletesSettled
  <2>1. Deleters' \subseteq Deleters
    BY <1>2 DEF Deleters
  <2>2. Live' \subseteq Live \cup {t}
    BY <1>1, <1>2 DEF Live
  <2>3. \A d \in Deleters' : d \in Txn
    BY DEF Deleters
  <2>4. \A d \in Deleters' : commit_id'[d] < start_time'[t]
    BY <1>1, <1>2, <2>3 DEF ClockAhead
  <2>5. \A u \in Live' : u \in Txn
    BY <1>1, <2>2 DEF Live
  <2> QED
    BY <1>2, <2>1, <2>2, <2>4, <2>5 DEF DeletesSettled
<1> QED
  BY <1>2, <1>3, <1>4, <1>5, BoundsKept

\* Taking the shared lock, making a change and taking a commit id concern
\* running transactions only, which are no deleters yet.
LEMMA RunningKeeps ==
  ASSUME KInv, NEW t \in Txn, UNCHANGED cvars,
         SetReadWrite(t) \/ (\E k \in Kind : MakeChange(t, k)) \/ CommitTimestamp(t)
  PROVE  /\ CommitIdsApart' /\ WritersLocked' /\ LoadsBound' /\ FullCheckpointSafe'
<1>1. TypeOK /\ ClockAhead /\ active_transactions \subseteq Txn
  BY ManagerFacts DEF KInv, TypeOK
<1>2. /\ UNCHANGED <<start_time, active_transactions, checkpoint, loaded>>
      /\ phase[t] = "running" /\ phase'[t] \in {"running", "committing"}
      /\ \A u \in Txn \ {t} : phase'[u] = phase[u] /\ changes'[u] = changes[u]
      /\ \A u \in Txn \ {t} : commit_id'[u] = commit_id[u]
      /\ write_lock \subseteq write_lock'
      /\ changes'[t] # changes[t] => t \in write_lock
  BY <1>1 DEF SetReadWrite, MakeChange, CommitTimestamp, cvars, TypeOK, counters, fields, lists
<1>3. CommitIdsApart'
  <2>1. CASE CommitTimestamp(t)
    <3>1. /\ commit_id'[t] = current_start_timestamp /\ last_commit' = current_start_timestamp
          /\ current_start_timestamp \in Nat
          /\ \A u \in Txn : commit_id[u] \in Nat /\ start_time[u] \in Nat
      BY <1>1, <2>1 DEF CommitTimestamp, TypeOK
    <3>2. \A u \in Txn : /\ commit_id[u] < current_start_timestamp
                         /\ start_time[u] < current_start_timestamp
      BY <1>1 DEF ClockAhead
    <3>3. ASSUME NEW u \in Txn, commit_id'[u] # 0
          PROVE  commit_id'[u] <= last_commit' /\ \A v \in Txn : start_time'[v] # commit_id'[u]
      <4>1. CASE u = t
        BY <1>2, <3>1, <3>2, <4>1
      <4>2. CASE u # t
        BY <1>2, <3>1, <3>2, <3>3, <4>2 DEF KInv, CommitIdsApart
      <4> QED
        BY <4>1, <4>2
    <3> QED
      BY <3>3 DEF CommitIdsApart
  <2>2. CASE ~ CommitTimestamp(t)
    <3>1. UNCHANGED <<commit_id, last_commit, start_time>>
      BY <2>2 DEF SetReadWrite, MakeChange, counters, fields
    <3> QED
      BY <3>1 DEF KInv, CommitIdsApart
  <2> QED
    BY <2>1, <2>2
<1>4. WritersLocked'
  BY <1>2 DEF KInv, WritersLocked, Ended
<1>5. DeletesSettled
  <2>1. \A d \in Deleters' : d \in Txn /\ d # t
    BY <1>2 DEF Deleters
  <2>2. Deleters' \subseteq Deleters
    BY <1>2, <2>1 DEF Deleters
  <2>3. Live' \subseteq Live
    BY <1>1, <1>2 DEF Live
  <2> QED
    BY <1>2, <2>1, <2>2, <2>3 DEF DeletesSettled
<1> QED
  BY <1>2, <1>3, <1>4, <1>5, BoundsKept
-----------------------------------------------------------------------------
(* The steps of the composition.                                           *)

\* Every step is one of the manager, or leaves the manager alone.
LEMMA StepsOfManager == [CNext]_allvars => [Next]_vars
<1> SUFFICES ASSUME [CNext]_allvars PROVE [Next]_vars
  OBVIOUS
<1>1. CASE UNCHANGED allvars
  BY <1>1 DEF allvars
<1>2. CASE CheckpointerNext
  BY <1>2 DEF CheckpointerNext, TryCheckpoint, ForceCheckpoint, ForceLocks, ForceInterrupted,
     LoadOperand, ChooseType, CheckpointEnds
<1>3. ASSUME NEW t \in Txn, TxnNext(t) PROVE [Next]_vars
  BY <1>3 DEF TxnNext, CStartTransaction, CSetReadWrite, CanCheckpoint, CannotCheckpoint,
     CCommitSucceeds, CCommitFails, AutomaticCheckpointEnds, Next
<1> QED
  BY <1>1, <1>2, <1>3 DEF CNext

\* Steps of the manager that keep the state of checkpoints.
LEMMA ManagerStepKeeps ==
  ASSUME KInv, LInv', UNCHANGED cvars,
         CommitIdsApart', WritersLocked', LoadsBound', FullCheckpointSafe',
         checkpoint_owner # NoTxn => write_lock' \subseteq write_lock
  PROVE  KInv'
<1>1. CTypeOK' /\ OwnerKnown'
  BY DEF KInv, cvars, CTypeOK, OwnerKnown
<1>2. LockExclusive'
  BY DEF KInv, cvars, LockExclusive
<1> QED
  BY <1>1, <1>2 DEF KInv

\* Steps that leave the manager alone.
LEMMA CheckpointStepKeeps ==
  ASSUME KInv, LInv', UNCHANGED vars
  PROVE  /\ CommitIdsApart' /\ WritersLocked'
         /\ UNCHANGED <<Deleters, Live, commit_id, start_time, write_lock>>
<1>1. UNCHANGED <<phase, changes, commit_id, start_time, last_commit, write_lock,
                  active_transactions>>
  BY DEF vars, counters, fields, lists
<1>2. UNCHANGED <<Deleters, Live>>
  BY <1>1 DEF Deleters, Live
<1> QED
  BY <1>1, <1>2 DEF KInv, CommitIdsApart, WritersLocked

\* A transaction that ends gives up an unused exclusive lock.
LEMMA EndingKeeps ==
  ASSUME KInv, LInv', NEW t \in Txn, CCommitSucceeds(t) \/ CCommitFails(t)
  PROVE  KInv'
<1>1. /\ CommitSucceeds(t) \/ CommitFails(t)
      /\ UNCHANGED <<start_transaction_lock, checkpoint, loaded>>
      /\ decision'[t] \in {"no", "full", "concurrent"}
      /\ \A u \in Txn \ {t} : decision'[u] = decision[u]
      /\ decision' \in [Txn -> {"undecided", "no", "full", "concurrent"}]
      /\ decision'[t] # "no" => decision'[t] = decision[t] /\ UNCHANGED checkpoint_owner
      /\ \/ UNCHANGED checkpoint_owner
         \/ checkpoint_owner = t /\ checkpoint_owner' = NoTxn
  BY DEF KInv, CTypeOK, CCommitSucceeds, CCommitFails, ReleaseIf
<1>2. Quiet
  BY <1>1, EndsQuiet DEF KInv
<1>3. CommitIdsApart' /\ WritersLocked' /\ LoadsBound' /\ FullCheckpointSafe'
  BY <1>1, <1>2, QuietKeeps
<1>4. CTypeOK'
  BY <1>1 DEF KInv, CTypeOK
<1>5. OwnerKnown'
  <2>1. checkpoint \in {"loading", "full", "concurrent"} => checkpoint_owner' = Checkpointer
    BY <1>1, CheckpointerAssumption DEF KInv, OwnerKnown
  <2>2. ASSUME NEW u \in Txn, decision'[u] \in {"full", "concurrent"}
        PROVE  checkpoint_owner' = u
    <3>1. decision[u] = decision'[u]
      BY <1>1, <2>2
    <3>2. checkpoint_owner = u
      BY <2>2, <3>1 DEF KInv, OwnerKnown
    <3>3. CASE u = t
      BY <1>1, <2>2, <3>2, <3>3
    <3>4. CASE u # t
      BY <1>1, <3>2, <3>4
    <3> QED
      BY <3>3, <3>4
  <2>3. checkpoint # "loading" => DOMAIN loaded = {}
    BY DEF KInv, OwnerKnown
  <2> QED
    BY <1>1, <2>1, <2>2, <2>3 DEF OwnerKnown
<1>6. LockExclusive'
  BY <1>1, <1>2 DEF KInv, LockExclusive, Quiet
<1> QED
  BY <1>3, <1>4, <1>5, <1>6 DEF KInv

\* The automatic checkpoint of a committing transaction.
LEMMA AutomaticKeeps ==
  ASSUME KInv, LInv', NEW t \in Txn,
         CanCheckpoint(t) \/ CannotCheckpoint(t) \/ AutomaticCheckpointEnds(t)
  PROVE  KInv'
<1>0. UNCHANGED <<vars, start_transaction_lock, checkpoint, loaded>>
  BY DEF CanCheckpoint, CannotCheckpoint, AutomaticCheckpointEnds
<1>1. /\ CommitIdsApart' /\ WritersLocked'
      /\ UNCHANGED <<Deleters, Live, commit_id, start_time, write_lock>>
  BY <1>0, CheckpointStepKeeps
<1>2. DeletesSettled
  BY <1>1 DEF DeletesSettled
<1>3. LoadsBound' /\ FullCheckpointSafe'
  BY <1>0, <1>2, BoundsKept
<1>4. Checkpointer \notin Txn /\ NoTxn \notin Txn /\ Checkpointer # NoTxn
  BY CheckpointerAssumption, ConstantsAssumption
<1>5. CASE CanCheckpoint(t)
  <2>1. /\ checkpoint_owner = NoTxn /\ checkpoint_owner' = t /\ write_lock = {t}
        /\ decision' = [decision EXCEPT ![t] = CheckpointType(t)]
        /\ CheckpointType(t) \in {"no", "full", "concurrent"}
    BY <1>5 DEF CanCheckpoint, CheckpointType
  <2>2. CTypeOK' /\ LockExclusive'
    BY <1>0, <1>1, <2>1 DEF KInv, CTypeOK, LockExclusive
  <2>3. OwnerKnown'
    BY <1>0, <1>4, <2>1 DEF KInv, CTypeOK, OwnerKnown
  <2> QED
    BY <1>1, <1>3, <2>2, <2>3 DEF KInv
<1>6. CASE CannotCheckpoint(t)
  <2>1. checkpoint_owner' = checkpoint_owner /\ decision' = [decision EXCEPT ![t] = "no"]
    BY <1>6 DEF CannotCheckpoint
  <2>2. CTypeOK' /\ LockExclusive' /\ OwnerKnown'
    BY <1>0, <1>1, <2>1 DEF KInv, CTypeOK, LockExclusive, OwnerKnown
  <2> QED
    BY <1>1, <1>3, <2>2 DEF KInv
<1>7. CASE AutomaticCheckpointEnds(t)
  <2>1. /\ checkpoint_owner = t /\ checkpoint_owner' = NoTxn
        /\ decision' = [decision EXCEPT ![t] = "no"]
    BY <1>7 DEF AutomaticCheckpointEnds, Checkpointing, KInv, OwnerKnown
  <2>2. CTypeOK' /\ LockExclusive'
    BY <1>0, <1>1, <2>1 DEF KInv, CTypeOK, LockExclusive
  <2>3. OwnerKnown'
    BY <1>0, <1>4, <2>1 DEF KInv, CTypeOK, OwnerKnown
  <2> QED
    BY <1>1, <1>3, <2>2, <2>3 DEF KInv
<1> QED
  BY <1>5, <1>6, <1>7

\* One more atomic is loaded, from the present state.
LEMMA LoadKeeps ==
  ASSUME KInv, LInv', LoadOperand
  PROVE  KInv'
<1>0. /\ UNCHANGED <<vars, checkpoint_owner, start_transaction_lock, decision, checkpoint>>
      /\ checkpoint = "loading"
  BY DEF LoadOperand
<1>1. /\ CommitIdsApart' /\ WritersLocked'
      /\ UNCHANGED <<Deleters, Live, commit_id, start_time, write_lock>>
  BY <1>0, CheckpointStepKeeps
<1>2. LockExclusive' /\ FullCheckpointSafe'
  BY <1>0, <1>1 DEF KInv, LockExclusive, FullCheckpointSafe
<1>3. /\ TypeOK /\ last_commit \in Nat /\ lowest_active_start \in Nat
      /\ \A u \in Live : lowest_active_start <= start_time[u]
  BY ManagerFacts DEF KInv, TypeOK
<1>4. \A d \in Deleters : commit_id[d] <= last_commit
  <2>1. \A d \in Deleters : d \in Txn /\ commit_id[d] # 0
    BY ManagerFacts DEF KInv, Deleters, ClockAhead
  <2> QED
    BY <2>1 DEF KInv, CommitIdsApart
<1> DEFINE Loaded(next) ==
             [operand \in DOMAIN loaded \cup {next} |->
                 IF operand # next THEN loaded[operand]
                 ELSE IF next = "last" THEN last_commit ELSE lowest_active_start]
<1>5. CASE "last" \notin DOMAIN loaded /\ loaded' = Loaded("last")
  <2>1. /\ DOMAIN loaded' = DOMAIN loaded \cup {"last"}
        /\ loaded'["last"] = last_commit
        /\ "low" \in DOMAIN loaded => loaded'["low"] = loaded["low"]
    BY <1>5
  <2>2. CTypeOK' /\ OwnerKnown'
    BY <1>0, <2>1 DEF KInv, CTypeOK, OwnerKnown
  <2>3. LoadsBound'
    BY <1>0, <1>1, <1>3, <1>4, <2>1 DEF KInv, LoadsBound
  <2> QED
    BY <1>1, <1>2, <2>2, <2>3 DEF KInv
<1>6. CASE "low" \notin DOMAIN loaded /\ loaded' = Loaded("low")
  <2>1. /\ DOMAIN loaded' = DOMAIN loaded \cup {"low"}
        /\ loaded'["low"] = lowest_active_start
        /\ "last" \in DOMAIN loaded => loaded'["last"] = loaded["last"]
    BY <1>6
  <2>2. CTypeOK' /\ OwnerKnown'
    BY <1>0, <2>1 DEF KInv, CTypeOK, OwnerKnown
  <2>3. LoadsBound'
    BY <1>0, <1>1, <1>3, <2>1 DEF KInv, LoadsBound
  <2> QED
    BY <1>1, <1>2, <2>2, <2>3 DEF KInv
<1> QED
  <2>1. PICK next \in {"last", "low"} \ DOMAIN loaded : loaded' = Loaded(next)
    BY DEF LoadOperand
  <2> QED
    BY <1>5, <1>6, <2>1

\* The two operands compared: no delete is as recent as a live transaction.
LEMMA ChoiceKeeps ==
  ASSUME KInv, LInv', ChooseType
  PROVE  KInv'
<1>0. /\ UNCHANGED <<vars, checkpoint_owner, start_transaction_lock, decision>>
      /\ checkpoint = "loading" /\ checkpoint' \in {"full", "concurrent"}
      /\ DOMAIN loaded = {"last", "low"} /\ DOMAIN loaded' = {}
      /\ checkpoint' = "full" => ~ (loaded["last"] > loaded["low"])
  BY DEF ChooseType, Unread
<1>1. /\ CommitIdsApart' /\ WritersLocked'
      /\ UNCHANGED <<Deleters, Live, commit_id, start_time, write_lock>>
  BY <1>0, CheckpointStepKeeps
<1>2. CTypeOK' /\ LockExclusive' /\ OwnerKnown'
  BY <1>0, <1>1 DEF KInv, CTypeOK, LockExclusive, OwnerKnown
<1>3. ASSUME checkpoint' = "full", NEW u \in Live, NEW d \in Deleters
      PROVE  commit_id[d] < start_time[u]
  <2>1. /\ loaded["last"] \in Nat /\ loaded["low"] \in Nat /\ loaded["last"] <= loaded["low"]
        /\ commit_id[d] <= loaded["last"]
        /\ loaded["low"] <= start_time[u] \/ commit_id[d] < start_time[u]
    BY <1>0, <1>3 DEF KInv, LoadsBound
  <2>2. u \in Txn /\ d \in Txn /\ phase[d] = "committed"
    BY ManagerFacts DEF KInv, Deleters
  <2>3. commit_id[d] \in Nat /\ start_time[u] \in Nat /\ commit_id[d] # 0
    BY <2>2, ManagerFacts DEF KInv, TypeOK, ClockAhead
  <2>4. start_time[u] # commit_id[d]
    BY <2>2, <2>3 DEF KInv, CommitIdsApart
  <2> QED
    BY <2>1, <2>3, <2>4
<1>4. FullCheckpointSafe'
  <2> SUFFICES ASSUME checkpoint' = "full" PROVE NoOldReader'
    BY DEF FullCheckpointSafe
  <2>1. \A u \in Live', d \in Deleters' : commit_id'[d] < start_time'[u]
    BY <1>1, <1>3
  <2> QED
    BY <2>1 DEF NoOldReader, Deleters
<1>5. LoadsBound'
  BY <1>0 DEF LoadsBound
<1> QED
  BY <1>1, <1>2, <1>4, <1>5 DEF KInv

\* The other steps of a CHECKPOINT statement.
LEMMA CheckpointerKeeps ==
  ASSUME KInv, LInv',
         TryCheckpoint \/ ForceCheckpoint \/ ForceLocks \/ ForceInterrupted \/ CheckpointEnds
  PROVE  KInv'
<1>0. UNCHANGED <<vars, decision, loaded>> /\ checkpoint' \notin {"full", "concurrent"}
  BY DEF TryCheckpoint, ForceCheckpoint, ForceLocks, ForceInterrupted, CheckpointEnds
<1>1. /\ CommitIdsApart' /\ WritersLocked'
      /\ UNCHANGED <<Deleters, Live, commit_id, start_time, write_lock>>
  BY <1>0, CheckpointStepKeeps
<1>2. checkpoint # "loading" /\ DOMAIN loaded' = {}
  BY <1>0 DEF KInv, OwnerKnown, TryCheckpoint, ForceCheckpoint, ForceLocks, ForceInterrupted,
              CheckpointEnds
<1>3. LoadsBound' /\ FullCheckpointSafe'
  BY <1>0, <1>2 DEF LoadsBound, FullCheckpointSafe
<1>4. CTypeOK'
  <2>1. CASE TryCheckpoint
    BY <1>0, <2>1 DEF KInv, CTypeOK, TryCheckpoint
  <2>2. CASE ForceCheckpoint
    BY <1>0, <2>2 DEF KInv, CTypeOK, ForceCheckpoint
  <2>3. CASE ForceLocks
    BY <1>0, <2>3 DEF KInv, CTypeOK, ForceLocks
  <2>4. CASE ForceInterrupted
    BY <1>0, <2>4 DEF KInv, CTypeOK, ForceInterrupted
  <2>5. CASE CheckpointEnds
    BY <1>0, <2>5 DEF KInv, CTypeOK, CheckpointEnds
  <2> QED
    BY <2>1, <2>2, <2>3, <2>4, <2>5
<1>5. LockExclusive'
  BY <1>1 DEF KInv, LockExclusive, LockFree, TryCheckpoint, ForceCheckpoint, ForceLocks,
              ForceInterrupted, CheckpointEnds
<1>6. Checkpointer \notin Txn /\ NoTxn \notin Txn
  BY CheckpointerAssumption, ConstantsAssumption
<1>7. OwnerKnown'
  <2>1. CASE TryCheckpoint \/ ForceLocks
    BY <1>0, <1>2, <1>6, <2>1 DEF KInv, OwnerKnown, LockFree, TryCheckpoint, ForceLocks
  <2>2. CASE ForceCheckpoint \/ ForceInterrupted
    BY <1>0, <1>2, <2>2 DEF KInv, OwnerKnown, ForceCheckpoint, ForceInterrupted
  <2>3. CASE CheckpointEnds
    BY <1>0, <1>2, <1>6, <2>3 DEF KInv, OwnerKnown, CheckpointEnds
  <2> QED
    BY <2>1, <2>2, <2>3
<1> QED
  BY <1>1, <1>3, <1>4, <1>5, <1>7 DEF KInv

\* Every step preserves the inductive invariant.
LEMMA NextPreservesKInv == KInv /\ [CNext]_allvars => KInv'
<1> SUFFICES ASSUME KInv, [CNext]_allvars PROVE KInv'
  OBVIOUS
<1>0. LInv'
  BY StepsOfManager, NextPreservesLInv DEF KInv
<1>1. CASE UNCHANGED allvars
  <2>1. UNCHANGED <<vars, cvars, checkpoint, loaded>>
    BY <1>1 DEF allvars, cvars
  <2>2. /\ CommitIdsApart' /\ WritersLocked'
        /\ UNCHANGED <<Deleters, Live, commit_id, start_time, write_lock>>
    BY <1>0, <2>1, CheckpointStepKeeps
  <2>3. DeletesSettled
    BY <2>2 DEF DeletesSettled
  <2>4. LoadsBound' /\ FullCheckpointSafe'
    BY <2>1, <2>3, BoundsKept
  <2> QED
    BY <1>0, <2>1, <2>2, <2>4, ManagerStepKeeps
<1>2. ASSUME NEW t \in Txn, UNCHANGED cvars,
             \/ BeginQuery(t) \/ EndQuery(t) \/ GetTransaction(t) \/ RollbackTransaction(t)
             \/ ReadQueryNumber(t) \/ RemoveTransaction(t)
      PROVE  KInv'
  <2>1. Quiet
    BY <1>2, QueriesQuiet, EndsQuiet, RemoveQuiet DEF KInv
  <2>2. CommitIdsApart' /\ WritersLocked' /\ LoadsBound' /\ FullCheckpointSafe'
    BY <1>2, <2>1, QuietKeeps DEF cvars
  <2>3. write_lock' \subseteq write_lock
    BY <2>1 DEF Quiet
  <2> QED
    BY <1>0, <1>2, <2>2, <2>3, ManagerStepKeeps
<1>3. ASSUME NEW t \in Txn, CStartTransaction(t) PROVE KInv'
  <2>1. StartTransaction(t) /\ UNCHANGED cvars
    BY <1>3 DEF CStartTransaction
  <2>2. /\ CommitIdsApart' /\ WritersLocked' /\ UNCHANGED write_lock
        /\ LoadsBound' /\ FullCheckpointSafe'
    BY <2>1, StartKeeps
  <2> QED
    BY <1>0, <2>1, <2>2, ManagerStepKeeps
<1>4. ASSUME NEW t \in Txn, UNCHANGED cvars,
             \/ CSetReadWrite(t) \/ (\E k \in Kind : MakeChange(t, k)) \/ CommitTimestamp(t)
      PROVE  KInv'
  <2>1. SetReadWrite(t) \/ (\E k \in Kind : MakeChange(t, k)) \/ CommitTimestamp(t)
    BY <1>4 DEF CSetReadWrite
  <2>2. CommitIdsApart' /\ WritersLocked' /\ LoadsBound' /\ FullCheckpointSafe'
    BY <1>4, <2>1, RunningKeeps
  <2>3. checkpoint_owner # NoTxn => write_lock' \subseteq write_lock
    BY <1>4 DEF CSetReadWrite, MakeChange, CommitTimestamp
  <2> QED
    BY <1>0, <1>4, <2>2, <2>3, ManagerStepKeeps
<1>5. ASSUME NEW t \in Txn, CCommitSucceeds(t) \/ CCommitFails(t) PROVE KInv'
  BY <1>0, <1>5, EndingKeeps
<1>6. ASSUME NEW t \in Txn,
             CanCheckpoint(t) \/ CannotCheckpoint(t) \/ AutomaticCheckpointEnds(t)
      PROVE  KInv'
  BY <1>0, <1>6, AutomaticKeeps
<1>7. CASE CheckpointerNext
  BY <1>0, <1>7, LoadKeeps, ChoiceKeeps, CheckpointerKeeps DEF CheckpointerNext
<1>8. ASSUME NEW t \in Txn, TxnNext(t) PROVE KInv'
  <2>1. \/ /\ UNCHANGED cvars
           /\ \/ BeginQuery(t) \/ EndQuery(t) \/ GetTransaction(t) \/ RollbackTransaction(t)
              \/ ReadQueryNumber(t) \/ RemoveTransaction(t)
        \/ CStartTransaction(t)
        \/ /\ UNCHANGED cvars
           /\ \/ CSetReadWrite(t) \/ (\E k \in Kind : MakeChange(t, k)) \/ CommitTimestamp(t)
        \/ CCommitSucceeds(t) \/ CCommitFails(t)
        \/ CanCheckpoint(t) \/ CannotCheckpoint(t) \/ AutomaticCheckpointEnds(t)
    BY <1>8 DEF TxnNext, CSetReadWrite
  <2> QED
    BY <1>2, <1>3, <1>4, <1>5, <1>6, <2>1
<1> QED
  BY <1>1, <1>7, <1>8 DEF CNext

\* The inductive invariant holds throughout every execution.
LEMMA AlwaysKInv == CSpec => []KInv
  BY InitEstablishesKInv, NextPreservesKInv, PTL DEF CSpec
-----------------------------------------------------------------------------
\* Type correctness, and start_transaction_lock is held exactly while a FORCE
\* CHECKPOINT waits.
THEOREM CheckpointTypesCorrect == CSpec => []CTypeOK
  BY AlwaysKInv, PTL DEF KInv

\* The two unlocked loads of CHECKPOINT never lead to a vacuum of rows that an
\* active transaction still sees.
THEOREM FullCheckpointIsSafe == CSpec => []FullCheckpointSafe
  BY AlwaysKInv, PTL DEF KInv

\* No checkpoint runs next to the uncommitted changes of another transaction.
THEOREM CheckpointsExcludeWriters == CSpec => []CheckpointExcludesWriters
<1>1. KInv => CheckpointExcludesWriters
  <2> SUFFICES ASSUME KInv, NEW t \in Live, checkpoint_owner \notin {NoTxn, t}
               PROVE  changes[t] = {}
    BY DEF CheckpointExcludesWriters
  <2>1. t \in Txn /\ phase[t] \notin Ended /\ t \notin write_lock
    BY ManagerFacts DEF KInv, Live, Ended, LockExclusive
  <2> QED
    BY <2>1 DEF KInv, WritersLocked
<1> QED
  BY <1>1, AlwaysKInv, PTL
=============================================================================
