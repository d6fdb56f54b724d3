--------------------------- MODULE CatalogProofs ---------------------------
(***************************************************************************)
(* Proofs about the catalog, for any names, transactions and statements.   *)
(* The entries of the undo buffers and the entries of the version chains   *)
(* that have something below them are the same; so commit, rollback and    *)
(* cleanup always find the entry they look for, a rollback at the top of   *)
(* its chain and a cleanup at the bottom.  From this it follows what each  *)
(* transaction sees, and that the chains implement snapshot isolation.     *)
(***************************************************************************)
EXTENDS Catalog, SequenceTheorems, InductionLemmas

-----------------------------------------------------------------------------
(* The values of the variables.                                            *)

Ids     == {<<>>, <<"initial">>} \cup (Txn \X Nat)
Entries == [id : Ids, type : {"INVALID", "ENTRY", "DELETED_ENTRY", "RENAMED_ENTRY"},
            timestamp : Nat, requires : SUBSET Name]
Chains  == Seq(Entries)
Buffers == Seq([key : Key, child : Ids])

\* The operations of a statement.  An ALTER begins with its one operation.
AlterOps == {a \in [op : {"alter"}, name : Name, new : Name, additive : BOOLEAN] :
                (a.additive => a.new = a.name) /\ DependsOn[a.name] \subseteq DependsOn[a.new]}
OtherOps ==
  [op : {"create"}, key : Key, requires : SUBSET Name]
    \cup [op : {"drop", "unlink"}, key : Key]
    \cup {l \in [op : {"link"}, subject : Name, dependent : Name] : l.subject \in DependsOn[l.dependent]}
    \cup [op : {"DropEntry"}, name : Name, cascade : BOOLEAN]
    \cup {a \in [op : {"AlterObject"}, name : Name, new : Name, additive : BOOLEAN] :
            (a.additive => a.new = a.name) /\ DependsOn[a.name] \subseteq DependsOn[a.new]}

\* The types of the variables.
Types ==
  /\ phase \in [Txn -> {"idle", "active", "invalid", "committing", "rolling_back", "ended"}]
  /\ start_time \in [Txn -> Nat] /\ transaction_id \in [Txn -> Nat] /\ commit_id \in [Txn -> Nat]
  /\ current_start_timestamp \in Nat /\ current_transaction_id \in Nat
  /\ map \in [Key -> Chains] /\ undo \in [Txn -> Buffers]
  /\ todo \in [Txn -> Seq(OtherOps) \cup {<<a>> : a \in AlterOps}]
  /\ recently_committed \in Seq(Txn)

\* The lock belongs to the one transaction that commits or rolls back.
Locked ==
  /\ transaction_lock \in Txn \cup {NoTxn}
  /\ \A t \in Txn : phase[t] \in {"committing", "rolling_back"} <=> transaction_lock = t
  /\ transaction_lock # NoTxn => at \in 0..Len(undo[transaction_lock])

\* The transactions that have ended.
Ended == {t \in Txn : phase[t] = "ended"}

\* The clock is ahead of all transactions, their ids differ, and the commit in
\* progress is newer than every transaction.
Clocks ==
  /\ 0 < current_start_timestamp /\ current_start_timestamp <= TRANSACTION_ID_START
  /\ TRANSACTION_ID_START <= current_transaction_id
  /\ \A t \in Txn : start_time[t] < current_start_timestamp /\ commit_id[t] < current_start_timestamp
  /\ \A t \in Running : /\ TRANSACTION_ID_START <= transaction_id[t]
                        /\ transaction_id[t] < current_transaction_id
  /\ \A t, u \in Running : transaction_id[t] = transaction_id[u] => t = u
  /\ \A t \in Txn : phase[t] = "committing" =>
        /\ \A u \in Txn : start_time[u] < commit_id[t]
        /\ \A u \in Txn \ {t} : commit_id[u] < commit_id[t]

\* The commits that await their cleanup, in the order in which they were made.
Recent ==
  /\ \A t \in Txn : phase[t] = "idle" => undo[t] = <<>>
  /\ \A t \in Ended : undo[t] # <<>> => \E i \in DOMAIN recently_committed : recently_committed[i] = t
  /\ \A i \in DOMAIN recently_committed :
        /\ recently_committed[i] \in Ended
        /\ start_time[recently_committed[i]] < commit_id[recently_committed[i]]
        /\ \A t \in Running : commit_id[recently_committed[i]] # start_time[t]
  /\ \A i, j \in DOMAIN recently_committed :
        i < j => commit_id[recently_committed[i]] < commit_id[recently_committed[j]]
-----------------------------------------------------------------------------
(* The chains.  U: the undo buffers; P: those of their entries that are    *)
(* still to be looked at, each as the address of the catalog entry that it *)
(* undoes; B: the pairs of transactions of which one has ended before the  *)
(* other began; E: the transactions that have ended; F: the timestamps.    *)

\* The undo entry at the address p.
UndoEntry(U, p) == U[p[1]][p[2]]

\* The catalog entry at p is older than that at q.
Older(p, q, B) == IF p[1] = q[1] THEN p[2] < q[2] ELSE <<p[1], q[1]>> \in B

\* An entry that has another one below it was put there by an operation that the
\* undo buffer of its transaction still knows.
Covering(c, key, i, U, P, F) ==
  /\ c[i].id \in P
  /\ UndoEntry(U, c[i].id) = [key |-> key, child |-> c[i + 1].id]
  /\ c[i].timestamp = F[c[i].id]
  /\ c[i].type # "INVALID"

\* The last entry of a chain: a dummy node, though never alone, the first entry of
\* a database, or an entry of a transaction that has ended.
Bottom(c, E) ==
  c # <<>> => /\ c[Len(c)].id \in {<<>>, <<"initial">>} \cup (E \X Nat)
              /\ c[Len(c)].type = "INVALID" => Len(c) > 1

\* A chain in order: each entry but the last covers the one below it, no address
\* occurs twice, and newer entries are above older ones.
ChainOK(c, key, U, P, B, E, F) ==
  /\ \A i \in 1..Len(c) - 1 : Covering(c, key, i, U, P, F)
  /\ \A i, j \in 1..Len(c) : c[i].id = c[j].id => i = j
  /\ \A i, j \in 1..Len(c) - 1 : i < j => Older(c[j].id, c[i].id, B)
  /\ Bottom(c, E)

\* The undo entry at p finds its catalog entry, with something below it.
PointerOK(m, U, p) ==
  \E i \in 1..Len(m[UndoEntry(U, p).key]) - 1 : m[UndoEntry(U, p).key][i].id = p

\* The pending entries are in the undo buffers.
Within(U, P) == \A p \in P : p \in Txn \X Nat /\ p[2] \in 1..Len(U[p[1]])

\* The chains m and the pending undo entries P refer to each other.
Woven(m, U, P, B, E, F) ==
  /\ m \in [Key -> Chains] /\ U \in [Txn -> Buffers] /\ F \in [Txn \X Nat -> Nat]
  /\ Within(U, P)
  /\ \A key \in Key : ChainOK(m[key], key, U, P, B, E, F)
  /\ \A p \in P : PointerOK(m, U, p)

\* ... as the state has them.
UndoUpTo(U, t) == IF phase[t] = "rolling_back" THEN at ELSE Len(U[t])
PendingIds(U)  == {p \in Txn \X Nat : p[2] \in 1..UndoUpTo(U, p[1])}
Before      == {p \in Txn \X Txn : phase[p[1]] = "ended" /\ commit_id[p[1]] < start_time[p[2]]}
StampOf(p)  == IF phase[p[1]] = "ended" \/ (phase[p[1]] = "committing" /\ p[2] <= at)
               THEN commit_id[p[1]] ELSE transaction_id[p[1]]
Stamps      == [p \in Txn \X Nat |-> StampOf(p)]

\* The chains of the state.
MapWoven == Woven(map, undo, PendingIds(undo), Before, Ended, Stamps)

\* The inductive invariant.
CInv == Types /\ Locked /\ Clocks /\ Recent /\ MapWoven

\* Nothing awaits its cleanup once nobody is running.
IdleClean == Running = {} => recently_committed = <<>>

\* Who is to alter an entry has found it.
AlterFound == \A t \in Txn : Next_(t, "alter") => Finds(t, Object(Head(todo[t]).name))

-----------------------------------------------------------------------------
(* What the operations of a catalog set do to one chain.                   *)

\* The sequence d is c with e on top, above a dummy node if c is empty.
Pushed(d, c, e) ==
  /\ d \in Chains /\ d[1] = e
  /\ c = <<>> => Len(d) = 2 /\ d[2] = DummyNode
  /\ c # <<>> => Len(d) = Len(c) + 1 /\ \A i \in 1..Len(c) : d[i + 1] = c[i]

\* The dummy node is an entry.
LEMMA DummyIsEntry == DummyNode \in Entries /\ DummyNode.type = "INVALID" /\ DummyNode.id = <<>>
  BY DEF DummyNode, Entry, Entries, Ids

\* Elements of a chain.
LEMMA ChainElements ==
  ASSUME NEW c \in Chains
  PROVE  /\ Len(c) \in Nat /\ DOMAIN c = 1..Len(c)
         /\ \A i \in 1..Len(c) : c[i] \in Entries
         /\ c = <<>> <=> Len(c) = 0
<1>1. Len(c) \in Nat /\ c \in [1..Len(c) -> Entries] /\ DOMAIN c = 1..Len(c)
  BY LenProperties DEF Chains
<1>2. c = <<>> <=> Len(c) = 0
  BY EmptySeq DEF Chains
<1> QED
  BY <1>1, <1>2

\* UpdateEntry puts the entry on top.
LEMMA UpdateEntryPushes ==
  ASSUME NEW c \in Chains, NEW e \in Entries
  PROVE  Pushed(UpdateEntry(c, e), c, e)
<1> DEFINE b == IF c = <<>> THEN <<DummyNode>> ELSE c
<1>1. <<e>> \in Chains /\ Len(<<e>>) = 1 /\ <<e>>[1] = e
  BY DEF Chains
<1>2. b \in Chains /\ Len(b) = (IF c = <<>> THEN 1 ELSE Len(c)) /\ Len(c) \in Nat
  BY DummyIsEntry, ChainElements DEF Chains
<1>3. c = <<>> => b[1] = DummyNode
  OBVIOUS
<1>4. c # <<>> => b = c
  OBVIOUS
<1> HIDE DEF b
<1>5. /\ <<e>> \o b \in Chains
      /\ Len(<<e>> \o b) = 1 + Len(b)
      /\ \A i \in 1..1 + Len(b) : (<<e>> \o b)[i] = IF i <= 1 THEN <<e>>[i] ELSE b[i - 1]
  BY <1>1, <1>2, ConcatProperties DEF Chains
<1>6. UpdateEntry(c, e) = <<e>> \o b
  BY DEF UpdateEntry, b
<1>7. (<<e>> \o b)[1] = e
  BY <1>1, <1>2, <1>5
<1>8. c = <<>> => (<<e>> \o b)[2] = DummyNode /\ Len(<<e>> \o b) = 2
  BY <1>2, <1>3, <1>5
<1>9. c # <<>> => \A i \in 1..Len(c) : (<<e>> \o b)[i + 1] = c[i]
  <2> SUFFICES ASSUME c # <<>>, NEW i \in 1..Len(c) PROVE (<<e>> \o b)[i + 1] = c[i]
    OBVIOUS
  <2>1. i + 1 \in 1..1 + Len(b) /\ ~ (i + 1 <= 1) /\ (i + 1) - 1 = i
    BY <1>2
  <2> QED
    BY <1>4, <1>5, <2>1
<1> QED
  BY <1>2, <1>5, <1>6, <1>7, <1>8, <1>9 DEF Pushed

\* An address determines the position.
LEMMA IndexOfId ==
  ASSUME NEW c \in Chains, \A i, j \in 1..Len(c) : c[i].id = c[j].id => i = j,
         NEW n \in 1..Len(c)
  PROVE  IndexOf(c, c[n].id) = n
<1>1. DOMAIN c = 1..Len(c)
  BY ChainElements
<1> QED
  BY <1>1 DEF IndexOf

\* c without its element at n.
LEMMA Removed ==
  ASSUME NEW c \in Chains, NEW n \in 1..Len(c)
  PROVE  /\ RemoveAt(c, n) \in Chains
         /\ Len(RemoveAt(c, n)) = Len(c) - 1
         /\ \A i \in 1..Len(c) - 1 : RemoveAt(c, n)[i] = IF i < n THEN c[i] ELSE c[i + 1]
<1> DEFINE a == SubSeq(c, 1, n - 1)
           b == SubSeq(c, n + 1, Len(c))
<1>1. Len(c) \in Nat /\ \A i \in 1..Len(c) : c[i] \in Entries
  BY ChainElements
<1>2. a \in Chains /\ Len(a) = n - 1 /\ \A i \in 1..n - 1 : a[i] = c[i]
  <2>1. \A i \in 1..n - 1 : c[i] \in Entries
    BY <1>1
  <2>2. /\ SubSeq(c, 1, n - 1) \in Seq(Entries)
        /\ Len(SubSeq(c, 1, n - 1)) = IF 1 <= n - 1 THEN (n - 1) - 1 + 1 ELSE 0
        /\ \A i \in 1..(n - 1) - 1 + 1 : SubSeq(c, 1, n - 1)[i] = c[1 + i - 1]
    BY <2>1, <1>1, SubSeqProperties
  <2>3. \A i \in 1..n - 1 : i \in 1..(n - 1) - 1 + 1 /\ 1 + i - 1 = i
    OBVIOUS
  <2> QED
    BY <1>1, <2>2, <2>3 DEF Chains
<1>3. b \in Chains /\ Len(b) = Len(c) - n /\ \A i \in 1..Len(c) - n : b[i] = c[n + i]
  <2>1. \A i \in n + 1..Len(c) : c[i] \in Entries
    BY <1>1
  <2>2. /\ SubSeq(c, n + 1, Len(c)) \in Seq(Entries)
        /\ Len(SubSeq(c, n + 1, Len(c))) = IF n + 1 <= Len(c) THEN Len(c) - (n + 1) + 1 ELSE 0
        /\ \A i \in 1..Len(c) - (n + 1) + 1 : SubSeq(c, n + 1, Len(c))[i] = c[(n + 1) + i - 1]
    BY <2>1, <1>1, SubSeqProperties
  <2>3. \A i \in 1..Len(c) - n : i \in 1..Len(c) - (n + 1) + 1 /\ (n + 1) + i - 1 = n + i
    BY <1>1
  <2> QED
    BY <1>1, <2>2, <2>3 DEF Chains
<1> HIDE DEF a, b
<1>4. /\ a \o b \in Chains /\ Len(a \o b) = Len(a) + Len(b)
      /\ \A i \in 1..Len(a) + Len(b) : (a \o b)[i] = IF i <= Len(a) THEN a[i] ELSE b[i - Len(a)]
  BY <1>2, <1>3, ConcatProperties DEF Chains
<1>5. RemoveAt(c, n) = a \o b
  BY DEF RemoveAt, a, b
<1>6. ASSUME NEW i \in 1..Len(c) - 1 PROVE (a \o b)[i] = IF i < n THEN c[i] ELSE c[i + 1]
  <2>1. i \in 1..Len(a) + Len(b)
    BY <1>1, <1>2, <1>3
  <2>2. CASE i < n
    <3>1. i <= Len(a) /\ i \in 1..n - 1
      BY <1>2, <2>2
    <3> QED
      BY <1>2, <1>4, <2>1, <2>2, <3>1
  <2>3. CASE ~ (i < n)
    <3>1. ~ (i <= Len(a)) /\ i - Len(a) \in 1..Len(c) - n /\ n + (i - Len(a)) = i + 1
      BY <1>1, <1>2, <2>3
    <3> QED
      BY <1>3, <1>4, <2>1, <2>3, <3>1
  <2> QED
    BY <2>2, <2>3
<1>7. Len(a) + Len(b) = Len(c) - 1
  BY <1>1, <1>2, <1>3
<1> QED
  BY <1>4, <1>5, <1>6, <1>7

\* Undo of what is on top: the entry goes, and a dummy node below it.
LEMMA UndoTop ==
  ASSUME NEW c \in Chains, NEW key, NEW U, NEW P, NEW B, NEW E, NEW F,
         ChainOK(c, key, U, P, B, E, F), Len(c) > 1, NEW d, d = Undo(c, c[2].id)
  PROVE  /\ d \in Chains
         /\ IF c[2].type = "INVALID" THEN Len(c) = 2 /\ d = <<>>
            ELSE Len(d) = Len(c) - 1 /\ \A i \in 1..Len(c) - 1 : d[i] = c[i + 1]
<1>1. Len(c) \in Nat /\ 2 \in 1..Len(c) /\ 1 \in 1..Len(c) /\ 1 \in 1..Len(c) - 1
  BY ChainElements
<1>2. IndexOf(c, c[2].id) = 2
  BY <1>1, IndexOfId DEF ChainOK
<1> DEFINE r == RemoveAt(c, 1)
<1>3. r \in Chains /\ Len(r) = Len(c) - 1 /\ \A i \in 1..Len(c) - 1 : r[i] = c[i + 1]
  <2>1. \A i \in 1..Len(c) - 1 : ~ (i < 1)
    OBVIOUS
  <2> QED
    BY <1>1, <2>1, Removed
<1>4. d = IF c[2].type = "INVALID" THEN RemoveAt(r, 1) ELSE r
  BY <1>2 DEF Undo
<1> HIDE DEF r
<1>5. CASE c[2].type = "INVALID"
  <2>1. Len(c) = 2
    <3>1. 2 \notin 1..Len(c) - 1
      BY <1>5 DEF ChainOK, Covering
    <3>2. \A n \in Nat : n > 1 /\ 2 \notin 1..n - 1 => n = 2
      OBVIOUS
    <3> QED
      BY <1>1, <3>1, <3>2
  <2>2. Len(r) = 1 /\ 1 \in 1..Len(r)
    BY <1>3, <2>1
  <2>3. RemoveAt(r, 1) \in Chains /\ Len(RemoveAt(r, 1)) = Len(r) - 1
    BY <1>3, <2>2, Removed
  <2>4. RemoveAt(r, 1) = <<>>
    BY <2>2, <2>3, ChainElements
  <2> QED
    BY <1>4, <1>5, <2>1, <2>3, <2>4
<1>6. CASE c[2].type # "INVALID"
  BY <1>3, <1>4, <1>6
<1> QED
  BY <1>5, <1>6

\* CleanupEntry of the last entry: it goes, and a tombstone that would be alone.
LEMMA CleanupLast ==
  ASSUME NEW c \in Chains, NEW key, NEW U, NEW P, NEW B, NEW E, NEW F,
         ChainOK(c, key, U, P, B, E, F), Len(c) > 1, NEW d, d = CleanupEntry(c, c[Len(c)].id)
  PROVE  /\ d \in Chains
         /\ IF Deleted(c[Len(c) - 1]) /\ Len(c) = 2 THEN d = <<>>
            ELSE Len(d) = Len(c) - 1 /\ \A i \in 1..Len(c) - 1 : d[i] = c[i]
<1>1. Len(c) \in Nat /\ Len(c) \in 1..Len(c)
  BY ChainElements
<1>2. IndexOf(c, c[Len(c)].id) = Len(c)
  BY <1>1, IndexOfId DEF ChainOK
<1> DEFINE r == RemoveAt(c, Len(c))
<1>3. r \in Chains /\ Len(r) = Len(c) - 1 /\ \A i \in 1..Len(c) - 1 : r[i] = c[i]
  <2>1. \A i \in 1..Len(c) - 1 : i < Len(c)
    BY <1>1
  <2> QED
    BY <1>1, <2>1, Removed
<1>4. d = IF Deleted(c[Len(c) - 1]) /\ Len(r) = 1 THEN <<>> ELSE r
  BY <1>2 DEF CleanupEntry
<1>5. Len(r) = 1 <=> Len(c) = 2
  BY <1>1, <1>3
<1>6. <<>> \in Chains
  BY DEF Chains
<1> QED
  BY <1>3, <1>4, <1>5, <1>6

\* UpdateTimestamp changes the timestamp of the entry above.
LEMMA TimestampUpdated ==
  ASSUME NEW c \in Chains, \A i, j \in 1..Len(c) : c[i].id = c[j].id => i = j,
         NEW n \in 1..Len(c) - 1, NEW timestamp \in Nat,
         NEW d, d = UpdateTimestamp(c, c[n + 1].id, timestamp)
  PROVE  /\ d \in Chains /\ Len(d) = Len(c)
         /\ \A i \in 1..Len(c) : /\ i # n => d[i] = c[i]
                                 /\ d[i].id = c[i].id /\ d[i].type = c[i].type
                                 /\ d[i].requires = c[i].requires
         /\ d[n].timestamp = timestamp
<1>1. Len(c) \in Nat /\ n + 1 \in 1..Len(c) /\ n \in 1..Len(c) /\ (n + 1) - 1 = n
  BY ChainElements
<1>2. IndexOf(c, c[n + 1].id) = n + 1
  BY <1>1, IndexOfId
<1> DEFINE e == [c[n] EXCEPT !.timestamp = timestamp]
<1>3. d = [c EXCEPT ![n] = e]
  BY <1>1, <1>2 DEF UpdateTimestamp
<1>4. c[n] \in Entries
  BY <1>1, ChainElements
<1>5. /\ e \in Entries /\ e.id = c[n].id /\ e.type = c[n].type /\ e.requires = c[n].requires
      /\ e.timestamp = timestamp
  BY <1>4 DEF Entries
<1> HIDE DEF e
<1>6. /\ d \in Chains /\ Len(d) = Len(c)
      /\ \A j \in 1..Len(c) : d[j] = IF j = n THEN e ELSE c[j]
  BY <1>1, <1>3, <1>5, ExceptSeq DEF Chains
<1> QED
  BY <1>1, <1>5, <1>6
-----------------------------------------------------------------------------
(* What is seen of a chain.  Who sees the transactions in W sees the first *)
(* entry of one of these, or else the last entry.                          *)

\* The entry at i is the last one or is of a transaction in W.
Sees(c, W, i) == i = Len(c) \/ c[i].id[1] \in W

\* It is the first such entry.
IsFirst(c, W, i) == Sees(c, W, i) /\ \A j \in 1..i - 1 : ~ c[j].id[1] \in W

\* The address of an entry, unless that says that there is none.
Value(e) == IF Deleted(e) THEN <<>> ELSE <<e.id>>

\* What those see of the chain c who see the transactions in W.
SeenIn(c, W) == IF c = <<>> THEN <<>> ELSE Value(c[CHOOSE i \in 1..Len(c) : IsFirst(c, W, i)])

\* The last entry of the chain is older than L.
Beyond(L, timestamp) == \A l \in L : timestamp < l
Low(c, L)            == c # <<>> => Beyond(L, c[Len(c)].timestamp)

\* What those see who see W is the same, and the last entries are as old.
Keeps(m2, m, W, L) ==
  \A key \in Key : SeenIn(m2[key], W) = SeenIn(m[key], W) /\ (Low(m[key], L) => Low(m2[key], L))

\* There is a first entry, ...
LEMMA FirstExists ==
  ASSUME NEW c \in Chains, c # <<>>, NEW W
  PROVE  \E i \in 1..Len(c) : IsFirst(c, W, i)
<1>1. Len(c) \in Nat /\ Len(c) # 0
  BY ChainElements
<1> DEFINE I == {i \in 1..Len(c) : Sees(c, W, i)}
           k == Min(I)
<1>2. Len(c) \in I /\ I \in SUBSET Nat
  BY <1>1 DEF Sees
<1>3. k \in I /\ \A x \in I : k <= x
  BY <1>2, MinIsLeast
<1>4. k \in 1..Len(c) /\ Sees(c, W, k) /\ k \in Nat
  BY <1>2, <1>3
<1> HIDE DEF k
<1>5. \A j \in 1..k - 1 : ~ c[j].id[1] \in W
  <2> SUFFICES ASSUME NEW j \in 1..k - 1, c[j].id[1] \in W PROVE FALSE
    OBVIOUS
  <2>0. \A n, x \in Nat : \A y \in 1..x - 1 : x \in 1..n => y \in 1..n /\ ~ (x <= y)
    OBVIOUS
  <2> HIDE DEF I
  <2>1. Len(c) \in Nat /\ k \in Nat /\ k \in 1..Len(c)
    BY <1>1, <1>4, Zenon
  <2>2. j \in 1..Len(c) /\ ~ (k <= j)
    BY <2>0, <2>1
  <2>3. Sees(c, W, j)
    BY DEF Sees
  <2> QED
    BY <1>3, <2>2, <2>3 DEF I
<1> QED
  BY <1>4, <1>5 DEF IsFirst

\* ... and only one.
LEMMA FirstUnique ==
  ASSUME NEW c \in Chains, NEW W, NEW i \in 1..Len(c), NEW k \in 1..Len(c), IsFirst(c, W, i), IsFirst(c, W, k)
  PROVE  i = k
<1>1. Len(c) \in Nat
  BY ChainElements
<1>2. i \in 1..k - 1 => i # Len(c)
  BY <1>1
<1>3. k \in 1..i - 1 => k # Len(c)
  BY <1>1
<1>4. i \notin 1..k - 1 /\ k \notin 1..i - 1
  BY <1>2, <1>3 DEF IsFirst, Sees
<1> QED
  BY <1>1, <1>4

\* What is seen is the value of the first entry.
LEMMA SeenInIs ==
  ASSUME NEW c \in Chains, NEW W, NEW i \in 1..Len(c), IsFirst(c, W, i)
  PROVE  SeenIn(c, W) = Value(c[i]) /\ c # <<>>
<1>1. Len(c) \in Nat
  BY ChainElements
<1>2. Len(c) # 0
  BY <1>1
<1>3. c # <<>>
  BY <1>2, ChainElements
<1> DEFINE k == CHOOSE n \in 1..Len(c) : IsFirst(c, W, n)
<1>4. k \in 1..Len(c) /\ IsFirst(c, W, k)
  OBVIOUS
<1> HIDE DEF k
<1>5. k = i
  BY <1>4, FirstUnique
<1> QED
  BY <1>3, <1>5 DEF SeenIn, k

\* Two sets that agree on the entries with something below them.
LEMMA SeenAlike ==
  ASSUME NEW c \in Chains, NEW d \in Chains, Len(d) = Len(c), NEW V, NEW W,
         \A i \in 1..Len(c) : d[i].id = c[i].id /\ d[i].type = c[i].type,
         \A i \in 1..Len(c) - 1 : c[i].id[1] \in V <=> c[i].id[1] \in W
  PROVE  SeenIn(d, W) = SeenIn(c, V)
<1>0. Len(c) \in Nat /\ (c = <<>> <=> Len(c) = 0) /\ (d = <<>> <=> Len(c) = 0)
  BY ChainElements
<1>1. CASE c = <<>>
  BY <1>0, <1>1 DEF SeenIn
<1>2. CASE c # <<>>
  <2>1. PICK i \in 1..Len(c) : IsFirst(c, V, i)
    BY <1>2, FirstExists
  <2>2. \A j \in 1..i - 1 : j \in 1..Len(c) - 1 /\ j \in 1..Len(c)
    BY <1>0
  <2>3. i = Len(c) \/ i \in 1..Len(c) - 1
    BY <1>0
  <2>4. IsFirst(d, W, i)
    BY <2>1, <2>2, <2>3 DEF IsFirst, Sees
  <2>5. SeenIn(c, V) = Value(c[i]) /\ SeenIn(d, W) = Value(d[i])
    BY <2>1, <2>4, SeenInIs
  <2> QED
    BY <2>5 DEF Value, Deleted
<1> QED
  BY <1>1, <1>2

\* A new entry on top is seen by those who see its transaction.
LEMMA SeenPushed ==
  ASSUME NEW c \in Chains, NEW e \in Entries, NEW d, Pushed(d, c, e), NEW W, e.id[1] \notin W,
         NEW L, Beyond(L, 0)
  PROVE  SeenIn(d, W) = SeenIn(c, W) /\ (Low(c, L) => Low(d, L))
<1>0. Len(c) \in Nat /\ d \in Chains /\ d[1] = e /\ (c = <<>> <=> Len(c) = 0)
  BY ChainElements DEF Pushed
<1>1. CASE c = <<>>
  <2>1. Len(d) = 2 /\ d[2] = DummyNode
    BY <1>1 DEF Pushed
  <2>2. 2 \in 1..Len(d) /\ \A j \in 1..2 - 1 : j = 1
    BY <2>1
  <2>3. IsFirst(d, W, 2)
    BY <1>0, <2>1, <2>2 DEF IsFirst, Sees
  <2>4. SeenIn(d, W) = Value(DummyNode)
    BY <1>0, <2>1, <2>2, <2>3, SeenInIs
  <2>5. Low(d, L)
    BY <2>1 DEF Low, DummyNode, Entry
  <2> QED
    BY <1>1, <2>4, <2>5, DummyIsEntry DEF Value, Deleted, SeenIn
<1>2. CASE c # <<>>
  <2>1. Len(d) = Len(c) + 1 /\ \A i \in 1..Len(c) : d[i + 1] = c[i]
    BY <1>2 DEF Pushed
  <2>2. PICK i \in 1..Len(c) : IsFirst(c, W, i)
    BY <1>2, FirstExists
  <2>3. i + 1 \in 1..Len(d) /\ (i + 1 = Len(d) <=> i = Len(c)) /\ d[i + 1] = c[i]
    BY <1>0, <2>1
  <2>4. \A j \in 1..(i + 1) - 1 : j = 1 \/ (j - 1 \in 1..i - 1 /\ j - 1 \in 1..Len(c) /\ (j - 1) + 1 = j)
    BY <1>0
  <2>5. \A j \in 1..(i + 1) - 1 : ~ d[j].id[1] \in W
    <3> SUFFICES ASSUME NEW j \in 1..(i + 1) - 1 PROVE ~ d[j].id[1] \in W
      OBVIOUS
    <3>1. CASE j = 1
      BY <1>0, <3>1
    <3>2. CASE j - 1 \in 1..i - 1 /\ j - 1 \in 1..Len(c) /\ (j - 1) + 1 = j
      <4>1. d[(j - 1) + 1] = c[j - 1]
        BY <2>1, <3>2
      <4> QED
        BY <2>2, <3>2, <4>1 DEF IsFirst
    <3> QED
      BY <2>4, <3>1, <3>2
  <2>6. IsFirst(d, W, i + 1)
    BY <2>2, <2>3, <2>5 DEF IsFirst, Sees
  <2>7. d[Len(d)] = c[Len(c)]
    <3>1. Len(c) \in 1..Len(c)
      BY <1>0, <1>2
    <3> QED
      BY <2>1, <3>1
  <2>8. Low(c, L) => Low(d, L)
    BY <1>2, <2>7 DEF Low
  <2> QED
    BY <1>0, <2>2, <2>3, <2>6, <2>8, SeenInIs
<1> QED
  BY <1>1, <1>2

\* An entry on top that is not seen is taken away.
LEMMA SeenUndone ==
  ASSUME NEW c \in Chains, NEW key, NEW U, NEW P, NEW B, NEW E, NEW F,
         ChainOK(c, key, U, P, B, E, F), Len(c) > 1, NEW d, d = Undo(c, c[2].id),
         NEW W, c[1].id[1] \notin W, NEW L
  PROVE  SeenIn(d, W) = SeenIn(c, W) /\ (Low(c, L) => Low(d, L))
<1>0. Len(c) \in Nat /\ (c = <<>> <=> Len(c) = 0)
  BY ChainElements
<1>1. /\ d \in Chains
      /\ IF c[2].type = "INVALID" THEN Len(c) = 2 /\ d = <<>>
         ELSE Len(d) = Len(c) - 1 /\ \A i \in 1..Len(c) - 1 : d[i] = c[i + 1]
  BY UndoTop
<1>2. c # <<>>
  BY <1>0
<1>3. PICK i \in 1..Len(c) : IsFirst(c, W, i)
  BY <1>2, FirstExists
<1>4. i # 1
  BY <1>0, <1>3 DEF IsFirst, Sees
<1>5. SeenIn(c, W) = Value(c[i])
  BY <1>3, SeenInIs
<1>6. CASE c[2].type = "INVALID"
  <2>1. Len(c) = 2 /\ d = <<>>
    BY <1>1, <1>6
  <2>2. i = 2
    BY <1>4, <2>1
  <2> QED
    BY <1>5, <1>6, <2>1, <2>2 DEF Value, Deleted, SeenIn, Low
<1>7. CASE c[2].type # "INVALID"
  <2>1. Len(d) = Len(c) - 1 /\ \A j \in 1..Len(c) - 1 : d[j] = c[j + 1]
    BY <1>1, <1>7
  <2>2. i - 1 \in 1..Len(d) /\ (i - 1) + 1 = i /\ (i - 1 = Len(d) <=> i = Len(c))
    BY <1>0, <1>4, <2>1
  <2>3. d[i - 1] = c[i]
    BY <2>1, <2>2
  <2>4. \A j \in 1..(i - 1) - 1 : j \in 1..Len(c) - 1 /\ j + 1 \in 1..i - 1
    BY <1>0
  <2>5. \A j \in 1..(i - 1) - 1 : ~ d[j].id[1] \in W
    BY <1>3, <2>1, <2>4 DEF IsFirst
  <2>6. IsFirst(d, W, i - 1)
    BY <1>3, <2>2, <2>3, <2>5 DEF IsFirst, Sees
  <2>7. d[Len(d)] = c[Len(c)]
    <3>1. Len(c) - 1 \in 1..Len(c) - 1 /\ (Len(c) - 1) + 1 = Len(c)
      BY <1>0
    <3> QED
      BY <2>1, <3>1
  <2>8. Low(c, L) => Low(d, L)
    BY <1>2, <2>7 DEF Low
  <2> QED
    BY <1>1, <1>5, <2>2, <2>3, <2>6, <2>8, SeenInIs
<1> QED
  BY <1>6, <1>7

\* The last entry goes; the one above it is seen.
LEMMA SeenCleaned ==
  ASSUME NEW c \in Chains, NEW key, NEW U, NEW P, NEW B, NEW E, NEW F,
         ChainOK(c, key, U, P, B, E, F), Len(c) > 1, NEW d, d = CleanupEntry(c, c[Len(c)].id),
         NEW W, c[Len(c) - 1].id[1] \in W, NEW L, Beyond(L, c[Len(c) - 1].timestamp)
  PROVE  SeenIn(d, W) = SeenIn(c, W) /\ Low(d, L)
<1>0. Len(c) \in Nat /\ (c = <<>> <=> Len(c) = 0)
  BY ChainElements
<1>1. /\ d \in Chains
      /\ IF Deleted(c[Len(c) - 1]) /\ Len(c) = 2 THEN d = <<>>
         ELSE Len(d) = Len(c) - 1 /\ \A i \in 1..Len(c) - 1 : d[i] = c[i]
  BY CleanupLast
<1>2. c # <<>>
  BY <1>0
<1>3. PICK i \in 1..Len(c) : IsFirst(c, W, i)
  BY <1>2, FirstExists
<1>4. i \in 1..Len(c) - 1
  <2>1. Len(c) - 1 \notin 1..i - 1
    BY <1>3 DEF IsFirst
  <2>2. \A a, b \in Nat : a > 1 /\ b \in 1..a /\ a - 1 \notin 1..b - 1 => b \in 1..a - 1
    OBVIOUS
  <2>3. i \in Nat
    BY <1>0
  <2> QED
    BY <1>0, <2>1, <2>2, <2>3
<1>5. SeenIn(c, W) = Value(c[i])
  BY <1>3, SeenInIs
<1>6. CASE Deleted(c[Len(c) - 1]) /\ Len(c) = 2
  <2>1. i = Len(c) - 1 /\ d = <<>>
    BY <1>1, <1>4, <1>6
  <2> QED
    BY <1>5, <1>6, <2>1 DEF Value, SeenIn, Low
<1>7. CASE ~ (Deleted(c[Len(c) - 1]) /\ Len(c) = 2)
  <2>1. Len(d) = Len(c) - 1 /\ \A j \in 1..Len(c) - 1 : d[j] = c[j]
    BY <1>1, <1>7
  <2>2. i \in 1..Len(d) /\ d[i] = c[i] /\ \A j \in 1..i - 1 : j \in 1..Len(c) - 1
    BY <1>0, <1>4, <2>1
  <2>3. c[i].id[1] \in W
    <3>1. i # Len(c)
      BY <1>0, <1>4
    <3> QED
      BY <1>3, <3>1 DEF IsFirst, Sees
  <2>4. IsFirst(d, W, i)
    BY <1>3, <2>1, <2>2, <2>3 DEF IsFirst, Sees
  <2>5. d[Len(d)] = c[Len(c) - 1]
    <3>1. Len(c) - 1 \in 1..Len(c) - 1
      BY <1>0
    <3> QED
      BY <2>1, <3>1
  <2>6. Low(d, L)
    BY <2>5 DEF Low
  <2> QED
    BY <1>1, <1>5, <2>2, <2>4, <2>6, SeenInIs
<1> QED
  BY <1>6, <1>7

\* One chain has changed.
LEMMA KeepsOne ==
  ASSUME NEW m \in [Key -> Chains], NEW key \in Key, NEW d, NEW W, NEW L,
         SeenIn(d, W) = SeenIn(m[key], W), Low(m[key], L) => Low(d, L)
  PROVE  Keeps([m EXCEPT ![key] = d], m, W, L)
<1>1. \A k \in Key : [m EXCEPT ![key] = d][k] = IF k = key THEN d ELSE m[k]
  OBVIOUS
<1> QED
  BY <1>1 DEF Keeps
-----------------------------------------------------------------------------
(* The chain stays in order.                                               *)

\* What the undo buffers say of the pending entries is the same.
SameUndo(U, V, P) == \A p \in P : UndoEntry(V, p) = UndoEntry(U, p)

\* The addresses of entries with nothing below them.
BottomIds(E) == {<<>>, <<"initial">>} \cup (E \X Nat)

\* A new entry on top, newer than all that have something below them.
LEMMA PushedOK ==
  ASSUME NEW c \in Chains, NEW key, NEW U, NEW P, NEW B, NEW E, NEW F,
         ChainOK(c, key, U, P, B, E, F),
         NEW e \in Entries, NEW d, Pushed(d, c, e), NEW V, NEW Q, P \subseteq Q, SameUndo(U, V, P),
         e.id \in Q, e.id \notin P, e.id \notin BottomIds(E),
         UndoEntry(V, e.id) = [key |-> key, child |-> d[2].id],
         e.timestamp = F[e.id], e.type # "INVALID",
         \A i \in 1..Len(c) - 1 : Older(c[i].id, e.id, B)
  PROVE  ChainOK(d, key, V, Q, B, E, F)
<1>1. Len(c) \in Nat /\ (c = <<>> <=> Len(c) = 0) /\ d \in Chains /\ d[1] = e
  BY ChainElements DEF Pushed
<1>2. CASE c = <<>>
  <2>1. Len(d) = 2 /\ d[2] = DummyNode
    BY <1>2 DEF Pushed
  <2>2. \A i \in 1..Len(d) : i = 1 \/ i = 2
    BY <2>1
  <2>3. \A i \in 1..Len(d) - 1 : i = 1
    BY <2>1
  <2>4. Covering(d, key, 1, V, Q, F)
    BY <1>1 DEF Covering
  <2>5. e.id # d[2].id
    BY <2>1, DummyIsEntry DEF BottomIds
  <2>6. Bottom(d, E)
    BY <2>1, DummyIsEntry DEF Bottom
  <2>7. \A i \in 1..Len(d) - 1 : Covering(d, key, i, V, Q, F)
    BY <2>3, <2>4
  <2>8. \A i, j \in 1..Len(d) : d[i].id = d[j].id => i = j
    BY <1>1, <2>2, <2>5
  <2>9. \A i, j \in 1..Len(d) - 1 : ~ (i < j)
    BY <2>3
  <2> QED
    BY <2>6, <2>7, <2>8, <2>9 DEF ChainOK
<1>3. CASE c # <<>>
  <2>1. Len(d) = Len(c) + 1 /\ \A i \in 1..Len(c) : d[i + 1] = c[i]
    BY <1>3 DEF Pushed
  <2>2. \A i \in 1..Len(d) : i = 1 \/ (i - 1 \in 1..Len(c) /\ d[i] = c[i - 1])
    <3> SUFFICES ASSUME NEW i \in 1..Len(d), i # 1 PROVE i - 1 \in 1..Len(c) /\ d[i] = c[i - 1]
      OBVIOUS
    <3>1. i - 1 \in 1..Len(c) /\ (i - 1) + 1 = i
      BY <1>1, <2>1
    <3> QED
      BY <2>1, <3>1
  <2>3. \A i \in 1..Len(c) : c[i].id # e.id
    <3> SUFFICES ASSUME NEW i \in 1..Len(c) PROVE c[i].id # e.id
      OBVIOUS
    <3>1. CASE i = Len(c)
      BY <1>3, <3>1 DEF ChainOK, Bottom, BottomIds
    <3>2. CASE i # Len(c)
      <4>1. i \in 1..Len(c) - 1
        BY <1>1, <3>2
      <4> QED
        BY <4>1 DEF ChainOK, Covering
    <3> QED
      BY <3>1, <3>2
  <2>4. \A i \in 1..Len(d) - 1 : Covering(d, key, i, V, Q, F)
    <3> SUFFICES ASSUME NEW i \in 1..Len(d) - 1 PROVE Covering(d, key, i, V, Q, F)
      OBVIOUS
    <3>1. CASE i = 1
      <4>1. i + 1 = 2
        BY <3>1
      <4> QED
        BY <1>1, <3>1, <4>1 DEF Covering
    <3>2. CASE i # 1
      <4>1. i - 1 \in 1..Len(c) - 1 /\ i \in 1..Len(d) /\ i + 1 \in 1..Len(d) /\ (i + 1) - 1 = i
            /\ (i - 1) + 1 = i /\ i + 1 # 1
        BY <1>1, <2>1, <3>2
      <4>2. d[i] = c[i - 1] /\ d[i + 1] = c[i]
        BY <2>2, <3>2, <4>1
      <4>3. Covering(c, key, i - 1, U, P, F)
        BY <4>1 DEF ChainOK
      <4>4. /\ c[i - 1].id \in P /\ UndoEntry(U, c[i - 1].id) = [key |-> key, child |-> c[i].id]
            /\ c[i - 1].timestamp = F[c[i - 1].id] /\ c[i - 1].type # "INVALID"
        BY <4>1, <4>3 DEF Covering
      <4>5. UndoEntry(V, c[i - 1].id) = UndoEntry(U, c[i - 1].id)
        BY <4>4 DEF SameUndo
      <4> QED
        BY <4>2, <4>4, <4>5 DEF Covering
    <3> QED
      BY <3>1, <3>2
  <2>5. ASSUME NEW i \in 1..Len(d), NEW j \in 1..Len(d), d[i].id = d[j].id PROVE i = j
    <3>1. CASE i = 1 \/ j = 1
      BY <1>1, <2>2, <2>3, <2>5, <3>1
    <3>2. CASE i # 1 /\ j # 1
      <4>1. i - 1 \in 1..Len(c) /\ j - 1 \in 1..Len(c) /\ c[i - 1].id = c[j - 1].id
        BY <2>2, <2>5, <3>2
      <4>2. i - 1 = j - 1
        BY <4>1 DEF ChainOK
      <4> QED
        BY <4>2
    <3> QED
      BY <3>1, <3>2
  <2>6. ASSUME NEW i \in 1..Len(d) - 1, NEW j \in 1..Len(d) - 1, i < j
        PROVE  Older(d[j].id, d[i].id, B)
    <3>1. j - 1 \in 1..Len(c) - 1 /\ j \in 1..Len(d) /\ j # 1 /\ i \in 1..Len(d)
      BY <1>1, <2>1, <2>6
    <3>2. d[j] = c[j - 1]
      BY <2>2, <3>1
    <3>3. CASE i = 1
      BY <1>1, <3>1, <3>2, <3>3
    <3>4. CASE i # 1
      <4>1. i - 1 \in 1..Len(c) - 1 /\ i - 1 < j - 1
        BY <1>1, <2>1, <2>6, <3>4
      <4>2. d[i] = c[i - 1]
        BY <2>2, <3>1, <3>4
      <4>3. Older(c[j - 1].id, c[i - 1].id, B)
        BY <3>1, <4>1 DEF ChainOK
      <4> QED
        BY <3>2, <4>2, <4>3
    <3> QED
      BY <3>3, <3>4
  <2>7. Bottom(d, E)
    <3>1. Len(d) \in 1..Len(d) /\ Len(d) # 1 /\ Len(d) - 1 = Len(c) /\ Len(d) > 1
      BY <1>1, <1>3, <2>1
    <3>2. d[Len(d)] = c[Len(c)]
      BY <2>2, <3>1
    <3> QED
      BY <1>3, <3>1, <3>2 DEF ChainOK, Bottom
  <2> QED
    BY <2>4, <2>5, <2>6, <2>7 DEF ChainOK
<1> QED
  BY <1>2, <1>3

\* What the chains look at of U, P, B, E and F has not changed.
Alike(Q, U, B, F, V, P2, C, G) ==
  /\ \A p \in Q : p \in P2 /\ UndoEntry(V, p) = UndoEntry(U, p) /\ G[p] = F[p]
  /\ \A p, q \in Q : Older(p, q, B) => Older(p, q, C)

\* The entries of c that have something below them are in Q.
Covers(c, Q) == \A i \in 1..Len(c) - 1 : c[i].id \in Q

\* A chain stays in order if nothing changes that its entries refer to.
LEMMA AlikeOK ==
  ASSUME NEW c \in Chains, NEW key, NEW U, NEW P, NEW B, NEW E, NEW F,
         ChainOK(c, key, U, P, B, E, F), NEW Q, Covers(c, Q),
         NEW V, NEW P2, NEW C, NEW D, NEW G, Alike(Q, U, B, F, V, P2, C, G), E \subseteq D
  PROVE  ChainOK(c, key, V, P2, C, D, G)
<1>1. \A i \in 1..Len(c) - 1 : Covering(c, key, i, V, P2, G)
  <2> SUFFICES ASSUME NEW i \in 1..Len(c) - 1 PROVE Covering(c, key, i, V, P2, G)
    OBVIOUS
  <2>1. c[i].id \in Q /\ Covering(c, key, i, U, P, F)
    BY DEF Covers, ChainOK
  <2>2. c[i].id \in P2 /\ UndoEntry(V, c[i].id) = UndoEntry(U, c[i].id) /\ G[c[i].id] = F[c[i].id]
    BY <2>1 DEF Alike
  <2> QED
    BY <2>1, <2>2 DEF Covering
<1>2. ASSUME NEW i \in 1..Len(c) - 1, NEW j \in 1..Len(c) - 1, i < j PROVE Older(c[j].id, c[i].id, C)
  <2>1. c[i].id \in Q /\ c[j].id \in Q
    BY DEF Covers
  <2>2. Older(c[j].id, c[i].id, B)
    BY <1>2 DEF ChainOK
  <2> QED
    BY <2>1, <2>2 DEF Alike
<1>3. Bottom(c, D)
  BY DEF ChainOK, Bottom
<1> QED
  BY <1>1, <1>2, <1>3 DEF ChainOK

\* The empty chain.
LEMMA EmptyOK == \A key, U, P, B, E, F : ChainOK(<<>>, key, U, P, B, E, F)
<1>1. Len(<<>>) = 0 /\ \A i \in 1..0 : FALSE
  OBVIOUS
<1>2. \A i \in 1..0 - 1 : FALSE
  OBVIOUS
<1> QED
  BY <1>1, <1>2 DEF ChainOK, Bottom

\* The entry on top has been undone.
LEMMA UndoneOK ==
  ASSUME NEW c \in Chains, NEW key, NEW U, NEW P, NEW B, NEW E, NEW F,
         ChainOK(c, key, U, P, B, E, F), Len(c) > 1, NEW d, d = Undo(c, c[2].id)
  PROVE  d \in Chains /\ ChainOK(d, key, U, P \ {c[1].id}, B, E, F)
<1>1. Len(c) \in Nat /\ 1 \in 1..Len(c)
  BY ChainElements
<1>2. /\ d \in Chains
      /\ IF c[2].type = "INVALID" THEN Len(c) = 2 /\ d = <<>>
         ELSE Len(d) = Len(c) - 1 /\ \A i \in 1..Len(c) - 1 : d[i] = c[i + 1]
  BY UndoTop
<1>3. CASE c[2].type = "INVALID"
  BY <1>2, <1>3, EmptyOK
<1>4. CASE c[2].type # "INVALID"
  <2>1. Len(d) = Len(c) - 1 /\ \A i \in 1..Len(d) : d[i] = c[i + 1] /\ i + 1 \in 1..Len(c)
    BY <1>1, <1>2, <1>4
  <2>2. \A i \in 1..Len(d) - 1 : /\ i \in 1..Len(d) /\ i + 1 \in 1..Len(d)
                                 /\ i + 1 \in 1..Len(c) - 1 /\ i + 1 # 1
    BY <1>1, <2>1
  <2>3. ASSUME NEW i \in 1..Len(d) - 1 PROVE Covering(d, key, i, U, P \ {c[1].id}, F)
    <3>1. d[i] = c[i + 1] /\ d[i + 1] = c[i + 1 + 1] /\ c[i + 1].id # c[1].id
      BY <1>1, <2>1, <2>2 DEF ChainOK
    <3>2. Covering(c, key, i + 1, U, P, F)
      BY <2>2 DEF ChainOK
    <3> QED
      BY <3>1, <3>2 DEF Covering
  <2>4. ASSUME NEW i \in 1..Len(d), NEW j \in 1..Len(d), d[i].id = d[j].id PROVE i = j
    <3>1. i + 1 = j + 1
      BY <2>1, <2>4 DEF ChainOK
    <3> QED
      BY <3>1
  <2>5. ASSUME NEW i \in 1..Len(d) - 1, NEW j \in 1..Len(d) - 1, i < j PROVE Older(d[j].id, d[i].id, B)
    <3>1. i + 1 < j + 1
      BY <2>5
    <3>2. Older(c[j + 1].id, c[i + 1].id, B)
      BY <2>2, <3>1 DEF ChainOK
    <3> QED
      BY <2>1, <2>2, <3>2
  <2>6. Bottom(d, E)
    <3>1. Len(d) \in 1..Len(d) /\ Len(d) + 1 = Len(c) /\ c # <<>>
      BY <1>1, <2>1, ChainElements
    <3>2. d[Len(d)] = c[Len(c)]
      BY <2>1, <3>1
    <3>3. \A m, n \in Nat : n > 1 /\ m = n - 1 => m > 1 \/ (m = 1 /\ n = 2)
      OBVIOUS
    <3>4. Len(d) > 1 \/ d[Len(d)].type # "INVALID"
      <4>1. Len(d) > 1 \/ Len(c) = 2
        BY <1>1, <1>2, <2>1, <3>3, ChainElements
      <4> QED
        BY <1>4, <3>2, <4>1
    <3> QED
      BY <3>1, <3>2, <3>4 DEF ChainOK, Bottom
  <2> QED
    BY <1>2, <2>3, <2>4, <2>5, <2>6 DEF ChainOK
<1> QED
  BY <1>3, <1>4

\* The last entry has been cleaned up.
LEMMA CleanedOK ==
  ASSUME NEW c \in Chains, NEW key, NEW U, NEW P, NEW B, NEW E, NEW F,
         ChainOK(c, key, U, P, B, E, F), Len(c) > 1, NEW d, d = CleanupEntry(c, c[Len(c)].id),
         c[Len(c) - 1].id \in E \X Nat
  PROVE  d \in Chains /\ ChainOK(d, key, U, P \ {c[Len(c) - 1].id}, B, E, F)
<1>1. Len(c) \in Nat /\ Len(c) - 1 \in 1..Len(c) - 1 /\ Len(c) - 1 \in 1..Len(c)
  BY ChainElements
<1>2. /\ d \in Chains
      /\ IF Deleted(c[Len(c) - 1]) /\ Len(c) = 2 THEN d = <<>>
         ELSE Len(d) = Len(c) - 1 /\ \A i \in 1..Len(c) - 1 : d[i] = c[i]
  BY CleanupLast
<1>3. CASE d = <<>>
  BY <1>2, <1>3, EmptyOK
<1>4. CASE d # <<>>
  <2>1. Len(d) = Len(c) - 1 /\ \A i \in 1..Len(d) : d[i] = c[i] /\ i \in 1..Len(c)
    BY <1>1, <1>2, <1>4
  <2>2. \A i \in 1..Len(d) - 1 : /\ i \in 1..Len(d) /\ i + 1 \in 1..Len(d)
                                 /\ i \in 1..Len(c) - 1 /\ i # Len(c) - 1
    BY <1>1, <2>1
  <2>3. ASSUME NEW i \in 1..Len(d) - 1 PROVE Covering(d, key, i, U, P \ {c[Len(c) - 1].id}, F)
    <3>1. d[i] = c[i] /\ d[i + 1] = c[i + 1] /\ c[i].id # c[Len(c) - 1].id
      BY <1>1, <2>1, <2>2 DEF ChainOK
    <3>2. Covering(c, key, i, U, P, F)
      BY <2>2 DEF ChainOK
    <3> QED
      BY <3>1, <3>2 DEF Covering
  <2>4. \A i, j \in 1..Len(d) : d[i].id = d[j].id => i = j
    BY <2>1 DEF ChainOK
  <2>5. \A i, j \in 1..Len(d) - 1 : i < j => Older(d[j].id, d[i].id, B)
    BY <2>1, <2>2 DEF ChainOK
  <2>6. Bottom(d, E)
    <3>1. d[Len(d)] = c[Len(c) - 1]
      BY <1>1, <2>1
    <3>2. c[Len(c) - 1].type # "INVALID"
      BY <1>1 DEF ChainOK, Covering
    <3> QED
      BY <3>1, <3>2 DEF Bottom
  <2> QED
    BY <1>2, <2>3, <2>4, <2>5, <2>6 DEF ChainOK
<1> QED
  BY <1>3, <1>4

\* Only timestamps differ, and not that of the last entry.
Restamped(d, c) ==
    /\ Len(d) = Len(c)
    /\ \A i \in 1..Len(c) : d[i].id = c[i].id /\ d[i].type = c[i].type
    /\ d[Len(c)].timestamp = c[Len(c)].timestamp

\* Once more.
LEMMA RestampedAgain ==
  ASSUME NEW c, NEW d, NEW e, Restamped(d, c), Restamped(e, d)
  PROVE  Restamped(e, c)
  BY DEF Restamped

\* The entry at n of an ordered chain gets another timestamp.
Stamps_(d, c, n, timestamp, key, U, P, B, E, F, G) ==
    /\ c \in Chains /\ ChainOK(c, key, U, P, B, E, F) /\ n \in 1..Len(c) - 1 /\ timestamp \in Nat
    /\ d = UpdateTimestamp(c, c[n + 1].id, timestamp)
    /\ \A p \in P : G[p] = IF p = c[n].id THEN timestamp ELSE F[p]

\* That leaves it in order.
LEMMA StampedOK ==
  ASSUME NEW c, NEW d, NEW n, NEW timestamp, NEW key, NEW U, NEW P, NEW B, NEW E, NEW F, NEW G,
         Stamps_(d, c, n, timestamp, key, U, P, B, E, F, G)
  PROVE  d \in Chains /\ ChainOK(d, key, U, P, B, E, G) /\ Restamped(d, c)
<1>0. /\ c \in Chains /\ ChainOK(c, key, U, P, B, E, F) /\ n \in 1..Len(c) - 1 /\ timestamp \in Nat
      /\ d = UpdateTimestamp(c, c[n + 1].id, timestamp)
      /\ \A p \in P : G[p] = IF p = c[n].id THEN timestamp ELSE F[p]
  BY DEF Stamps_
<1>1. \A i, j \in 1..Len(c) : c[i].id = c[j].id => i = j
  BY <1>0 DEF ChainOK
<1>2. /\ d \in Chains /\ Len(d) = Len(c)
      /\ \A i \in 1..Len(c) : /\ i # n => d[i] = c[i]
                              /\ d[i].id = c[i].id /\ d[i].type = c[i].type
      /\ d[n].timestamp = timestamp
  BY <1>0, <1>1, TimestampUpdated
<1>3. Len(c) \in Nat /\ \A i \in 1..Len(c) - 1 : i \in 1..Len(c) /\ i + 1 \in 1..Len(c)
  BY <1>0, ChainElements
<1>4. ASSUME NEW i \in 1..Len(d) - 1 PROVE Covering(d, key, i, U, P, G)
  <2>1. i \in 1..Len(c) - 1 /\ i \in 1..Len(c) /\ i + 1 \in 1..Len(c) /\ n \in 1..Len(c)
    BY <1>0, <1>2, <1>3
  <2>2. Covering(c, key, i, U, P, F)
    BY <1>0, <2>1 DEF ChainOK
  <2>3. d[i].id = c[i].id /\ d[i].type = c[i].type /\ d[i + 1].id = c[i + 1].id
    BY <1>2, <2>1
  <2>4. d[i].timestamp = G[c[i].id]
    <3>1. c[i].id \in P /\ c[i].timestamp = F[c[i].id]
      BY <2>2 DEF Covering
    <3>2. CASE i = n
      BY <1>0, <1>2, <3>1, <3>2
    <3>3. CASE i # n
      <4>1. c[i].id # c[n].id
        BY <1>1, <2>1, <3>3
      <4> QED
        BY <1>0, <1>2, <2>1, <3>1, <3>3, <4>1
    <3> QED
      BY <3>2, <3>3
  <2> QED
    BY <2>2, <2>3, <2>4 DEF Covering
<1>5. \A i, j \in 1..Len(d) : d[i].id = d[j].id => i = j
  BY <1>1, <1>2
<1>6. \A i, j \in 1..Len(d) - 1 : i < j => Older(d[j].id, d[i].id, B)
  BY <1>0, <1>2, <1>3 DEF ChainOK
<1>7. Bottom(d, E)
  <2>1. d # <<>> => Len(c) \in 1..Len(c) /\ c # <<>>
    BY <1>0, <1>2, ChainElements
  <2> QED
    BY <1>0, <1>2, <2>1 DEF ChainOK, Bottom
<1>8. Restamped(d, c)
  <2>1. Len(c) \in 1..Len(c) /\ Len(c) # n
    BY <1>0, <1>3
  <2> QED
    BY <1>2, <2>1 DEF Restamped
<1> QED
  BY <1>2, <1>4, <1>5, <1>6, <1>7, <1>8 DEF ChainOK
-----------------------------------------------------------------------------
(* All the chains, and all the pointers.                                   *)

\* The pending entries of other chains.
Elsewhere(U, P, key) == {p \in P : UndoEntry(U, p).key # key}

\* The pointers of chain d of key.
PointsInto(d, key, V, q) ==
  UndoEntry(V, q).key = key /\ \E i \in 1..Len(d) - 1 : d[i].id = q

\* The keys of the pending entries.
LEMMA PendingKeys ==
  ASSUME NEW U \in [Txn -> Buffers], NEW P, Within(U, P), NEW p \in P
  PROVE  UndoEntry(U, p) \in [key : Key, child : Ids] /\ UndoEntry(U, p).key \in Key
<1>1. p \in Txn \X Nat /\ p[2] \in 1..Len(U[p[1]])
  BY DEF Within
<1>2. U[p[1]] \in Seq([key : Key, child : Ids])
  BY <1>1 DEF Buffers
<1>3. U[p[1]][p[2]] \in [key : Key, child : Ids]
  BY <1>1, <1>2, ElementOfSeq
<1>4. \A r \in [key : Key, child : Ids] : r.key \in Key
  OBVIOUS
<1> QED
  BY <1>3, <1>4 DEF UndoEntry

\* One chain is replaced.
LEMMA WovenUpdate ==
  ASSUME NEW m, NEW U, NEW P, NEW B, NEW E, NEW F, Woven(m, U, P, B, E, F),
         NEW key \in Key, NEW d \in Chains,
         NEW V \in [Txn -> Buffers], NEW Q, NEW C, NEW D, NEW G \in [Txn \X Nat -> Nat],
         ChainOK(d, key, V, Q, C, D, G), Within(V, Q), E \subseteq D,
         Alike(Elsewhere(U, P, key), U, B, F, V, Q, C, G),
         \A q \in Q : q \in Elsewhere(U, P, key) \/ PointsInto(d, key, V, q)
  PROVE  Woven([m EXCEPT ![key] = d], V, Q, C, D, G)
<1> DEFINE w == [m EXCEPT ![key] = d]
           R == Elsewhere(U, P, key)
<1>1. m \in [Key -> Chains] /\ U \in [Txn -> Buffers] /\ Within(U, P)
  BY DEF Woven
<1>2. w \in [Key -> Chains] /\ w[key] = d /\ \A k \in Key : k # key => w[k] = m[k]
  BY <1>1
<1> HIDE DEF w
<1>3. ASSUME NEW k \in Key PROVE ChainOK(w[k], k, V, Q, C, D, G)
  <2>1. CASE k = key
    BY <1>2, <2>1
  <2>2. CASE k # key
    <3>1. m[k] \in Chains /\ ChainOK(m[k], k, U, P, B, E, F)
      BY <1>1 DEF Woven
    <3>2. Covers(m[k], R)
      <4> SUFFICES ASSUME NEW i \in 1..Len(m[k]) - 1 PROVE m[k][i].id \in R
        BY DEF Covers
      <4>1. Covering(m[k], k, i, U, P, F)
        BY <3>1 DEF ChainOK
      <4>2. m[k][i].id \in P /\ UndoEntry(U, m[k][i].id).key = k
        BY <4>1 DEF Covering
      <4> QED
        BY <2>2, <4>2 DEF Elsewhere
    <3> HIDE DEF R
    <3>3. ChainOK(m[k], k, V, Q, C, D, G)
      BY <3>1, <3>2, AlikeOK DEF R
    <3> QED
      BY <1>2, <2>2, <3>3
  <2> QED
    BY <2>1, <2>2
<1>4. ASSUME NEW q \in Q PROVE PointerOK(w, V, q)
  <2>1. CASE q \in R
    <3>1. q \in P /\ UndoEntry(U, q).key # key
      BY <2>1 DEF Elsewhere
    <3>2. UndoEntry(V, q) = UndoEntry(U, q)
      BY <2>1 DEF Alike
    <3>3. PointerOK(m, U, q)
      BY <3>1 DEF Woven
    <3>4. UndoEntry(U, q).key \in Key
      BY <1>1, <3>1, PendingKeys
    <3>5. w[UndoEntry(U, q).key] = m[UndoEntry(U, q).key]
      BY <1>2, <3>1, <3>4
    <3> QED
      BY <3>2, <3>3, <3>5 DEF PointerOK
  <2>2. CASE PointsInto(d, key, V, q)
    BY <1>2, <2>2 DEF PointsInto, PointerOK
  <2> QED
    BY <2>1, <2>2
<1> QED
  BY <1>2, <1>3, <1>4 DEF Woven, w

\* The chains have not changed, and what they look at neither.
LEMMA WovenAlike ==
  ASSUME NEW m, NEW U, NEW P, NEW B, NEW E, NEW F, Woven(m, U, P, B, E, F),
         NEW V \in [Txn -> Buffers], NEW C, NEW D, NEW G \in [Txn \X Nat -> Nat],
         Within(V, P), Alike(P, U, B, F, V, P, C, G), E \subseteq D
  PROVE  Woven(m, V, P, C, D, G)
<1>1. m \in [Key -> Chains]
  BY DEF Woven
<1>2. ASSUME NEW k \in Key PROVE ChainOK(m[k], k, V, P, C, D, G)
  <2>1. m[k] \in Chains /\ ChainOK(m[k], k, U, P, B, E, F)
    BY <1>1 DEF Woven
  <2>2. Covers(m[k], P)
    BY <2>1 DEF Covers, ChainOK, Covering
  <2> QED
    BY <2>1, <2>2, AlikeOK
<1>3. ASSUME NEW q \in P PROVE PointerOK(m, V, q)
  <2>1. UndoEntry(V, q) = UndoEntry(U, q)
    BY DEF Alike
  <2>2. PointerOK(m, U, q)
    BY DEF Woven
  <2> QED
    BY <2>1, <2>2 DEF PointerOK
<1> QED
  BY <1>1, <1>2, <1>3 DEF Woven

\* Where a pending entry is in its chain.
LEMMA PointerPosition ==
  ASSUME NEW m, NEW U, NEW P, NEW B, NEW E, NEW F, Woven(m, U, P, B, E, F), NEW p \in P
  PROVE  /\ UndoEntry(U, p).key \in Key /\ m[UndoEntry(U, p).key] \in Chains
         /\ ChainOK(m[UndoEntry(U, p).key], UndoEntry(U, p).key, U, P, B, E, F)
         /\ \E i \in 1..Len(m[UndoEntry(U, p).key]) - 1 :
               /\ m[UndoEntry(U, p).key][i].id = p
               /\ m[UndoEntry(U, p).key][i + 1].id = UndoEntry(U, p).child
<1> DEFINE key == UndoEntry(U, p).key
<1>1. key \in Key
  BY PendingKeys DEF Woven
<1>2. m[key] \in Chains /\ ChainOK(m[key], key, U, P, B, E, F)
  BY <1>1 DEF Woven
<1>3. PICK i \in 1..Len(m[key]) - 1 : m[key][i].id = p
  BY DEF Woven, PointerOK
<1>4. Covering(m[key], key, i, U, P, F)
  BY <1>2 DEF ChainOK
<1>5. UndoEntry(U, p) = [key |-> key, child |-> m[key][i + 1].id]
  BY <1>3, <1>4 DEF Covering
<1>6. m[key][i + 1].id = UndoEntry(U, p).child
  BY <1>5
<1> QED
  BY <1>1, <1>2, <1>3, <1>6

\* The undo entry at p is the newest one of its chain.
Newest(m, U, P, B, E, F, p, key, child) ==
  /\ Woven(m, U, P, B, E, F) /\ p \in P /\ (\A q \in P : ~ Older(p, q, B))
  /\ key = UndoEntry(U, p).key /\ child = UndoEntry(U, p).child

\* Rollback of the newest entry finds it on top of its chain.
LEMMA WovenUndo ==
  ASSUME NEW m, NEW U, NEW P, NEW B, NEW E, NEW F, NEW p, NEW key, NEW child,
         Newest(m, U, P, B, E, F, p, key, child)
  PROVE  /\ Woven([m EXCEPT ![key] = Undo(m[key], child)], U, P \ {p}, B, E, F)
         /\ key \in Key /\ Len(m[key]) > 1 /\ m[key][1].id = p /\ m[key][2].id = child
         /\ \A W, L : p[1] \notin W => Keeps([m EXCEPT ![key] = Undo(m[key], child)], m, W, L)
<1> DEFINE c == m[key]
           d == Undo(c, child)
           Q == P \ {p}
<1>0. /\ Woven(m, U, P, B, E, F) /\ p \in P /\ (\A q \in P : ~ Older(p, q, B))
      /\ key = UndoEntry(U, p).key /\ child = UndoEntry(U, p).child
  BY DEF Newest
<1>1. /\ key \in Key /\ c \in Chains /\ ChainOK(c, key, U, P, B, E, F)
      /\ \E i \in 1..Len(c) - 1 : c[i].id = p /\ c[i + 1].id = child
  BY <1>0, PointerPosition
<1>2. /\ U \in [Txn -> Buffers] /\ F \in [Txn \X Nat -> Nat] /\ Within(U, P)
  BY <1>0 DEF Woven
<1> HIDE DEF c
<1>3. PICK i \in 1..Len(c) - 1 : c[i].id = p /\ c[i + 1].id = child
  BY <1>1
<1>4. Len(c) \in Nat
  BY <1>1, ChainElements
<1>5. i = 1
  <2> SUFFICES ASSUME i # 1 PROVE FALSE
    OBVIOUS
  <2>1. 1 \in 1..Len(c) - 1 /\ 1 < i
    BY <1>4
  <2>2. Older(c[i].id, c[1].id, B)
    BY <1>1, <2>1 DEF ChainOK
  <2>3. c[1].id \in P
    BY <1>1, <2>1 DEF ChainOK, Covering
  <2> QED
    BY <1>0, <1>3, <2>2, <2>3
<1>6. Len(c) > 1 /\ c[1].id = p /\ c[2].id = child /\ d = Undo(c, c[2].id)
  BY <1>3, <1>4, <1>5
<1>7. d \in Chains /\ ChainOK(d, key, U, Q, B, E, F)
  BY <1>1, <1>6, UndoneOK
<1>8. /\ d \in Chains
      /\ IF c[2].type = "INVALID" THEN Len(c) = 2 /\ d = <<>>
         ELSE Len(d) = Len(c) - 1 /\ \A j \in 1..Len(c) - 1 : d[j] = c[j + 1]
  BY <1>1, <1>6, UndoTop
<1> HIDE DEF d
<1>9. Within(U, Q)
  BY <1>2 DEF Within
<1>10. Alike(Elsewhere(U, P, key), U, B, F, U, Q, B, F)
  BY <1>0 DEF Alike, Elsewhere
<1>11. ASSUME NEW q \in Q, q \notin Elsewhere(U, P, key) PROVE PointsInto(d, key, U, q)
  <2>1. q \in P /\ q # p /\ UndoEntry(U, q).key = key
    BY <1>11 DEF Elsewhere
  <2>2. PICK j \in 1..Len(c) - 1 : c[j].id = q
    BY <1>0, <2>1, PointerPosition DEF c
  <2>7. \A n \in Nat : \A k \in 1..n - 1 : k # 1 => n # 2
    OBVIOUS
  <2>8. j # 1
    BY <1>6, <2>1, <2>2
  <2>3. j # 1 /\ Len(c) # 2
    BY <1>4, <2>7, <2>8
  <2>4. j - 1 \in 1..Len(c) - 1 /\ (j - 1) + 1 = j
    BY <1>4, <2>2, <2>3
  <2>5. Len(d) = Len(c) - 1 /\ d[j - 1] = c[j]
    BY <1>8, <2>3, <2>4
  <2>6. j - 1 \in 1..Len(d) - 1
    BY <1>4, <2>2, <2>3, <2>5
  <2> QED
    BY <2>1, <2>2, <2>5, <2>6 DEF PointsInto
<1>12. Woven([m EXCEPT ![key] = d], U, Q, B, E, F)
  BY <1>0, <1>1, <1>2, <1>7, <1>9, <1>10, <1>11, WovenUpdate
<1>13. ASSUME NEW W, NEW L, p[1] \notin W PROVE Keeps([m EXCEPT ![key] = d], m, W, L)
  <2>1. c[1].id[1] \notin W
    BY <1>6, <1>13
  <2>2. SeenIn(d, W) = SeenIn(c, W) /\ (Low(c, L) => Low(d, L))
    BY <1>1, <1>6, <2>1, SeenUndone
  <2>3. m \in [Key -> Chains]
    BY <1>0 DEF Woven
  <2> QED
    BY <1>1, <2>2, <2>3, KeepsOne DEF c
<1> QED
  BY <1>1, <1>6, <1>12, <1>13 DEF c, d

\* The undo entry at p is the oldest one, and belongs to a transaction that has ended.
Oldest(m, U, P, B, E, F, p, key, child) ==
  /\ Woven(m, U, P, B, E, F) /\ p \in P /\ (\A q \in P : ~ Older(q, p, B)) /\ p[1] \in E
  /\ key = UndoEntry(U, p).key /\ child = UndoEntry(U, p).child

\* Cleanup of the oldest entry finds it, and what it covers is the last of its chain.
LEMMA WovenCleanup ==
  ASSUME NEW m, NEW U, NEW P, NEW B, NEW E, NEW F, NEW p, NEW key, NEW child,
         Oldest(m, U, P, B, E, F, p, key, child)
  PROVE  /\ Woven([m EXCEPT ![key] = CleanupEntry(m[key], child)], U, P \ {p}, B, E, F)
         /\ key \in Key /\ Len(m[key]) > 1
         /\ m[key][Len(m[key]) - 1].id = p /\ m[key][Len(m[key])].id = child
         /\ \A W, L : p[1] \in W /\ Beyond(L, F[p]) =>
                Keeps([m EXCEPT ![key] = CleanupEntry(m[key], child)], m, W, L)
<1> DEFINE c == m[key]
           d == CleanupEntry(c, child)
           Q == P \ {p}
<1>0. /\ Woven(m, U, P, B, E, F) /\ p \in P /\ (\A q \in P : ~ Older(q, p, B)) /\ p[1] \in E
      /\ key = UndoEntry(U, p).key /\ child = UndoEntry(U, p).child
  BY DEF Oldest
<1>1. /\ key \in Key /\ c \in Chains /\ ChainOK(c, key, U, P, B, E, F)
      /\ \E i \in 1..Len(c) - 1 : c[i].id = p /\ c[i + 1].id = child
  BY <1>0, PointerPosition
<1>2. /\ U \in [Txn -> Buffers] /\ F \in [Txn \X Nat -> Nat] /\ Within(U, P)
  BY <1>0 DEF Woven
<1> HIDE DEF c
<1>3. PICK i \in 1..Len(c) - 1 : c[i].id = p /\ c[i + 1].id = child
  BY <1>1
<1>4. Len(c) \in Nat
  BY <1>1, ChainElements
<1>5. i = Len(c) - 1
  <2> SUFFICES ASSUME i # Len(c) - 1 PROVE FALSE
    OBVIOUS
  <2>1. i + 1 \in 1..Len(c) - 1 /\ i < i + 1
    BY <1>4
  <2>2. Older(c[i + 1].id, c[i].id, B)
    BY <1>1, <2>1 DEF ChainOK
  <2>3. c[i + 1].id \in P
    BY <1>1, <2>1 DEF ChainOK, Covering
  <2> QED
    BY <1>0, <1>3, <2>2, <2>3
<1>6. /\ Len(c) > 1 /\ c[Len(c) - 1].id = p /\ c[Len(c)].id = child
      /\ d = CleanupEntry(c, c[Len(c)].id)
  BY <1>3, <1>4, <1>5
<1>7. p \in E \X Nat
  BY <1>0, <1>2 DEF Within
<1>8. d \in Chains /\ ChainOK(d, key, U, Q, B, E, F)
  BY <1>1, <1>6, <1>7, CleanedOK
<1>9. /\ d \in Chains
      /\ IF Deleted(c[Len(c) - 1]) /\ Len(c) = 2 THEN d = <<>>
         ELSE Len(d) = Len(c) - 1 /\ \A j \in 1..Len(c) - 1 : d[j] = c[j]
  BY <1>1, <1>6, CleanupLast
<1> HIDE DEF d
<1>10. Within(U, Q)
  BY <1>2 DEF Within
<1>11. Alike(Elsewhere(U, P, key), U, B, F, U, Q, B, F)
  BY <1>0 DEF Alike, Elsewhere
<1>12. ASSUME NEW q \in Q, q \notin Elsewhere(U, P, key) PROVE PointsInto(d, key, U, q)
  <2>1. q \in P /\ q # p /\ UndoEntry(U, q).key = key
    BY <1>12 DEF Elsewhere
  <2>2. PICK j \in 1..Len(c) - 1 : c[j].id = q
    BY <1>0, <2>1, PointerPosition DEF c
  <2>3. j # Len(c) - 1
    BY <1>6, <2>1, <2>2
  <2>7. \A n \in Nat : \A k \in 1..n - 1 : k # n - 1 => n # 2 /\ k \in 1..n - 1 - 1
    OBVIOUS
  <2>4. Len(c) # 2 /\ j \in 1..Len(c) - 1 - 1
    BY <1>4, <2>2, <2>3, <2>7
  <2>5. Len(d) = Len(c) - 1 /\ d[j] = c[j]
    BY <1>9, <2>4
  <2> QED
    BY <2>1, <2>2, <2>4, <2>5 DEF PointsInto
<1>13. Woven([m EXCEPT ![key] = d], U, Q, B, E, F)
  BY <1>0, <1>1, <1>2, <1>8, <1>10, <1>11, <1>12, WovenUpdate
<1>14. ASSUME NEW W, NEW L, p[1] \in W, Beyond(L, F[p]) PROVE Keeps([m EXCEPT ![key] = d], m, W, L)
  <2>1. Covering(c, key, Len(c) - 1, U, P, F)
    BY <1>1, <1>3, <1>5 DEF ChainOK
  <2>2. c[Len(c) - 1].id[1] \in W /\ Beyond(L, c[Len(c) - 1].timestamp)
    BY <1>6, <1>14, <2>1 DEF Covering
  <2>3. SeenIn(d, W) = SeenIn(c, W) /\ Low(d, L)
    BY <1>1, <1>6, <2>2, SeenCleaned
  <2>4. m \in [Key -> Chains]
    BY <1>0 DEF Woven
  <2> QED
    BY <1>1, <2>3, <2>4, KeepsOne DEF c
<1> QED
  BY <1>1, <1>6, <1>13, <1>14 DEF c, d

\* The timestamp of an entry is set, at commit or when a commit is reverted.
LEMMA WovenStamp ==
  ASSUME NEW m, NEW U, NEW P, NEW B, NEW E, NEW F, Woven(m, U, P, B, E, F), NEW p \in P,
         NEW timestamp \in Nat
  PROVE  /\ Woven(Stamp(m, UndoEntry(U, p), timestamp), U, P, B, E, [F EXCEPT ![p] = timestamp])
         /\ \A k \in Key : Restamped(Stamp(m, UndoEntry(U, p), timestamp)[k], m[k])
<1> DEFINE key == UndoEntry(U, p).key
           child == UndoEntry(U, p).child
           c == m[key]
           d == UpdateTimestamp(c, child, timestamp)
           G == [F EXCEPT ![p] = timestamp]
<1>1. /\ key \in Key /\ c \in Chains /\ ChainOK(c, key, U, P, B, E, F)
      /\ \E i \in 1..Len(c) - 1 : c[i].id = p /\ c[i + 1].id = child
  BY PointerPosition
<1>2. /\ U \in [Txn -> Buffers] /\ F \in [Txn \X Nat -> Nat] /\ Within(U, P)
  BY DEF Woven
<1>3. Stamp(m, UndoEntry(U, p), timestamp) = [m EXCEPT ![key] = d]
  BY DEF Stamp
<1> HIDE DEF c, child
<1>4. PICK i \in 1..Len(c) - 1 : c[i].id = p /\ c[i + 1].id = child
  BY <1>1
<1>5. G \in [Txn \X Nat -> Nat] /\ \A q \in P : G[q] = IF q = p THEN timestamp ELSE F[q]
  BY <1>2 DEF Within
<1> HIDE DEF G
<1>6. d = UpdateTimestamp(c, c[i + 1].id, timestamp) /\ \A q \in P : G[q] = IF q = c[i].id THEN timestamp ELSE F[q]
  BY <1>4, <1>5
<1>7. d \in Chains /\ ChainOK(d, key, U, P, B, E, G) /\ Restamped(d, c)
  <2> HIDE DEF d, key
  <2>1. Stamps_(d, c, i, timestamp, key, U, P, B, E, F, G)
    BY <1>1, <1>4, <1>6 DEF Stamps_
  <2> QED
    BY <2>1, StampedOK
<1> HIDE DEF d
<1>8. Alike(Elsewhere(U, P, key), U, B, F, U, P, B, G)
  BY <1>5 DEF Alike, Elsewhere
<1>9. ASSUME NEW q \in P, q \notin Elsewhere(U, P, key) PROVE PointsInto(d, key, U, q)
  <2>1. UndoEntry(U, q).key = key
    BY <1>9 DEF Elsewhere
  <2>2. PICK j \in 1..Len(c) - 1 : c[j].id = q
    BY <2>1, PointerPosition DEF c
  <2>3. j \in 1..Len(c) /\ Len(c) \in Nat
    BY <1>1, <2>2, ChainElements
  <2>4. Len(d) = Len(c) /\ \A k \in 1..Len(c) : d[k].id = c[k].id
    BY <1>7 DEF Restamped
  <2> QED
    BY <1>4, <2>1, <2>2, <2>3, <2>4 DEF PointsInto
<1> HIDE DEF key
<1>10. Woven([m EXCEPT ![key] = d], U, P, B, E, G)
  BY <1>1, <1>2, <1>5, <1>7, <1>8, <1>9, WovenUpdate
<1>11. \A k \in Key : Restamped([m EXCEPT ![key] = d][k], m[k])
  <2>1. \A k \in Key : Restamped(m[k], m[k])
    BY DEF Restamped
  <2>2. DOMAIN m = Key
    BY DEF Woven
  <2> QED
    BY <1>7, <2>1, <2>2 DEF c
<1> QED
  BY <1>3, <1>10, <1>11 DEF G

\* The address of the next entry of t.
NextId(U, t) == <<t, Len(U[t]) + 1>>

\* What is older than an entry that is older than p is older than p.
OlderThrough(P, p, B) == \A q, r \in P : Older(q, r, B) /\ Older(r, p, B) => Older(q, p, B)

\* An operation of t puts an entry on top, if what is there is older.
LEMMA WovenPut ==
  ASSUME NEW m, NEW U, NEW P, NEW B, NEW E, NEW F, Woven(m, U, P, B, E, F),
         NEW t \in Txn, t \notin E, NEW key \in Key, NEW p, p = NextId(U, t),
         NEW e \in Entries, e.id = p, e.timestamp = F[p], e.type # "INVALID",
         Len(m[key]) > 1 => Older(m[key][1].id, p, B), OlderThrough(P, p, B),
         NEW d, d = UpdateEntry(m[key], e), NEW u, u = [key |-> key, child |-> d[2].id]
  PROVE  /\ Woven([m EXCEPT ![key] = d], [U EXCEPT ![t] = Append(U[t], u)], P \cup {p}, B, E, F)
         /\ p \notin P /\ u \in [key : Key, child : Ids]
<1> DEFINE c == m[key]
           V == [U EXCEPT ![t] = Append(U[t], u)]
           Q == P \cup {p}
<1>1. /\ c \in Chains /\ ChainOK(c, key, U, P, B, E, F)
      /\ U \in [Txn -> Buffers] /\ F \in [Txn \X Nat -> Nat] /\ Within(U, P)
  BY DEF Woven
<1> HIDE DEF c
<1>2. Pushed(d, c, e) /\ d \in Chains
  BY <1>1, UpdateEntryPushes DEF Pushed, c
<1>3. Len(c) \in Nat /\ (c = <<>> <=> Len(c) = 0) /\ Len(d) \in Nat /\ Len(d) > 1
      /\ \A i \in 1..Len(d) : d[i] \in Entries
  <2>1. Len(c) \in Nat /\ (c = <<>> <=> Len(c) = 0) /\ Len(d) \in Nat /\ \A i \in 1..Len(d) : d[i] \in Entries
    BY <1>1, <1>2, ChainElements
  <2>2. \A n \in Nat : n # 0 => n + 1 > 1
    OBVIOUS
  <2> QED
    BY <1>2, <2>1, <2>2 DEF Pushed
<1>4. d[2].id \in Ids
  BY <1>3 DEF Entries
<1>5. u \in [key : Key, child : Ids]
  BY <1>4
<1>6. U[t] \in Seq([key : Key, child : Ids]) /\ Len(U[t]) \in Nat
  BY <1>1, LenProperties DEF Buffers
<1>7. /\ Append(U[t], u) \in Seq([key : Key, child : Ids])
      /\ Len(Append(U[t], u)) = Len(U[t]) + 1
      /\ \A i \in 1..Len(U[t]) : Append(U[t], u)[i] = U[t][i]
      /\ Append(U[t], u)[Len(U[t]) + 1] = u
  BY <1>5, <1>6, AppendProperties
<1>8. /\ V \in [Txn -> Buffers] /\ V[t] = Append(U[t], u) /\ \A x \in Txn : x # t => V[x] = U[x]
  BY <1>1, <1>7 DEF Buffers
<1> HIDE DEF V
<1>9. p \in Txn \X Nat /\ p[1] = t /\ p[2] = Len(U[t]) + 1
  BY <1>6 DEF NextId
<1>10. p \notin P
  BY <1>1, <1>6, <1>9 DEF Within
<1>11. ASSUME NEW q \in P PROVE UndoEntry(V, q) = UndoEntry(U, q) /\ q \in Txn \X Nat /\ q[2] \in 1..Len(V[q[1]])
  <2>1. q \in Txn \X Nat /\ q[2] \in 1..Len(U[q[1]])
    BY <1>1 DEF Within
  <2>2. CASE q[1] = t
    BY <1>6, <1>7, <1>8, <2>1, <2>2 DEF UndoEntry
  <2>3. CASE q[1] # t
    BY <1>8, <2>1, <2>3 DEF UndoEntry
  <2> QED
    BY <2>2, <2>3
<1>12. UndoEntry(V, p) = u /\ p[2] \in 1..Len(V[p[1]])
  BY <1>6, <1>7, <1>8, <1>9 DEF UndoEntry
<1>13. Within(V, Q)
  BY <1>9, <1>11, <1>12 DEF Within
<1>14. SameUndo(U, V, P)
  BY <1>11 DEF SameUndo
<1>15. p \notin BottomIds(E)
  <2>1. p # <<>> /\ p # <<"initial">>
    BY <1>6 DEF NextId
  <2> QED
    BY <1>9, <2>1 DEF BottomIds
<1>16. \A i \in 1..Len(c) - 1 : Older(c[i].id, e.id, B)
  <2> SUFFICES ASSUME NEW i \in 1..Len(c) - 1 PROVE Older(c[i].id, p, B)
    OBVIOUS
  <2>1. \A n \in Nat : \A k \in 1..n - 1 : n > 1 /\ 1 \in 1..n - 1 /\ (k = 1 \/ 1 < k)
    OBVIOUS
  <2>2. Len(c) > 1 /\ 1 \in 1..Len(c) - 1 /\ (i = 1 \/ 1 < i)
    BY <1>3, <2>1
  <2>3. Older(c[1].id, p, B)
    BY <2>2 DEF c
  <2>4. CASE i = 1
    BY <2>3, <2>4
  <2>5. CASE 1 < i
    <3>1. Older(c[i].id, c[1].id, B)
      BY <1>1, <2>2, <2>5 DEF ChainOK
    <3>2. c[i].id \in P /\ c[1].id \in P
      BY <1>1, <2>2 DEF ChainOK, Covering
    <3> QED
      BY <2>3, <3>1, <3>2 DEF OlderThrough
  <2> QED
    BY <2>2, <2>4, <2>5
<1>17. ChainOK(d, key, V, Q, B, E, F)
  <2>1. P \subseteq Q /\ e.id \in Q /\ e.id \notin P /\ e.id \notin BottomIds(E)
        /\ UndoEntry(V, e.id) = [key |-> key, child |-> d[2].id] /\ e.timestamp = F[e.id]
    BY <1>10, <1>12, <1>15
  <2> HIDE DEF Q
  <2> QED
    BY <1>1, <1>2, <1>14, <1>16, <2>1, PushedOK
<1>18. Alike(Elsewhere(U, P, key), U, B, F, V, Q, B, F)
  BY <1>11 DEF Alike, Elsewhere
<1>19. ASSUME NEW q \in Q, q \notin Elsewhere(U, P, key) PROVE PointsInto(d, key, V, q)
  <2>1. CASE q = p
    <3>1. 1 \in 1..Len(d) - 1 /\ d[1].id = p
      BY <1>2, <1>3 DEF Pushed
    <3> QED
      BY <1>12, <2>1, <3>1 DEF PointsInto
  <2>2. CASE q # p
    <3>1. q \in P /\ UndoEntry(U, q).key = key
      BY <1>19, <2>2 DEF Elsewhere
    <3>2. PICK j \in 1..Len(c) - 1 : c[j].id = q
      BY <3>1, PointerPosition DEF c
    <3>3. c # <<>> /\ j \in 1..Len(c) /\ j + 1 \in 1..(Len(c) + 1) - 1
      BY <1>3, <3>2
    <3>4. Len(d) = Len(c) + 1 /\ d[j + 1] = c[j]
      BY <1>2, <3>3 DEF Pushed
    <3>5. UndoEntry(V, q).key = key
      BY <1>11, <3>1
    <3> QED
      BY <3>2, <3>3, <3>4, <3>5 DEF PointsInto
  <2> QED
    BY <2>1, <2>2
<1> HIDE DEF Q
<1>20. Woven([m EXCEPT ![key] = d], V, Q, B, E, F)
  BY <1>1, <1>2, <1>8, <1>13, <1>17, <1>18, <1>19, WovenUpdate
<1> QED
  BY <1>5, <1>10, <1>20 DEF V, Q
-----------------------------------------------------------------------------
(* The statements.                                                         *)

\* What an operation on the sets returns.
Statuses == {"ok", "conflict", "missing", "exists"}

\* The undo buffers when t has got the buffer b.
BufferOf(t, b) == [undo EXCEPT ![t] = b]

\* t may put an entry on this chain.
Clear(c, t) == c # <<>> => ~ HasConflict(Data(t), c[1].timestamp)

\* The newest entry of the chain is one of t.
OnTop(c, t) == c # <<>> /\ c[1].timestamp = transaction_id[t]

\* The keys of the entries of an undo buffer.
KeysIn(b) == {b[n].key : n \in DOMAIN b}

\* The operation of t has put entries on the chains of K, on top of which there was
\* no conflict; who does not see t sees no difference.
Grows(m, b, t, K) ==
  /\ K \subseteq Key
  /\ KeysIn(b) = KeysIn(undo[t]) \cup K
  /\ \A key \in Key \ K : m[key] = map[key]
  /\ \A key \in K : Clear(map[key], t)
  /\ \A W, L : t \notin W /\ Beyond(L, 0) => Keeps(m, map, W, L)

\* The sets as a statement of t leaves them are woven like those of a state.
SetsOK(sets, t) ==
  /\ sets \in [map : [Key -> Chains], undo : Buffers, status : Statuses]
  /\ Woven(sets.map, BufferOf(t, sets.undo), PendingIds(BufferOf(t, sets.undo)), Before, Ended, Stamps)
  /\ \E K : Grows(sets.map, sets.undo, t, K)

\* A transaction that is active and its clock.
LEMMA ActiveFacts ==
  ASSUME CInv, NEW t \in Txn, phase[t] = "active"
  PROVE  /\ t \in Running /\ t \notin Ended /\ phase[t] # "rolling_back" /\ transaction_lock # t
         /\ transaction_id[t] \in Nat /\ start_time[t] \in Nat
         /\ TRANSACTION_ID_START <= transaction_id[t]
         /\ start_time[t] < current_start_timestamp
         /\ current_start_timestamp \in Nat /\ current_start_timestamp <= TRANSACTION_ID_START
<1>1. t \in Running /\ t \notin Ended
  BY DEF Running, Ended
<1> QED
  BY <1>1 DEF CInv, Types, Locked, Clocks

\* Without a conflict the entry on top is older than what t puts there.
LEMMA HeadIsOlder ==
  ASSUME CInv, NEW t \in Txn, phase[t] = "active", NEW sets, SetsOK(sets, t), NEW key \in Key,
         Len(sets.map[key]) > 1, ~ HasConflict(Data(t), sets.map[key][1].timestamp)
  PROVE  Older(sets.map[key][1].id, NextId(BufferOf(t, sets.undo), t), Before)
<1> DEFINE c == sets.map[key]
           V == BufferOf(t, sets.undo)
           q == c[1].id
           u == q[1]
<1> SUFFICES Older(q, NextId(V, t), Before)
  OBVIOUS
<1>1. /\ c \in Chains /\ ChainOK(c, key, V, PendingIds(V), Before, Ended, Stamps)
  BY DEF SetsOK, Woven
<1>2. sets.undo \in Buffers /\ undo \in [Txn -> Buffers]
  BY DEF SetsOK, CInv, Types
<1>3. V[t] = sets.undo /\ \A x \in Txn : x # t => V[x] = undo[x]
  BY <1>2 DEF BufferOf
<1> HIDE DEF V
<1>4. 1 \in 1..Len(c) - 1
  BY <1>1, ChainElements
<1> HIDE DEF c
<1>5. q \in PendingIds(V) /\ c[1].timestamp = Stamps[q]
  BY <1>1, <1>4 DEF ChainOK, Covering
<1>6. q \in Txn \X Nat /\ q[2] \in 1..UndoUpTo(V, u) /\ u \in Txn /\ q[2] \in Nat
  BY <1>5 DEF PendingIds
<1>7. Stamps[q] = StampOf(q)
  BY <1>6 DEF Stamps
<1> HIDE DEF q, u
<1>8. NextId(V, t)[1] = t /\ NextId(V, t)[2] = Len(V[t]) + 1
  BY DEF NextId
<1>9. CASE u = t
  <2>1. UndoUpTo(V, u) = Len(V[t])
    BY <1>9 DEF UndoUpTo
  <2>2. Len(V[t]) \in Nat
    BY <1>2, <1>3, LenProperties DEF Buffers
  <2>3. q[2] < Len(V[t]) + 1
    BY <1>6, <2>1, <2>2
  <2> QED
    BY <1>8, <1>9, <2>3 DEF Older, u
<1>10. CASE u # t
  <2>1. ~ (StampOf(q) >= TRANSACTION_ID_START /\ StampOf(q) # transaction_id[t])
        /\ ~ (StampOf(q) < TRANSACTION_ID_START /\ StampOf(q) > start_time[t])
    BY <1>5, <1>7 DEF HasConflict, Data, c
  <2>2. undo[u] # <<>> \/ phase[u] = "rolling_back"
    <3>1. CASE phase[u] # "rolling_back"
      <4>1. q[2] \in 1..Len(undo[u])
        BY <1>3, <1>6, <1>10, <3>1 DEF UndoUpTo
      <4>2. undo[u] = <<>> => Len(undo[u]) = 0
        OBVIOUS
      <4> QED
        BY <4>1, <4>2
    <3> QED
      BY <3>1
  <2>3. transaction_id[u] \in Nat /\ commit_id[u] \in Nat /\ commit_id[u] < current_start_timestamp
    BY <1>6 DEF CInv, Types, Clocks
  <2>4. CASE phase[u] = "ended"
    <3>1. StampOf(q) = commit_id[u]
      BY <2>4 DEF StampOf, u
    <3>2. PICK i \in DOMAIN recently_committed : recently_committed[i] = u
      BY <1>6, <2>2, <2>4 DEF CInv, Recent, Ended
    <3>3. commit_id[u] # start_time[t]
      BY <3>2, ActiveFacts DEF CInv, Recent
    <3>4. commit_id[u] < start_time[t]
      BY <2>1, <2>3, <3>1, <3>3, ActiveFacts, CatalogConstants
    <3>5. <<u, t>> \in Before
      BY <1>6, <2>4, <3>4 DEF Before
    <3> QED
      BY <1>8, <1>10, <3>5 DEF Older, u
  <2>5. CASE phase[u] = "committing" /\ q[2] <= at
    <3>1. StampOf(q) = commit_id[u]
      BY <2>5 DEF StampOf, u
    <3>2. start_time[t] < commit_id[u]
      BY <1>6, <2>5 DEF CInv, Clocks
    <3> QED
      BY <2>1, <2>3, <3>1, <3>2, ActiveFacts, CatalogConstants
  <2>6. CASE phase[u] # "ended" /\ ~ (phase[u] = "committing" /\ q[2] <= at)
    <3>1. StampOf(q) = transaction_id[u]
      BY <2>6 DEF StampOf, u
    <3>2. u \in Running
      BY <1>6, <2>2, <2>6 DEF CInv, Recent, Running
    <3>3. TRANSACTION_ID_START <= transaction_id[u] /\ transaction_id[u] # transaction_id[t]
      BY <1>10, <3>2, ActiveFacts DEF CInv, Clocks
    <3> QED
      BY <2>1, <2>3, <3>1, <3>3, CatalogConstants
  <2> QED
    BY <2>4, <2>5, <2>6
<1> QED
  BY <1>9, <1>10

\* Transactions that ended before others began are older than they.
LEMMA OlderThroughState ==
  ASSUME CInv, NEW t \in Txn, phase[t] = "active", NEW sets, SetsOK(sets, t)
  PROVE  OlderThrough(PendingIds(BufferOf(t, sets.undo)), NextId(BufferOf(t, sets.undo), t), Before)
<1> DEFINE V == BufferOf(t, sets.undo)
           p == NextId(V, t)
<1>1. sets.undo \in Buffers /\ undo \in [Txn -> Buffers]
  BY DEF SetsOK, CInv, Types
<1>2. V[t] = sets.undo /\ \A x \in Txn : x # t => V[x] = undo[x]
  BY <1>1 DEF BufferOf
<1> HIDE DEF V
<1>3. p[1] = t /\ p[2] = Len(V[t]) + 1 /\ Len(V[t]) \in Nat
  BY <1>1, <1>2, LenProperties DEF NextId, Buffers
<1> HIDE DEF p
<1> SUFFICES ASSUME NEW q \in PendingIds(V), NEW r \in PendingIds(V), Older(q, r, Before), Older(r, p, Before)
             PROVE  Older(q, p, Before)
  BY DEF OlderThrough, p, V
<1>4. /\ q[1] \in Txn /\ r[1] \in Txn /\ q[2] \in Nat /\ r[2] \in Nat
      /\ r[2] \in 1..UndoUpTo(V, r[1])
  BY DEF PendingIds
<1>5. ASSUME NEW x \in Txn, NEW y \in Txn, <<x, y>> \in Before
      PROVE  phase[x] = "ended" /\ commit_id[x] < start_time[y]
  BY <1>5 DEF Before
<1>6. CASE r[1] = t
  <2>1. r[2] < p[2]
    BY <1>3, <1>6 DEF Older
  <2>2. CASE q[1] = t
    BY <1>3, <1>4, <1>6, <2>1, <2>2 DEF Older
  <2>3. CASE q[1] # t
    BY <1>3, <1>6, <2>3 DEF Older
  <2> QED
    BY <2>2, <2>3
<1>7. CASE r[1] # t
  <2>1. <<r[1], t>> \in Before
    BY <1>3, <1>7 DEF Older
  <2>2. phase[r[1]] = "ended" /\ commit_id[r[1]] < start_time[t]
    BY <1>4, <1>5, <2>1
  <2>3. CASE q[1] = r[1]
    BY <1>3, <1>7, <2>1, <2>3 DEF Older
  <2>4. CASE q[1] # r[1]
    <3>1. <<q[1], r[1]>> \in Before
      BY <2>4 DEF Older
    <3>2. phase[q[1]] = "ended" /\ commit_id[q[1]] < start_time[r[1]]
      BY <1>4, <1>5, <3>1
    <3>3. undo[r[1]] # <<>>
      <4>1. r[2] \in 1..Len(undo[r[1]])
        BY <1>2, <1>4, <1>7, <2>2 DEF UndoUpTo
      <4>2. undo[r[1]] = <<>> => Len(undo[r[1]]) = 0
        OBVIOUS
      <4> QED
        BY <4>1, <4>2
    <3>4. PICK i \in DOMAIN recently_committed : recently_committed[i] = r[1]
      BY <1>4, <2>2, <3>3 DEF CInv, Recent, Ended
    <3>5. start_time[r[1]] < commit_id[r[1]]
      BY <3>4 DEF CInv, Recent
    <3>6. /\ start_time[r[1]] \in Nat /\ commit_id[r[1]] \in Nat /\ commit_id[q[1]] \in Nat
          /\ start_time[t] \in Nat
      BY <1>4 DEF CInv, Types
    <3>7. commit_id[q[1]] < start_time[t]
      BY <2>2, <3>2, <3>5, <3>6
    <3>8. <<q[1], t>> \in Before /\ q[1] # t
      BY <1>4, <3>2, <3>7 DEF Before
    <3> QED
      BY <1>3, <3>8 DEF Older
  <2> QED
    BY <2>3, <2>4
<1> QED
  BY <1>6, <1>7

\* The buffers when one entry was added to that of t.
LEMMA BufferGrows ==
  ASSUME NEW t \in Txn, undo \in [Txn -> Buffers], phase[t] # "rolling_back",
         NEW b \in Buffers, NEW u \in [key : Key, child : Ids]
  PROVE  /\ [BufferOf(t, b) EXCEPT ![t] = Append(BufferOf(t, b)[t], u)] = BufferOf(t, Append(b, u))
         /\ BufferOf(t, b)[t] = b
         /\ PendingIds(BufferOf(t, Append(b, u))) = PendingIds(BufferOf(t, b)) \cup {NextId(BufferOf(t, b), t)}
         /\ Append(b, u) \in Buffers
<1> DEFINE V == BufferOf(t, b)
           W == BufferOf(t, Append(b, u))
<1>1. b \in Seq([key : Key, child : Ids]) /\ Len(b) \in Nat
  BY LenProperties DEF Buffers
<1>2. Append(b, u) \in Buffers /\ Len(Append(b, u)) = Len(b) + 1
  BY <1>1, AppendProperties DEF Buffers
<1>3. V[t] = b /\ W[t] = Append(b, u) /\ \A x \in Txn : x # t => V[x] = undo[x] /\ W[x] = undo[x]
  BY DEF BufferOf
<1>4. [V EXCEPT ![t] = Append(V[t], u)] = W
  BY <1>3 DEF BufferOf
<1> HIDE DEF V, W
<1>5. NextId(V, t) = <<t, Len(b) + 1>>
  BY <1>3 DEF NextId
<1>6. ASSUME NEW q \in Txn \X Nat
      PROVE  q[2] \in 1..UndoUpTo(W, q[1]) <=> (q[2] \in 1..UndoUpTo(V, q[1]) \/ q = <<t, Len(b) + 1>>)
  <2>1. CASE q[1] = t
    <3>1. UndoUpTo(W, q[1]) = Len(b) + 1 /\ UndoUpTo(V, q[1]) = Len(b)
      BY <1>2, <1>3, <2>1 DEF UndoUpTo
    <3>2. q = <<t, q[2]>> /\ q[2] \in Nat
      BY <2>1
    <3> QED
      BY <1>1, <3>1, <3>2
  <2>2. CASE q[1] # t
    BY <1>3, <2>2 DEF UndoUpTo
  <2> QED
    BY <2>1, <2>2
<1>7. <<t, Len(b) + 1>> \in Txn \X Nat
  BY <1>1
<1>8. PendingIds(W) = PendingIds(V) \cup {NextId(V, t)}
  BY <1>5, <1>6, <1>7 DEF PendingIds
<1> QED
  BY <1>2, <1>3, <1>4, <1>8 DEF V, W

\* An operation of t on one chain.
LEMMA PutOK ==
  ASSUME CInv, NEW t \in Txn, phase[t] = "active", NEW sets, SetsOK(sets, t), NEW key \in Key,
         NEW status \in Statuses, NEW type \in {"ENTRY", "DELETED_ENTRY", "RENAMED_ENTRY"}, NEW requires,
         sets.status = "ok" /\ status = "ok" => Clear(sets.map[key], t) /\ requires \in SUBSET Name,
         NEW new, new = Put(sets, t, key, status, type, requires)
  PROVE  /\ SetsOK(new, t)
         /\ new.status = "ok" => sets.status = "ok" /\ status = "ok" /\ OnTop(new.map[key], t)
<1>1. sets \in [map : [Key -> Chains], undo : Buffers, status : Statuses]
  BY DEF SetsOK
<1>2. CASE sets.status # "ok"
  BY <1>2 DEF Put
<1>3. CASE sets.status = "ok" /\ status # "ok"
  <2>1. new = [sets EXCEPT !.status = status]
    BY <1>3 DEF Put
  <2>2. new \in [map : [Key -> Chains], undo : Buffers, status : Statuses] /\ new.map = sets.map
        /\ new.undo = sets.undo /\ new.status = status
    BY <1>1, <2>1
  <2>3. \E K : Grows(new.map, new.undo, t, K)
    BY <2>2 DEF SetsOK
  <2> QED
    BY <1>3, <2>2, <2>3 DEF SetsOK
<1>4. CASE sets.status = "ok" /\ status = "ok"
  <2> DEFINE b == sets.undo
             m == sets.map
             V == BufferOf(t, b)
             e == Entry(<<t, Len(b) + 1>>, type, transaction_id[t], requires)
             d == UpdateEntry(m[key], e)
             u == [key |-> key, child |-> d[2].id]
  <2>1. new = [map |-> [m EXCEPT ![key] = d], undo |-> Append(b, u), status |-> "ok"]
    BY <1>4 DEF Put
  <2>2. m \in [Key -> Chains] /\ b \in Buffers /\ Len(b) \in Nat
    BY <1>1, LenProperties DEF Buffers
  <2>3. undo \in [Txn -> Buffers] /\ transaction_id[t] \in Nat /\ phase[t] # "rolling_back" /\ t \notin Ended
    BY ActiveFacts DEF CInv, Types
  <2>4. V[t] = b
    BY <2>3 DEF BufferOf
  <2>5. Woven(m, V, PendingIds(V), Before, Ended, Stamps)
    BY DEF SetsOK
  <2>6. e \in Entries /\ e.id = NextId(V, t) /\ e.timestamp = transaction_id[t] /\ e.type # "INVALID"
    <3>1. requires \in SUBSET Name
      BY <1>4
    <3>2. <<t, Len(b) + 1>> \in Ids
      BY <2>2 DEF Ids
    <3> QED
      BY <2>3, <2>4, <3>1, <3>2 DEF Entry, Entries, NextId
  <2>7. Stamps[NextId(V, t)] = transaction_id[t]
    <3>1. NextId(V, t) \in Txn \X Nat /\ NextId(V, t)[1] = t
      BY <2>2, <2>4 DEF NextId
    <3> QED
      BY <3>1 DEF Stamps, StampOf
  <2>8. Len(m[key]) > 1 => Older(m[key][1].id, NextId(V, t), Before)
    <3>1. Len(m[key]) > 1 => m[key] # <<>>
      BY <2>2, ChainElements
    <3> QED
      BY <1>4, <3>1, HeadIsOlder DEF Clear
  <2>9. OlderThrough(PendingIds(V), NextId(V, t), Before)
    BY OlderThroughState
  <2>10. Pushed(d, m[key], e)
    BY <2>2, <2>6, UpdateEntryPushes
  <2>11. OnTop(d, t)
    <3>1. d \in Chains /\ d[1] = e
      BY <2>10 DEF Pushed
    <3>2. Len(d) # 0
      <4>1. Len(m[key]) \in Nat
        BY <2>2, ChainElements
      <4> QED
        BY <2>10, <4>1 DEF Pushed
    <3>3. d # <<>>
      BY <3>1, <3>2, ChainElements
    <3> QED
      BY <2>6, <3>1, <3>3 DEF OnTop
  <2> HIDE DEF e, d, V, u
  <2>12. /\ Woven([m EXCEPT ![key] = d], [V EXCEPT ![t] = Append(V[t], u)], PendingIds(V) \cup {NextId(V, t)},
                  Before, Ended, Stamps)
         /\ u \in [key : Key, child : Ids]
    <3> DEFINE p == NextId(V, t)
               P == PendingIds(V)
    <3>1. /\ Woven(m, V, P, Before, Ended, Stamps) /\ t \notin Ended
          /\ e \in Entries /\ e.id = p /\ e.timestamp = Stamps[p] /\ e.type # "INVALID"
          /\ Len(m[key]) > 1 => Older(m[key][1].id, p, Before)
          /\ OlderThrough(P, p, Before) /\ d = UpdateEntry(m[key], e)
          /\ u = [key |-> key, child |-> d[2].id] /\ p = NextId(V, t)
      BY <2>3, <2>5, <2>6, <2>7, <2>8, <2>9 DEF d, u
    <3> HIDE DEF m, p, P
    <3>2. /\ Woven([m EXCEPT ![key] = d], [V EXCEPT ![t] = Append(V[t], u)], P \cup {p}, Before, Ended, Stamps)
          /\ p \notin P /\ u \in [key : Key, child : Ids]
      BY <3>1, WovenPut
    <3> QED
      BY <3>2 DEF p, P
  <2>13. /\ [V EXCEPT ![t] = Append(V[t], u)] = BufferOf(t, Append(b, u))
         /\ PendingIds(BufferOf(t, Append(b, u))) = PendingIds(V) \cup {NextId(V, t)}
         /\ Append(b, u) \in Buffers
    <3> HIDE DEF b
    <3> QED
      BY <2>2, <2>3, <2>12, BufferGrows DEF V
  <2>14. Woven([m EXCEPT ![key] = d], BufferOf(t, Append(b, u)), PendingIds(BufferOf(t, Append(b, u))),
               Before, Ended, Stamps)
    BY <2>12, <2>13
  <2>15. /\ new.map = [m EXCEPT ![key] = d] /\ new.undo = Append(b, u) /\ new.status = "ok"
         /\ [m EXCEPT ![key] = d][key] = d
    BY <2>1, <2>2
  <2>16. d \in Chains
    BY <2>10 DEF Pushed
  <2>17. new \in [map : [Key -> Chains], undo : Buffers, status : Statuses]
    <3> HIDE DEF m, b
    <3> QED
      BY <2>1, <2>2, <2>13, <2>16 DEF Statuses
  <2>18. \E K : Grows([m EXCEPT ![key] = d], Append(b, u), t, K)
    <3>1. PICK K : Grows(m, b, t, K)
      BY DEF SetsOK
    <3>2. Clear(m[key], t) /\ u.key = key
      BY <1>4 DEF u
    <3>3. e.id[1] = t
      BY <2>6 DEF NextId
    <3> DEFINE m2 == [m EXCEPT ![key] = d]
    <3>4. m2 = [m EXCEPT ![key] = d] /\ \A k \in Key : m2[k] = IF k = key THEN d ELSE m[k]
      BY <2>2
    <3>5. KeysIn(Append(b, u)) = KeysIn(b) \cup {key}
      <4> HIDE DEF b
      <4>1. u \in [key : Key, child : Ids]
        BY <2>12
      <4>2. /\ Len(Append(b, u)) = Len(b) + 1 /\ Append(b, u)[Len(b) + 1] = u
            /\ \A i \in 1..Len(b) : Append(b, u)[i] = b[i]
            /\ DOMAIN b = 1..Len(b) /\ DOMAIN Append(b, u) = 1..Len(b) + 1
        BY <2>2, <2>13, <4>1, AppendProperties, LenProperties DEF Buffers
      <4>3. \A i \in 1..Len(b) + 1 : i \in 1..Len(b) \/ i = Len(b) + 1
        BY <2>2
      <4>4. Len(b) + 1 \in 1..Len(b) + 1 /\ \A i \in 1..Len(b) : i \in 1..Len(b) + 1
        BY <2>2
      <4>5. KeysIn(Append(b, u)) \subseteq KeysIn(b) \cup {key}
        BY <3>2, <4>2, <4>3 DEF KeysIn
      <4>6. KeysIn(b) \cup {key} \subseteq KeysIn(Append(b, u))
        BY <3>2, <4>2, <4>4 DEF KeysIn
      <4> QED
        BY <4>5, <4>6
    <3> HIDE DEF m2, m, b
    <3>6. ASSUME NEW W, NEW L, t \notin W, Beyond(L, 0) PROVE Keeps(m2, map, W, L)
      <4>1. SeenIn(d, W) = SeenIn(m[key], W) /\ (Low(m[key], L) => Low(d, L))
        <5>1. m[key] \in Chains /\ e.id[1] \notin W
          BY <2>2, <3>3, <3>6
        <5> QED
          BY <2>6, <2>10, <3>6, <5>1, SeenPushed
      <4>2. Keeps(m, map, W, L)
        BY <3>1, <3>6 DEF Grows
      <4> QED
        BY <3>4, <4>1, <4>2 DEF Keeps
    <3>7. Grows(m2, Append(b, u), t, K \cup {key})
      <4>1. \A k \in Key \ (K \cup {key}) : m2[k] = map[k]
        BY <3>1, <3>4 DEF Grows
      <4>2. \A k \in K \cup {key} : Clear(map[k], t)
        BY <3>1, <3>2 DEF Grows
      <4>3. KeysIn(Append(b, u)) = KeysIn(undo[t]) \cup (K \cup {key}) /\ K \cup {key} \subseteq Key
        BY <3>1, <3>5 DEF Grows
      <4> QED
        BY <3>6, <4>1, <4>2, <4>3 DEF Grows
    <3> QED
      BY <3>4, <3>7
  <2>19. \E K : Grows(new.map, new.undo, t, K)
    BY <2>15, <2>18
  <2> QED
    BY <1>4, <2>11, <2>14, <2>15, <2>17, <2>19 DEF SetsOK
<1> QED
  BY <1>2, <1>3, <1>4

\* CreateEntryInternal and DropEntryInternal put an entry on a chain that is clear.
LEMMA PutCreateOK ==
  ASSUME CInv, NEW t \in Txn, phase[t] = "active", NEW sets, SetsOK(sets, t), NEW key \in Key,
         NEW type \in {"ENTRY", "DELETED_ENTRY", "RENAMED_ENTRY"}, NEW requires \in SUBSET Name,
         NEW new, new = PutCreate(sets, t, key, type, requires)
  PROVE  /\ SetsOK(new, t)
         /\ new.status = "ok" => sets.status = "ok" /\ OnTop(new.map[key], t)
<1> DEFINE status == Vacancy(sets.map[key], Data(t))
<1>1. status \in Statuses
  BY DEF Vacancy, VerifyVacancy, Statuses
<1>2. status = "ok" => Clear(sets.map[key], t)
  BY DEF Vacancy, VerifyVacancy, Clear
<1>3. new = Put(sets, t, key, status, type, requires)
  BY DEF PutCreate
<1> HIDE DEF status
<1> QED
  BY <1>1, <1>2, <1>3, PutOK

\* PutDrop leaves the sets woven.
LEMMA PutDropOK ==
  ASSUME CInv, NEW t \in Txn, phase[t] = "active", NEW sets, SetsOK(sets, t), NEW key \in Key,
         NEW new, new = PutDrop(sets, t, key)
  PROVE  /\ SetsOK(new, t)
         /\ new.status = "ok" => sets.status = "ok" /\ OnTop(new.map[key], t)
<1> DEFINE status == GetEntryInternal(sets.map[key], Data(t))
<1>1. status \in Statuses
  BY DEF GetEntryInternal, Statuses
<1>2. status = "ok" => Clear(sets.map[key], t)
  BY DEF GetEntryInternal, Clear
<1>3. new = Put(sets, t, key, status, "DELETED_ENTRY", {})
  BY DEF PutDrop
<1>4. {} \in SUBSET Name /\ "DELETED_ENTRY" \in {"ENTRY", "DELETED_ENTRY", "RENAMED_ENTRY"}
  OBVIOUS
<1> HIDE DEF status
<1> QED
  BY <1>1, <1>2, <1>3, <1>4, PutOK

\* Before its first change the statement has the sets of the state.
LEMMA UnchangedOK ==
  ASSUME CInv, NEW t \in Txn
  PROVE  SetsOK(Unchanged(t), t) /\ Unchanged(t).map = map /\ Unchanged(t).undo = undo[t]
<1>1. map \in [Key -> Chains] /\ undo \in [Txn -> Buffers]
  BY DEF CInv, Types
<1>2. BufferOf(t, undo[t]) = undo
  BY <1>1 DEF BufferOf
<1>3. Unchanged(t).map = map /\ Unchanged(t).undo = undo[t]
  BY DEF Unchanged
<1>4. Unchanged(t) \in [map : [Key -> Chains], undo : Buffers, status : Statuses]
  BY <1>1 DEF Unchanged, Statuses
<1>5. Grows(map, undo[t], t, {})
  BY DEF Grows, Keeps
<1> QED
  BY <1>2, <1>3, <1>4, <1>5 DEF SetsOK, CInv, MapWoven
-----------------------------------------------------------------------------
(* Steps that end no transaction and begin none.                           *)

\* No transaction changes its phase but to become invalid, and no clock moves.
PhasesKept ==
  /\ phase' \in [Txn -> {"idle", "active", "invalid", "committing", "rolling_back", "ended"}]
  /\ \A x \in Txn : phase'[x] = phase[x] \/ (phase[x] = "active" /\ phase'[x] = "invalid")
  /\ UNCHANGED <<clocks, transaction_lock, at, recently_committed>>

\* A statement of t, or one of its operations.
Operated(t) ==
  /\ phase[t] = "active" /\ PhasesKept
  /\ \A x \in Txn \ {t} : phase'[x] = phase[x] /\ undo'[x] = undo[x] /\ todo'[x] = todo[x]
  /\ \E K : Grows(map', undo'[t], t, K)
  /\ \/ todo'[t] \in Seq(OtherOps)
     \/ map' = map /\ \E a \in AlterOps : todo'[t] = <<a>> /\ Finds(t, Object(a.name))

\* What the chains look at of the transactions stays.
LEMMA Kept ==
  ASSUME CInv, PhasesKept
  PROVE  /\ Ended' = Ended /\ Running' = Running /\ Before' = Before /\ Stamps' = Stamps
         /\ PendingIds(undo)' = PendingIds(undo')
         /\ Clocks'
<1>1. \A x \in Txn : /\ phase'[x] = "ended" <=> phase[x] = "ended"
                     /\ phase'[x] = "idle" <=> phase[x] = "idle"
                     /\ phase'[x] = "committing" <=> phase[x] = "committing"
                     /\ phase'[x] = "rolling_back" <=> phase[x] = "rolling_back"
  BY DEF PhasesKept
<1>2. /\ start_time' = start_time /\ transaction_id' = transaction_id /\ commit_id' = commit_id
      /\ current_start_timestamp' = current_start_timestamp
      /\ current_transaction_id' = current_transaction_id /\ at' = at
  BY DEF PhasesKept, clocks
<1>3. Ended' = Ended /\ Running' = Running
  BY <1>1 DEF Ended, Running
<1>4. Before' = Before
  BY <1>1, <1>2 DEF Before
<1>5. \A p \in Txn \X Nat : StampOf(p)' = StampOf(p)
  BY <1>1, <1>2 DEF StampOf
<1>6. Stamps' = Stamps
  BY <1>5 DEF Stamps
<1>7. PendingIds(undo)' = PendingIds(undo')
  BY <1>1, <1>2 DEF PendingIds, UndoUpTo
<1>8. Clocks'
  BY <1>1, <1>2, <1>3 DEF CInv, Clocks
<1> QED
  BY <1>3, <1>4, <1>6, <1>7, <1>8

\* A step of t that leaves the sets like this.
LEMMA OperationInv ==
  ASSUME CInv, NEW t \in Txn, phase[t] = "active", NEW sets, SetsOK(sets, t),
         PhasesKept, map' = sets.map, undo' = BufferOf(t, sets.undo),
         todo' \in [Txn -> Seq(OtherOps) \cup {<<a>> : a \in AlterOps}]
  PROVE  CInv' /\ (\A x \in Txn \ {t} : undo'[x] = undo[x]) /\ \E K : Grows(map', undo'[t], t, K)
<1>1. /\ Ended' = Ended /\ Running' = Running /\ Before' = Before /\ Stamps' = Stamps
      /\ PendingIds(undo)' = PendingIds(undo') /\ Clocks'
  BY Kept
<1>2. /\ start_time' = start_time /\ transaction_id' = transaction_id /\ commit_id' = commit_id
      /\ current_start_timestamp' = current_start_timestamp /\ transaction_lock' = transaction_lock
      /\ current_transaction_id' = current_transaction_id /\ at' = at
      /\ recently_committed' = recently_committed
  BY DEF PhasesKept, clocks
<1>3. sets.map \in [Key -> Chains] /\ sets.undo \in Buffers
  BY DEF SetsOK
<1>4. undo' \in [Txn -> Buffers] /\ \A x \in Txn : x # t => undo'[x] = undo[x]
  BY <1>3 DEF BufferOf, CInv, Types
<1>5. Types'
  BY <1>2, <1>3, <1>4 DEF CInv, Types, PhasesKept
<1>6. Locked'
  <2>1. \A x \in Txn : phase'[x] \in {"committing", "rolling_back"} <=> transaction_lock' = x
    BY <1>2 DEF CInv, Locked, PhasesKept
  <2>2. transaction_lock # NoTxn => at' \in 0..Len(undo'[transaction_lock])
    <3>1. transaction_lock # t
      BY ActiveFacts
    <3> QED
      BY <1>2, <1>4, <3>1 DEF CInv, Locked
  <2> QED
    BY <1>2, <2>1, <2>2 DEF CInv, Locked
<1>7. Recent'
  <2>1. t \notin Ended /\ phase'[t] # "idle"
    BY DEF Ended, PhasesKept
  <2>2. \A x \in Txn : phase'[x] = "idle" => phase[x] = "idle"
    BY DEF PhasesKept
  <2> QED
    BY <1>1, <1>2, <1>4, <2>1, <2>2 DEF CInv, Recent, Ended
<1>8. MapWoven'
  <2>1. Woven(map', undo', PendingIds(undo'), Before, Ended, Stamps)
    BY DEF SetsOK
  <2> QED
    BY <1>1, <2>1 DEF MapWoven
<1>9. \E K : Grows(map', undo'[t], t, K)
  <2>1. undo'[t] = sets.undo
    BY DEF BufferOf, CInv, Types
  <2> QED
    BY <2>1 DEF SetsOK
<1> QED
  BY <1>1, <1>4, <1>5, <1>6, <1>7, <1>8, <1>9 DEF CInv

\* The end of an operation.
LEMMA EndOperationInv ==
  ASSUME CInv, NEW t \in Txn, phase[t] = "active", NEW sets, SetsOK(sets, t),
         NEW rest \in Seq(OtherOps), EndOperation(t, sets, rest)
  PROVE  CInv' /\ Operated(t)
<1>1. PhasesKept
  BY DEF EndOperation, PhasesKept, CInv, Types
<1>2. map' = sets.map /\ undo' = BufferOf(t, sets.undo)
  BY DEF EndOperation, BufferOf
<1>3. <<>> \in Seq(OtherOps)
  OBVIOUS
<1>4. todo' \in [Txn -> Seq(OtherOps) \cup {<<a>> : a \in AlterOps}]
  <2>1. todo \in [Txn -> Seq(OtherOps) \cup {<<a>> : a \in AlterOps}]
    BY DEF CInv, Types
  <2>2. todo' = [todo EXCEPT ![t] = IF sets.status = "conflict" THEN <<>> ELSE rest]
    BY DEF EndOperation
  <2> QED
    BY <1>3, <2>1, <2>2
<1>5. CInv' /\ (\A x \in Txn \ {t} : undo'[x] = undo[x]) /\ \E K : Grows(map', undo'[t], t, K)
  BY <1>1, <1>2, <1>4, OperationInv
<1>6. \A x \in Txn \ {t} : phase'[x] = phase[x] /\ todo'[x] = todo[x]
  BY DEF EndOperation, CInv, Types
<1>7. todo'[t] \in Seq(OtherOps)
  BY <1>3 DEF EndOperation, CInv, Types
<1> QED
  BY <1>1, <1>5, <1>6, <1>7 DEF Operated

\* A statement that fails.
LEMMA FailInv ==
  ASSUME CInv, NEW t \in Txn, phase[t] = "active", Fail(t)
  PROVE  CInv' /\ Operated(t)
<1>1. PhasesKept
  BY DEF Fail, PhasesKept, CInv, Types
<1>2. SetsOK(Unchanged(t), t) /\ map' = Unchanged(t).map /\ undo' = BufferOf(t, Unchanged(t).undo)
  <2>1. undo = BufferOf(t, undo[t])
    BY DEF BufferOf, CInv, Types
  <2> QED
    BY <2>1, UnchangedOK DEF Fail
<1>3. todo' \in [Txn -> Seq(OtherOps) \cup {<<a>> : a \in AlterOps}]
  <2>1. <<>> \in Seq(OtherOps)
    OBVIOUS
  <2> QED
    BY <2>1 DEF Fail, CInv, Types
<1>4. CInv' /\ (\A x \in Txn \ {t} : undo'[x] = undo[x]) /\ \E K : Grows(map', undo'[t], t, K)
  BY <1>1, <1>2, <1>3, OperationInv
<1>5. \A x \in Txn \ {t} : phase'[x] = phase[x] /\ todo'[x] = todo[x]
  BY DEF Fail, CInv, Types
<1>6. todo'[t] = <<>> /\ <<>> \in Seq(OtherOps)
  BY DEF Fail, CInv, Types
<1> QED
  BY <1>1, <1>4, <1>5, <1>6 DEF Operated
-----------------------------------------------------------------------------
(* What the loops go through: w[n] is the value after n rounds.            *)

\* The lists of operations of a statement, one after the other.
Lists(w, ops, order, len) ==
  w = [n \in 0..len |-> IF n = 0 THEN <<>> ELSE w[n - 1] \o ops[order[n]]]

\* There is such a function.
LEMMA ListsExist ==
  ASSUME NEW ops, NEW order, NEW len \in Nat
  PROVE  \E w : Lists(w, ops, order, len)
<1> DEFINE Has == {k \in 0..len : \E w : Lists(w, ops, order, k)}
<1>1. 0 \in Has
  <2> DEFINE w == [n \in 0..0 |-> <<>>]
  <2>1. \A n \in 0..0 : n = 0
    OBVIOUS
  <2>2. w = [n \in 0..0 |-> IF n = 0 THEN <<>> ELSE w[n - 1] \o ops[order[n]]]
    BY <2>1
  <2> HIDE DEF w
  <2>3. Lists(w, ops, order, 0)
    BY <2>2 DEF Lists
  <2> QED
    BY <2>3
<1>2. ASSUME NEW k \in 0..len - 1, k \in Has PROVE k + 1 \in Has
  <2>1. PICK v : Lists(v, ops, order, k)
    BY <1>2
  <2> DEFINE j == k + 1
             w == [n \in 0..j |-> IF n = j THEN v[k] \o ops[order[j]] ELSE v[n]]
             rhs == [n \in 0..j |-> IF n = 0 THEN <<>> ELSE w[n - 1] \o ops[order[n]]]
  <2>2. \A n \in 0..k : v[n] = IF n = 0 THEN <<>> ELSE v[n - 1] \o ops[order[n]]
    BY <2>1 DEF Lists
  <2>3. ASSUME NEW n \in 0..j PROVE w[n] = rhs[n]
    <3>1. n = j \/ n \in 0..k
      OBVIOUS
    <3>2. CASE n = j
      <4>1. n - 1 = k /\ n # 0 /\ k \in 0..j /\ k # j
        BY <3>2
      <4>2. w[n - 1] = v[k] /\ w[n] = v[k] \o ops[order[j]]
        BY <3>2, <4>1
      <4> QED
        BY <3>2, <4>1, <4>2
    <3>3. CASE n \in 0..k
      <4>1. n # j /\ w[n] = v[n]
        BY <3>3
      <4>2. n # 0 => n - 1 \in 0..j /\ n - 1 # j /\ w[n - 1] = v[n - 1]
        BY <3>3
      <4> QED
        BY <2>2, <3>3, <4>1, <4>2
    <3> QED
      BY <3>1, <3>2, <3>3
  <2>4. w = [n \in 0..j |-> w[n]] /\ rhs = [n \in 0..j |-> rhs[n]]
    OBVIOUS
  <2>5. w = rhs
    <3> HIDE DEF w, rhs
    <3> QED
      BY <2>3, <2>4, Zenon
  <2>6. Lists(w, ops, order, j)
    <3> HIDE DEF w
    <3> QED
      BY <2>5 DEF Lists
  <2>7. j \in 0..len
    OBVIOUS
  <2> HIDE DEF w, j
  <2> QED
    BY <2>6, <2>7 DEF j
<1> HIDE DEF Has
<1>3. len \in Has
  BY <1>1, <1>2, CountingUp
<1> QED
  BY <1>3 DEF Has

\* CommitState::RevertCommit, over the undo buffer of t.
Reverts(w, t, len) ==
  w = [n \in 0..len |-> IF n = 0 THEN map ELSE Stamp(w[n - 1], undo[t][n], transaction_id[t])]

\* There is such a function.
LEMMA RevertsExist ==
  ASSUME NEW t, NEW len \in Nat
  PROVE  \E w : Reverts(w, t, len)
<1> DEFINE Has == {k \in 0..len : \E w : Reverts(w, t, k)}
<1>1. 0 \in Has
  <2> DEFINE w == [n \in 0..0 |-> map]
  <2>1. \A n \in 0..0 : n = 0
    OBVIOUS
  <2>2. w = [n \in 0..0 |-> IF n = 0 THEN map ELSE Stamp(w[n - 1], undo[t][n], transaction_id[t])]
    BY <2>1
  <2> HIDE DEF w
  <2>3. Reverts(w, t, 0)
    BY <2>2 DEF Reverts
  <2> QED
    BY <2>3
<1>2. ASSUME NEW k \in 0..len - 1, k \in Has PROVE k + 1 \in Has
  <2>1. PICK v : Reverts(v, t, k)
    BY <1>2
  <2> DEFINE j == k + 1
             w == [n \in 0..j |-> IF n = j THEN Stamp(v[k], undo[t][j], transaction_id[t]) ELSE v[n]]
             rhs == [n \in 0..j |-> IF n = 0 THEN map ELSE Stamp(w[n - 1], undo[t][n], transaction_id[t])]
  <2>2. \A n \in 0..k : v[n] = IF n = 0 THEN map ELSE Stamp(v[n - 1], undo[t][n], transaction_id[t])
    BY <2>1 DEF Reverts
  <2>3. ASSUME NEW n \in 0..j PROVE w[n] = rhs[n]
    <3>1. n = j \/ n \in 0..k
      OBVIOUS
    <3>2. CASE n = j
      <4>1. n - 1 = k /\ n # 0 /\ k \in 0..j /\ k # j
        BY <3>2
      <4>2. w[n - 1] = v[k] /\ w[n] = Stamp(v[k], undo[t][j], transaction_id[t])
        BY <3>2, <4>1
      <4> QED
        BY <3>2, <4>1, <4>2
    <3>3. CASE n \in 0..k
      <4>1. n # j /\ w[n] = v[n]
        BY <3>3
      <4>2. n # 0 => n - 1 \in 0..j /\ n - 1 # j /\ w[n - 1] = v[n - 1]
        BY <3>3
      <4> QED
        BY <2>2, <3>3, <4>1, <4>2
    <3> QED
      BY <3>1, <3>2, <3>3
  <2>4. w = [n \in 0..j |-> w[n]] /\ rhs = [n \in 0..j |-> rhs[n]]
    OBVIOUS
  <2>5. w = rhs
    <3> HIDE DEF w, rhs
    <3> QED
      BY <2>3, <2>4, Zenon
  <2>6. Reverts(w, t, j)
    <3> HIDE DEF w
    <3> QED
      BY <2>5 DEF Reverts
  <2>7. j \in 0..len
    OBVIOUS
  <2> HIDE DEF w, j
  <2> QED
    BY <2>6, <2>7 DEF j
<1> HIDE DEF Has
<1>3. len \in Has
  BY <1>1, <1>2, CountingUp
<1> QED
  BY <1>3 DEF Has

\* CleanupState::CleanupEntry, over an undo buffer.
Cleans(w, m, buffer, len) ==
  w = [n \in 0..len |-> IF n = 0 THEN m ELSE CleanupOf(w[n - 1], buffer[n])]

\* There is such a function.
LEMMA CleansExist ==
  ASSUME NEW m, NEW buffer, NEW len \in Nat
  PROVE  \E w : Cleans(w, m, buffer, len)
<1> DEFINE Has == {k \in 0..len : \E w : Cleans(w, m, buffer, k)}
<1>1. 0 \in Has
  <2> DEFINE w == [n \in 0..0 |-> m]
  <2>1. \A n \in 0..0 : n = 0
    OBVIOUS
  <2>2. w = [n \in 0..0 |-> IF n = 0 THEN m ELSE CleanupOf(w[n - 1], buffer[n])]
    BY <2>1
  <2> HIDE DEF w
  <2>3. Cleans(w, m, buffer, 0)
    BY <2>2 DEF Cleans
  <2> QED
    BY <2>3
<1>2. ASSUME NEW k \in 0..len - 1, k \in Has PROVE k + 1 \in Has
  <2>1. PICK v : Cleans(v, m, buffer, k)
    BY <1>2
  <2> DEFINE j == k + 1
             w == [n \in 0..j |-> IF n = j THEN CleanupOf(v[k], buffer[j]) ELSE v[n]]
             rhs == [n \in 0..j |-> IF n = 0 THEN m ELSE CleanupOf(w[n - 1], buffer[n])]
  <2>2. \A n \in 0..k : v[n] = IF n = 0 THEN m ELSE CleanupOf(v[n - 1], buffer[n])
    BY <2>1 DEF Cleans
  <2>3. ASSUME NEW n \in 0..j PROVE w[n] = rhs[n]
    <3>1. n = j \/ n \in 0..k
      OBVIOUS
    <3>2. CASE n = j
      <4>1. n - 1 = k /\ n # 0 /\ k \in 0..j /\ k # j
        BY <3>2
      <4>2. w[n - 1] = v[k] /\ w[n] = CleanupOf(v[k], buffer[j])
        BY <3>2, <4>1
      <4> QED
        BY <3>2, <4>1, <4>2
    <3>3. CASE n \in 0..k
      <4>1. n # j /\ w[n] = v[n]
        BY <3>3
      <4>2. n # 0 => n - 1 \in 0..j /\ n - 1 # j /\ w[n - 1] = v[n - 1]
        BY <3>3
      <4> QED
        BY <2>2, <3>3, <4>1, <4>2
    <3> QED
      BY <3>1, <3>2, <3>3
  <2>4. w = [n \in 0..j |-> w[n]] /\ rhs = [n \in 0..j |-> rhs[n]]
    OBVIOUS
  <2>5. w = rhs
    <3> HIDE DEF w, rhs
    <3> QED
      BY <2>3, <2>4, Zenon
  <2>6. Cleans(w, m, buffer, j)
    <3> HIDE DEF w
    <3> QED
      BY <2>5 DEF Cleans
  <2>7. j \in 0..len
    OBVIOUS
  <2> HIDE DEF w, j
  <2> QED
    BY <2>6, <2>7 DEF j
<1> HIDE DEF Has
<1>3. len \in Has
  BY <1>1, <1>2, CountingUp
<1> QED
  BY <1>3 DEF Has

\* The undo buffers of the transactions that nobody misses.
CleansAll(w, done, len) ==
  w = [n \in 0..len |-> IF n = 0 THEN map ELSE CleanupBuffer(w[n - 1], undo[done[n]])]

\* There is such a function.
LEMMA CleansAllExist ==
  ASSUME NEW done, NEW len \in Nat
  PROVE  \E w : CleansAll(w, done, len)
<1> DEFINE Has == {k \in 0..len : \E w : CleansAll(w, done, k)}
<1>1. 0 \in Has
  <2> DEFINE w == [n \in 0..0 |-> map]
  <2>1. \A n \in 0..0 : n = 0
    OBVIOUS
  <2>2. w = [n \in 0..0 |-> IF n = 0 THEN map ELSE CleanupBuffer(w[n - 1], undo[done[n]])]
    BY <2>1
  <2> HIDE DEF w
  <2>3. CleansAll(w, done, 0)
    BY <2>2 DEF CleansAll
  <2> QED
    BY <2>3
<1>2. ASSUME NEW k \in 0..len - 1, k \in Has PROVE k + 1 \in Has
  <2>1. PICK v : CleansAll(v, done, k)
    BY <1>2
  <2> DEFINE j == k + 1
             w == [n \in 0..j |-> IF n = j THEN CleanupBuffer(v[k], undo[done[j]]) ELSE v[n]]
             rhs == [n \in 0..j |-> IF n = 0 THEN map ELSE CleanupBuffer(w[n - 1], undo[done[n]])]
  <2>2. \A n \in 0..k : v[n] = IF n = 0 THEN map ELSE CleanupBuffer(v[n - 1], undo[done[n]])
    BY <2>1 DEF CleansAll
  <2>3. ASSUME NEW n \in 0..j PROVE w[n] = rhs[n]
    <3>1. n = j \/ n \in 0..k
      OBVIOUS
    <3>2. CASE n = j
      <4>1. n - 1 = k /\ n # 0 /\ k \in 0..j /\ k # j
        BY <3>2
      <4>2. w[n - 1] = v[k] /\ w[n] = CleanupBuffer(v[k], undo[done[j]])
        BY <3>2, <4>1
      <4> QED
        BY <3>2, <4>1, <4>2
    <3>3. CASE n \in 0..k
      <4>1. n # j /\ w[n] = v[n]
        BY <3>3
      <4>2. n # 0 => n - 1 \in 0..j /\ n - 1 # j /\ w[n - 1] = v[n - 1]
        BY <3>3
      <4> QED
        BY <2>2, <3>3, <4>1, <4>2
    <3> QED
      BY <3>1, <3>2, <3>3
  <2>4. w = [n \in 0..j |-> w[n]] /\ rhs = [n \in 0..j |-> rhs[n]]
    OBVIOUS
  <2>5. w = rhs
    <3> HIDE DEF w, rhs
    <3> QED
      BY <2>3, <2>4, Zenon
  <2>6. CleansAll(w, done, j)
    <3> HIDE DEF w
    <3> QED
      BY <2>5 DEF CleansAll
  <2>7. j \in 0..len
    OBVIOUS
  <2> HIDE DEF w, j
  <2> QED
    BY <2>6, <2>7 DEF j
<1> HIDE DEF Has
<1>3. len \in Has
  BY <1>1, <1>2, CountingUp
<1> QED
  BY <1>3 DEF Has

\* A finite set has an order.
LEMMA OrderOfSet ==
  ASSUME NEW S, IsFiniteSet(S)
  PROVE  SetToSeq(S) \in Seq(S)
<1>1. Cardinality(S) \in Nat /\ ExistsBijection(1..Cardinality(S), S)
  BY FS_CardinalityType
<1>2. PICK f : f \in Bijection(1..Cardinality(S), S)
  BY <1>1 DEF ExistsBijection
<1>3. f \in [1..Cardinality(S) -> S] /\ IsInjective(f)
  BY <1>2 DEF Bijection, Injection
<1>4. SetToSeq(S) \in [1..Cardinality(S) -> S]
  BY <1>3 DEF SetToSeq
<1> QED
  BY <1>1, <1>4

\* The lists of operations make one list of operations.
LEMMA ForEachOps ==
  ASSUME NEW S, IsFiniteSet(S), NEW ops \in [S -> Seq(OtherOps)]
  PROVE  ForEach(ops) \in Seq(OtherOps)
<1> DEFINE order == SetToSeq(S)
           len   == Len(order)
           w     == CHOOSE f : Lists(f, ops, order, len)
           Good  == {n \in 0..len : w[n] \in Seq(OtherOps)}
<1>1. DOMAIN ops = S
  OBVIOUS
<1>2. ForEach(ops) = w[len]
  BY <1>1, Zenon DEF ForEach, Lists
<1>3. order \in Seq(S) /\ len \in Nat
  BY OrderOfSet, LenProperties
<1> HIDE DEF w, order, len
<1>4. Lists(w, ops, order, len)
  BY <1>3, ListsExist DEF w
<1>5. \A n \in 0..len : w[n] = IF n = 0 THEN <<>> ELSE w[n - 1] \o ops[order[n]]
  BY <1>4 DEF Lists
<1>6. 0 \in Good
  <2>1. 0 \in 0..len /\ <<>> \in Seq(OtherOps)
    BY <1>3
  <2>2. w[0] = <<>>
    BY <1>5, <2>1
  <2> QED
    BY <2>1, <2>2
<1>7. ASSUME NEW k \in 0..len - 1, k \in Good PROVE k + 1 \in Good
  <2>1. k + 1 \in 0..len /\ k + 1 # 0 /\ (k + 1) - 1 = k /\ k + 1 \in 1..len
    BY <1>3
  <2>2. order[k + 1] \in S
    BY <1>3, <2>1, ElementOfSeq DEF len
  <2>3. w[k] \in Seq(OtherOps) /\ ops[order[k + 1]] \in Seq(OtherOps)
    BY <1>7, <2>2
  <2>4. w[k + 1] = w[k] \o ops[order[k + 1]]
    BY <1>5, <2>1
  <2>5. w[k + 1] \in Seq(OtherOps)
    BY <2>3, <2>4, ConcatProperties
  <2> QED
    BY <2>1, <2>5
<1> HIDE DEF Good
<1>8. \A k \in 0..len : k \in Good
  BY <1>3, <1>6, <1>7, CountingUp
<1>9. len \in Good
  BY <1>3, <1>8
<1> QED
  BY <1>2, <1>9 DEF Good
-----------------------------------------------------------------------------
(* The operations of statements.                                           *)

\* The keys of the three kinds of sets.
LEMMA KeysOf ==
  ASSUME NEW n \in Name
  PROVE  /\ Object(n) \in Key
         /\ \A s \in DependsOn[n] : s \in Name /\ Dependents(s, n) \in Key /\ Subjects(n, s) \in Key
<1>1. \A s \in DependsOn[n] : s \in Name /\ <<s, n>> \in Dependency
  BY CatalogConstants DEF Dependency
<1>2. \A s \in DependsOn[n] : <<s, n>>[1] = s /\ <<s, n>>[2] = n
  OBVIOUS
<1>3. \A s \in DependsOn[n] : Dependents(s, n) \in Key /\ Subjects(n, s) \in Key
  <2> SUFFICES ASSUME NEW s \in DependsOn[n] PROVE Dependents(s, n) \in Key /\ Subjects(n, s) \in Key
    OBVIOUS
  <2> DEFINE p == <<s, n>>
  <2>1. p \in Dependency /\ Dependents(s, n) = Dependents(p[1], p[2]) /\ Subjects(n, s) = Subjects(p[2], p[1])
    BY <1>1
  <2> HIDE DEF p
  <2> QED
    BY <2>1 DEF Key
<1>4. Object(n) \in Key
  BY DEF Key
<1> QED
  BY <1>1, <1>3, <1>4

\* The operations, by the names of their constructors.
LEMMA OpsMade ==
  /\ \A key \in Key : /\ DropOp(key) \in OtherOps /\ UnlinkOp(key) \in OtherOps
                      /\ \A requires \in SUBSET Name : CreateOp(key, requires) \in OtherOps
  /\ \A d \in Name : \A s \in DependsOn[d] : LinkOp(s, d) \in OtherOps
  /\ \A n \in Name, cascade \in BOOLEAN : DropEntryOp(n, cascade) \in OtherOps
  /\ \A n, m \in Name, additive \in BOOLEAN :
        (additive => m = n) /\ DependsOn[n] \subseteq DependsOn[m] =>
            AlterOp(n, m, additive) \in AlterOps /\ AlterObjectOp(n, m, additive) \in OtherOps
<1>1. ASSUME NEW key \in Key
      PROVE  /\ DropOp(key) \in OtherOps /\ UnlinkOp(key) \in OtherOps
             /\ \A requires \in SUBSET Name : CreateOp(key, requires) \in OtherOps
  BY DEF DropOp, UnlinkOp, CreateOp, OtherOps
<1>2. ASSUME NEW d \in Name, NEW s \in DependsOn[d] PROVE LinkOp(s, d) \in OtherOps
  <2>1. s \in Name
    BY CatalogConstants
  <2> DEFINE l == LinkOp(s, d)
  <2>2. l \in [op : {"link"}, subject : Name, dependent : Name] /\ l.subject = s /\ l.dependent = d
    BY <2>1 DEF LinkOp
  <2> HIDE DEF l
  <2> QED
    BY <2>2 DEF OtherOps, l
<1>3. ASSUME NEW n \in Name, NEW cascade \in BOOLEAN PROVE DropEntryOp(n, cascade) \in OtherOps
  BY DEF DropEntryOp, OtherOps
<1>4. ASSUME NEW n \in Name, NEW m \in Name, NEW additive \in BOOLEAN,
             additive => m = n, DependsOn[n] \subseteq DependsOn[m]
      PROVE  AlterOp(n, m, additive) \in AlterOps /\ AlterObjectOp(n, m, additive) \in OtherOps
  <2> DEFINE a == AlterOp(n, m, additive)
             b == AlterObjectOp(n, m, additive)
  <2>1. /\ a \in [op : {"alter"}, name : Name, new : Name, additive : BOOLEAN]
        /\ a.name = n /\ a.new = m /\ a.additive = additive
    BY DEF AlterOp
  <2>2. /\ b \in [op : {"AlterObject"}, name : Name, new : Name, additive : BOOLEAN]
        /\ b.name = n /\ b.new = m /\ b.additive = additive
    BY DEF AlterObjectOp
  <2> HIDE DEF a, b
  <2>3. a \in AlterOps
    BY <1>4, <2>1 DEF AlterOps
  <2>4. b \in OtherOps
    BY <1>4, <2>2 DEF OtherOps
  <2> QED
    BY <2>3, <2>4 DEF a, b
<1> QED
  BY <1>1, <1>2, <1>3, <1>4

\* ... and their fields.
LEMMA OpFields ==
  ASSUME NEW o \in OtherOps
  PROVE  /\ o.op # "alter"
         /\ o.op = "create" => o.key \in Key /\ o.requires \in SUBSET Name
         /\ o.op \in {"drop", "unlink"} => o.key \in Key
         /\ o.op = "link" => o.subject \in Name /\ o.dependent \in Name /\ o.subject \in DependsOn[o.dependent]
         /\ o.op = "DropEntry" => o.name \in Name /\ o.cascade \in BOOLEAN
         /\ o.op = "AlterObject" => /\ o.name \in Name /\ o.new \in Name /\ o.additive \in BOOLEAN
                                    /\ o.additive => o.new = o.name
                                    /\ DependsOn[o.name] \subseteq DependsOn[o.new]
  BY DEF OtherOps

\* The first operation of a statement that is no ALTER, and the rest.
LEMMA NextOther ==
  ASSUME CInv, NEW t \in Txn, NEW kind, Next_(t, kind), kind # "alter"
  PROVE  /\ phase[t] = "active" /\ Head(todo[t]) \in OtherOps /\ Head(todo[t]).op = kind
         /\ Tail(todo[t]) \in Seq(OtherOps)
<1>1. phase[t] = "active" /\ todo[t] # <<>> /\ Head(todo[t]).op = kind
  BY DEF Next_
<1>2. todo[t] \in Seq(OtherOps) \cup {<<a>> : a \in AlterOps}
  BY DEF CInv, Types
<1>3. todo[t] \in Seq(OtherOps)
  <2> SUFFICES ASSUME NEW a \in AlterOps, todo[t] = <<a>> PROVE FALSE
    BY <1>2
  <2>1. Head(todo[t]) = a /\ a.op = "alter"
    BY DEF AlterOps
  <2> QED
    BY <1>1, <2>1
<1>4. Head(todo[t]) \in OtherOps /\ Tail(todo[t]) \in Seq(OtherOps)
  BY <1>1, <1>3, HeadTailProperties
<1> QED
  BY <1>1, <1>4

\* The one operation of an ALTER.
LEMMA NextAlter ==
  ASSUME CInv, NEW t \in Txn, Next_(t, "alter")
  PROVE  phase[t] = "active" /\ Head(todo[t]) \in AlterOps /\ todo[t] = <<Head(todo[t])>>
<1>1. phase[t] = "active" /\ todo[t] # <<>> /\ Head(todo[t]).op = "alter"
  BY DEF Next_
<1>2. todo[t] \in Seq(OtherOps) \cup {<<a>> : a \in AlterOps}
  BY DEF CInv, Types
<1>3. todo[t] \notin Seq(OtherOps)
  BY <1>1, HeadTailProperties, OpFields
<1>4. PICK a \in AlterOps : todo[t] = <<a>>
  BY <1>2, <1>3
<1> QED
  BY <1>1, <1>4

\* A list of lists of operations for the elements of a set of names.
LEMMA ForNames ==
  ASSUME NEW S \in SUBSET Name, NEW ops, DOMAIN ops = S, \A n \in S : ops[n] \in Seq(OtherOps),
         ops = [n \in S |-> ops[n]]
  PROVE  ForEach(ops) \in Seq(OtherOps)
<1>1. IsFiniteSet(S)
  BY FS_Subset, CatalogConstants
<1>2. ops \in [S -> Seq(OtherOps)]
  OBVIOUS
<1> QED
  BY <1>1, <1>2, ForEachOps

\* DependencyManager::CleanupDependencies is a list of operations.
LEMMA CleanupDependenciesOps ==
  ASSUME NEW t, NEW n \in Name
  PROVE  /\ CleanupDependencies(t, n) \in Seq(OtherOps)
         /\ SubjectsOf(t, n) \subseteq DependsOn[n] /\ SubjectsOf(t, n) \subseteq Name
         /\ DependentsOf(t, n) \subseteq Name /\ \A d \in DependentsOf(t, n) : n \in DependsOn[d]
<1>1. /\ SubjectsOf(t, n) \subseteq DependsOn[n] /\ SubjectsOf(t, n) \subseteq Name
      /\ DependentsOf(t, n) \subseteq Name /\ \A d \in DependentsOf(t, n) : n \in DependsOn[d]
  BY CatalogConstants DEF SubjectsOf, DependentsOf
<1>2. ASSUME NEW d \in Name, NEW s \in DependsOn[d] PROVE RemoveDependency(s, d) \in Seq(OtherOps)
  <2>1. UnlinkOp(Dependents(s, d)) \in OtherOps /\ UnlinkOp(Subjects(d, s)) \in OtherOps
    BY KeysOf, OpsMade
  <2> QED
    BY <2>1 DEF RemoveDependency
<1> DEFINE f == [s \in SubjectsOf(t, n) |-> RemoveDependency(s, n)]
           g == [d \in DependentsOf(t, n) |-> RemoveDependency(n, d)]
<1>3. ForEach(f) \in Seq(OtherOps)
  <2>1. DOMAIN f = SubjectsOf(t, n) /\ (\A s \in SubjectsOf(t, n) : f[s] \in Seq(OtherOps))
        /\ f = [s \in SubjectsOf(t, n) |-> f[s]]
    BY <1>1, <1>2
  <2> HIDE DEF f
  <2> QED
    BY <1>1, <2>1, ForNames
<1>4. ForEach(g) \in Seq(OtherOps)
  <2>1. DOMAIN g = DependentsOf(t, n) /\ (\A s \in DependentsOf(t, n) : g[s] \in Seq(OtherOps))
        /\ g = [s \in DependentsOf(t, n) |-> g[s]]
    BY <1>1, <1>2
  <2> HIDE DEF g
  <2> QED
    BY <1>1, <2>1, ForNames
<1> HIDE DEF f, g
<1>5. ForEach(f) \o ForEach(g) \in Seq(OtherOps)
  BY <1>3, <1>4, ConcatProperties
<1> QED
  BY <1>1, <1>5 DEF CleanupDependencies, f, g
-----------------------------------------------------------------------------
(* The actions of a running transaction.                                   *)

\* A statement begins.
LEMMA StatementInv ==
  ASSUME CInv, NEW t \in Txn, NEW ops \in Seq(OtherOps) \cup {<<a>> : a \in AlterOps}, Statement(t, ops),
         ops \in Seq(OtherOps) \/ \E a \in AlterOps : ops = <<a>> /\ Finds(t, Object(a.name))
  PROVE  CInv' /\ Operated(t)
<1>1. phase[t] = "active" /\ PhasesKept
  BY DEF Statement, PhasesKept, CInv, Types
<1>2. SetsOK(Unchanged(t), t) /\ map' = Unchanged(t).map /\ undo' = BufferOf(t, Unchanged(t).undo)
  <2>1. undo = BufferOf(t, undo[t])
    BY DEF BufferOf, CInv, Types
  <2> QED
    BY <2>1, UnchangedOK DEF Statement
<1>3. todo' \in [Txn -> Seq(OtherOps) \cup {<<a>> : a \in AlterOps}]
  BY DEF Statement, CInv, Types
<1>4. CInv' /\ (\A x \in Txn \ {t} : undo'[x] = undo[x]) /\ \E K : Grows(map', undo'[t], t, K)
  BY <1>1, <1>2, <1>3, OperationInv
<1>5. \A x \in Txn \ {t} : phase'[x] = phase[x] /\ todo'[x] = todo[x]
  BY DEF Statement, CInv, Types
<1>6. todo'[t] = ops /\ map' = map
  BY DEF Statement, CInv, Types
<1> QED
  BY <1>1, <1>4, <1>5, <1>6 DEF Operated

\* CREATE, DROP and ALTER.
LEMMA CreateInv ==
  ASSUME CInv, NEW t \in Txn, NEW c \in Creates, Create(t, c.name, c.requires, c.replace)
  PROVE  CInv' /\ Operated(t)
<1>1. c.name \in Name /\ c.requires \in SUBSET Name /\ c.requires \subseteq DependsOn[c.name]
  BY CatalogConstants
<1> DEFINE f == [s \in c.requires |-> <<LinkOp(s, c.name)>>]
           a == IF c.replace /\ Finds(t, Object(c.name)) THEN <<DropEntryOp(c.name, FALSE)>> ELSE <<>>
           b == <<CreateOp(Object(c.name), c.requires)>>
<1>2. a \in Seq(OtherOps)
  <2>1. DropEntryOp(c.name, FALSE) \in OtherOps
    BY <1>1, OpsMade
  <2>2. <<DropEntryOp(c.name, FALSE)>> \in Seq(OtherOps) /\ <<>> \in Seq(OtherOps)
    <3> DEFINE x == DropEntryOp(c.name, FALSE)
    <3>1. x \in OtherOps
      BY <2>1
    <3> HIDE DEF x
    <3>2. <<x>> \in Seq(OtherOps) /\ <<>> \in Seq(OtherOps)
      BY <3>1
    <3> QED
      BY <3>2 DEF x
  <2>3. a = <<DropEntryOp(c.name, FALSE)>> \/ a = <<>>
    BY Zenon
  <2> QED
    BY <2>2, <2>3
<1>3. b \in Seq(OtherOps)
  <2>1. CreateOp(Object(c.name), c.requires) \in OtherOps
    BY <1>1, KeysOf, OpsMade
  <2> QED
    BY <2>1
<1>4. ForEach(f) \in Seq(OtherOps)
  <2>1. \A s \in c.requires : LinkOp(s, c.name) \in OtherOps
    BY <1>1, OpsMade
  <2>2. DOMAIN f = c.requires /\ (\A s \in c.requires : f[s] \in Seq(OtherOps)) /\ f = [s \in c.requires |-> f[s]]
    BY <2>1
  <2> HIDE DEF f
  <2> QED
    BY <1>1, <2>2, ForNames
<1>5. Statement(t, a \o ForEach(f) \o b)
  BY DEF Create
<1> HIDE DEF a, b, f
<1>6. a \o ForEach(f) \o b \in Seq(OtherOps)
  BY <1>2, <1>3, <1>4, ConcatProperties
<1> QED
  BY <1>5, <1>6, StatementInv

\* A DROP statement begins.
LEMMA DropInv ==
  ASSUME CInv, NEW t \in Txn, NEW d \in Drops, Drop(t, d.name, d.cascade)
  PROVE  CInv' /\ Operated(t)
<1>1. DropEntryOp(d.name, d.cascade) \in OtherOps
  BY CatalogConstants, OpsMade
<1>2. <<DropEntryOp(d.name, d.cascade)>> \in Seq(OtherOps)
  BY <1>1
<1>3. Statement(t, <<DropEntryOp(d.name, d.cascade)>>)
  BY DEF Drop
<1> QED
  BY <1>2, <1>3, StatementInv

\* An ALTER statement begins; its entry has been found.
LEMMA AlterInv ==
  ASSUME CInv, NEW t \in Txn, NEW a \in Alters, Alter(t, a.name, a.new, a.additive)
  PROVE  CInv' /\ Operated(t)
<1>1. AlterOp(a.name, a.new, a.additive) \in AlterOps
  BY CatalogConstants, OpsMade
<1>2. Statement(t, <<AlterOp(a.name, a.new, a.additive)>>) /\ Finds(t, Object(a.name))
  BY DEF Alter
<1>3. AlterOp(a.name, a.new, a.additive).name = a.name
  BY DEF AlterOp
<1> QED
  BY <1>1, <1>2, <1>3, StatementInv

\* CatalogSet::CreateEntry and DropEntryInternal.
LEMMA CreateEntryInv ==
  ASSUME CInv, NEW t \in Txn, CreateEntry(t)
  PROVE  CInv' /\ Operated(t)
<1> DEFINE o == Head(todo[t])
           sets == PutCreate(Unchanged(t), t, o.key, "ENTRY", o.requires)
<1>1. phase[t] = "active" /\ o \in OtherOps /\ o.op = "create" /\ Tail(todo[t]) \in Seq(OtherOps)
  BY NextOther DEF CreateEntry
<1>2. o.key \in Key /\ o.requires \in SUBSET Name
  BY <1>1, OpFields
<1>3. SetsOK(sets, t)
  BY <1>1, <1>2, UnchangedOK, PutCreateOK
<1>4. EndOperation(t, sets, Tail(todo[t]))
  BY DEF CreateEntry
<1> HIDE DEF sets
<1> QED
  BY <1>1, <1>3, <1>4, EndOperationInv

\* CatalogSet::DropEntryInternal.
LEMMA DropEntryInv ==
  ASSUME CInv, NEW t \in Txn, DropEntry(t)
  PROVE  CInv' /\ Operated(t)
<1> DEFINE o == Head(todo[t])
           sets == PutDrop(Unchanged(t), t, o.key)
<1>1. phase[t] = "active" /\ o \in OtherOps /\ o.op = "drop" /\ Tail(todo[t]) \in Seq(OtherOps)
  BY NextOther DEF DropEntry
<1>2. o.key \in Key
  BY <1>1, OpFields
<1>3. SetsOK(sets, t)
  BY <1>1, <1>2, UnchangedOK, PutDropOK
<1>4. EndOperation(t, sets, Tail(todo[t]))
  BY DEF DropEntry
<1> HIDE DEF sets
<1> QED
  BY <1>1, <1>3, <1>4, EndOperationInv

\* Half of a link is dropped.
LEMMA UnlinkInv ==
  ASSUME CInv, NEW t \in Txn, Unlink(t)
  PROVE  CInv' /\ Operated(t)
<1> DEFINE o == Head(todo[t])
           sets == IF Finds(t, o.key) THEN PutDrop(Unchanged(t), t, o.key) ELSE Unchanged(t)
<1>1. phase[t] = "active" /\ o \in OtherOps /\ o.op = "unlink" /\ Tail(todo[t]) \in Seq(OtherOps)
  BY NextOther DEF Unlink
<1>2. o.key \in Key
  BY <1>1, OpFields
<1>3. SetsOK(Unchanged(t), t)
  BY UnchangedOK
<1>4. SetsOK(PutDrop(Unchanged(t), t, o.key), t)
  BY <1>1, <1>2, <1>3, PutDropOK
<1>5. EndOperation(t, sets, Tail(todo[t]))
  BY DEF Unlink
<1>6. SetsOK(sets, t)
  BY <1>3, <1>4
<1> HIDE DEF sets
<1> QED
  BY <1>1, <1>5, <1>6, EndOperationInv

\* DependencyManager::CreateDependency.
LEMMA CreateDependencyInv ==
  ASSUME CInv, NEW t \in Txn, CreateDependency(t)
  PROVE  CInv' /\ Operated(t)
<1> DEFINE s == Head(todo[t]).subject
           d == Head(todo[t]).dependent
           a == DropIfFound(t, Subjects(d, s))
           b == DropIfFound(t, Dependents(s, d))
           c == <<CreateOp(Dependents(s, d), {}), CreateOp(Subjects(d, s), {})>>
<1>1. /\ phase[t] = "active" /\ Head(todo[t]) \in OtherOps /\ Head(todo[t]).op = "link"
      /\ Tail(todo[t]) \in Seq(OtherOps)
  BY NextOther DEF CreateDependency
<1>2. d \in Name /\ s \in DependsOn[d]
  BY <1>1, OpFields
<1>3. Dependents(s, d) \in Key /\ Subjects(d, s) \in Key
  BY <1>2, KeysOf
<1>4. EndOperation(t, Unchanged(t), a \o b \o c \o Tail(todo[t]))
  BY DEF CreateDependency
<1>5. /\ DropOp(Subjects(d, s)) \in OtherOps /\ DropOp(Dependents(s, d)) \in OtherOps
      /\ CreateOp(Dependents(s, d), {}) \in OtherOps /\ CreateOp(Subjects(d, s), {}) \in OtherOps
  BY <1>3, OpsMade
<1>6. a \in Seq(OtherOps) /\ b \in Seq(OtherOps)
  BY <1>5 DEF DropIfFound
<1>7. c \in Seq(OtherOps)
  BY <1>5
<1> HIDE DEF a, b, c
<1>8. a \o b \o c \o Tail(todo[t]) \in Seq(OtherOps)
  BY <1>1, <1>6, <1>7, ConcatProperties
<1> QED
  BY <1>1, <1>4, <1>8, UnchangedOK, EndOperationInv

\* CatalogSet::DropDependencies.
LEMMA DropDependenciesInv ==
  ASSUME CInv, NEW t \in Txn, DropDependencies(t)
  PROVE  CInv' /\ Operated(t)
<1> DEFINE n == Head(todo[t]).name
           cascade == Head(todo[t]).cascade
           dependents == {d \in DependentsOf(t, n) : Finds(t, Object(d))}
           cascaded == IF cascade THEN dependents ELSE dependents \cap Index
           f == [d \in cascaded |-> <<DropEntryOp(d, cascade)>>]
           all == CleanupDependencies(t, n) \o ForEach(f) \o <<DropOp(Object(n))>>
           ops == IF ~ Finds(t, Object(n)) THEN <<>> ELSE all
<1>1. /\ phase[t] = "active" /\ Head(todo[t]) \in OtherOps /\ Head(todo[t]).op = "DropEntry"
      /\ Tail(todo[t]) \in Seq(OtherOps)
  BY NextOther DEF DropDependencies
<1>2. n \in Name /\ cascade \in BOOLEAN
  BY <1>1, OpFields
<1>3. cascaded \in SUBSET Name
  BY <1>2, CleanupDependenciesOps
<1>4. ForEach(f) \in Seq(OtherOps)
  <2>1. \A d \in cascaded : DropEntryOp(d, cascade) \in OtherOps
    BY <1>2, <1>3, OpsMade
  <2>2. DOMAIN f = cascaded /\ (\A d \in cascaded : f[d] \in Seq(OtherOps)) /\ f = [d \in cascaded |-> f[d]]
    BY <2>1
  <2> HIDE DEF f, cascaded
  <2> QED
    BY <1>3, <2>2, ForNames
<1>5. Fail(t) \/ EndOperation(t, Unchanged(t), ops \o Tail(todo[t]))
  BY DEF DropDependencies
<1> HIDE DEF f
<1>6. all \in Seq(OtherOps)
  <2>1. DropOp(Object(n)) \in OtherOps
    BY <1>2, KeysOf, OpsMade
  <2>2. <<DropOp(Object(n))>> \in Seq(OtherOps)
    BY <2>1
  <2> QED
    BY <1>2, <1>4, <2>2, CleanupDependenciesOps, ConcatProperties
<1> HIDE DEF all
<1>7. ops \o Tail(todo[t]) \in Seq(OtherOps)
  <2>1. ops \in Seq(OtherOps)
    BY <1>6
  <2> HIDE DEF ops
  <2> QED
    BY <1>1, <2>1, ConcatProperties
<1>8. CASE Fail(t)
  BY <1>1, <1>8, FailInv
<1>9. CASE EndOperation(t, Unchanged(t), ops \o Tail(todo[t]))
  <2> HIDE DEF ops
  <2> QED
    BY <1>1, <1>7, <1>9, UnchangedOK, EndOperationInv
<1> QED
  BY <1>5, <1>8, <1>9

\* DependencyManager::AlterObject.
LEMMA AlterObjectInv ==
  ASSUME CInv, NEW t \in Txn, AlterObject(t)
  PROVE  CInv' /\ Operated(t)
<1> DEFINE o == Head(todo[t])
           cleanup == IF o.new = o.name THEN <<>> ELSE CleanupDependencies(t, o.name)
           subjects == {s \in SubjectsOf(t, o.name) : Finds(t, Object(s))}
           f == [d \in DependentsOf(t, o.name) |-> <<LinkOp(o.new, d)>>]
           g == [s \in subjects |-> <<LinkOp(s, o.new)>>]
<1>1. phase[t] = "active" /\ o \in OtherOps /\ o.op = "AlterObject"
  BY NextOther DEF AlterObject
<1>2. /\ o.name \in Name /\ o.new \in Name /\ (o.additive => o.new = o.name)
      /\ DependsOn[o.name] \subseteq DependsOn[o.new]
  BY <1>1, OpFields
<1>3. \/ Fail(t)
      \/ /\ DependentsOf(t, o.name) = {} \/ o.additive
         /\ EndOperation(t, Unchanged(t), cleanup \o ForEach(f) \o ForEach(g))
  BY DEF AlterObject
<1>4. /\ CleanupDependencies(t, o.name) \in Seq(OtherOps)
      /\ SubjectsOf(t, o.name) \subseteq DependsOn[o.name] /\ SubjectsOf(t, o.name) \subseteq Name
      /\ DependentsOf(t, o.name) \subseteq Name
      /\ \A d \in DependentsOf(t, o.name) : o.name \in DependsOn[d]
  BY <1>2, CleanupDependenciesOps
<1>5. CASE Fail(t)
  BY <1>1, <1>5, FailInv
<1>6. CASE /\ DependentsOf(t, o.name) = {} \/ o.additive
           /\ EndOperation(t, Unchanged(t), cleanup \o ForEach(f) \o ForEach(g))
  <2>1. cleanup \in Seq(OtherOps)
    BY <1>4
  <2>2. ForEach(f) \in Seq(OtherOps)
    <3>1. \A d \in DependentsOf(t, o.name) : LinkOp(o.new, d) \in OtherOps
      BY <1>2, <1>4, <1>6, OpsMade
    <3>2. /\ DOMAIN f = DependentsOf(t, o.name) /\ (\A d \in DependentsOf(t, o.name) : f[d] \in Seq(OtherOps))
          /\ f = [d \in DependentsOf(t, o.name) |-> f[d]]
      BY <3>1
    <3> HIDE DEF f
    <3> QED
      BY <1>4, <3>2, ForNames
  <2>3. ForEach(g) \in Seq(OtherOps)
    <3>1. subjects \in SUBSET Name /\ \A s \in subjects : LinkOp(s, o.new) \in OtherOps
      BY <1>2, <1>4, OpsMade
    <3>2. DOMAIN g = subjects /\ (\A s \in subjects : g[s] \in Seq(OtherOps)) /\ g = [s \in subjects |-> g[s]]
      BY <3>1
    <3> HIDE DEF g, subjects
    <3> QED
      BY <3>1, <3>2, ForNames
  <2> HIDE DEF f, g, cleanup
  <2>4. cleanup \o ForEach(f) \o ForEach(g) \in Seq(OtherOps)
    BY <2>1, <2>2, <2>3, ConcatProperties
  <2> QED
    BY <1>1, <1>6, <2>4, UnchangedOK, EndOperationInv
<1> QED
  BY <1>3, <1>5, <1>6

\* The entry that a transaction sees is the first that it can use, or the last.
LEMMA SeenEntry ==
  ASSUME NEW c \in Chains, c # <<>>, NEW txn
  PROVE  \E i \in 1..Len(c) :
            /\ GetEntryForTransaction(c, txn) = c[i]
            /\ i = Len(c) \/ UseTimestamp(txn, c[i].timestamp)
            /\ \A j \in 1..i - 1 : ~ UseTimestamp(txn, c[j].timestamp)
<1>1. Len(c) \in Nat /\ DOMAIN c = 1..Len(c) /\ Len(c) # 0
  BY ChainElements
<1> DEFINE I == {i \in 1..Len(c) : i = Len(c) \/ UseTimestamp(txn, c[i].timestamp)}
           k == Min(I)
<1>2. Len(c) \in I /\ I \in SUBSET Nat
  BY <1>1
<1>3. k \in I /\ \A x \in I : k <= x
  BY <1>2, MinIsLeast
<1>4. k \in 1..Len(c) /\ (k = Len(c) \/ UseTimestamp(txn, c[k].timestamp)) /\ k \in Nat
  BY <1>2, <1>3
<1>5. \A j \in 1..k - 1 : ~ UseTimestamp(txn, c[j].timestamp)
  <2> SUFFICES ASSUME NEW j \in 1..k - 1, UseTimestamp(txn, c[j].timestamp) PROVE FALSE
    OBVIOUS
  <2>0. \A n, x \in Nat : \A y \in 1..x - 1 : x \in 1..n => y \in 1..n /\ ~ (x <= y)
    OBVIOUS
  <2> HIDE DEF k, I
  <2>1. Len(c) \in Nat /\ k \in Nat /\ k \in 1..Len(c)
    BY <1>1, <1>4, Zenon
  <2>2. j \in 1..Len(c) /\ ~ (k <= j)
    BY <2>0, <2>1
  <2> QED
    BY <1>3, <2>2 DEF I
<1> HIDE DEF k
<1>6. k \in DOMAIN c
  BY <1>1, <1>4
<1> DEFINE Is(i) == /\ i = Len(c) \/ UseTimestamp(txn, c[i].timestamp)
                    /\ \A j \in 1..i - 1 : ~ UseTimestamp(txn, c[j].timestamp)
           i0 == CHOOSE i \in DOMAIN c : Is(i)
<1>7. Is(k)
  BY <1>4, <1>5
<1>8. GetEntryForTransaction(c, txn) = c[i0]
  BY DEF GetEntryForTransaction
<1> HIDE DEF Is
<1>9. i0 \in DOMAIN c /\ Is(i0)
  BY <1>6, <1>7
<1> HIDE DEF i0
<1> QED
  BY <1>1, <1>8, <1>9 DEF Is

\* ... and no other.
LEMMA SeenIs ==
  ASSUME NEW c \in Chains, NEW txn, NEW i \in 1..Len(c),
         i = Len(c) \/ UseTimestamp(txn, c[i].timestamp),
         \A j \in 1..i - 1 : ~ UseTimestamp(txn, c[j].timestamp)
  PROVE  GetEntryForTransaction(c, txn) = c[i]
<1>1. Len(c) \in Nat
  BY ChainElements
<1>2. c # <<>>
  <2>1. Len(c) # 0
    BY <1>1
  <2> QED
    BY <2>1, ChainElements
<1>3. PICK k \in 1..Len(c) :
            /\ GetEntryForTransaction(c, txn) = c[k]
            /\ k = Len(c) \/ UseTimestamp(txn, c[k].timestamp)
            /\ \A j \in 1..k - 1 : ~ UseTimestamp(txn, c[j].timestamp)
  BY <1>2, SeenEntry
<1>4. i \in 1..k - 1 => i # Len(c)
  BY <1>1
<1>5. k \in 1..i - 1 => k # Len(c)
  BY <1>1
<1>6. i \notin 1..k - 1 /\ k \notin 1..i - 1
  BY <1>3, <1>4, <1>5
<1>7. i = k
  BY <1>1, <1>6
<1> QED
  BY <1>3, <1>7

\* The locked part of CatalogSet::AlterEntry.
LEMMA AlterEntryInv ==
  ASSUME CInv, NEW t \in Txn, AlterEntry(t)
  PROVE  CInv' /\ Operated(t)
<1> DEFINE o        == Head(todo[t])
           n        == Object(o.name)
           m        == Object(o.new)
           found    == GetEntryInternal(map[n], Data(t))
           requires == GetEntryForTransaction(map[n], Data(t)).requires
           s1       == Put(Unchanged(t), t, n, found, "RENAMED_ENTRY", {})
           s2       == PutDrop(s1, t, n)
           s3       == PutCreate(s2, t, m, "RENAMED_ENTRY", {})
           moved    == IF m = n THEN [Unchanged(t) EXCEPT !.status = found] ELSE s3
           new      == Put(moved, t, m, "ok", "ENTRY", requires)
           rest     == <<AlterObjectOp(o.name, o.new, o.additive)>>
<1>1. phase[t] = "active" /\ o \in AlterOps
  BY NextAlter DEF AlterEntry
<1>2. /\ o.name \in Name /\ o.new \in Name /\ o.additive \in BOOLEAN /\ (o.additive => o.new = o.name)
      /\ DependsOn[o.name] \subseteq DependsOn[o.new]
  BY <1>1 DEF AlterOps
<1>3. n \in Key /\ m \in Key
  BY <1>2, KeysOf
<1>4. <<>> \in Seq(OtherOps) /\ rest \in Seq(OtherOps)
  <2>1. AlterObjectOp(o.name, o.new, o.additive) \in OtherOps
    BY <1>2, OpsMade
  <2> QED
    BY <2>1
<1>5. EndOperation(t, Unchanged(t), <<>>) \/ EndOperation(t, new, rest)
  BY DEF AlterEntry
<1>6. map \in [Key -> Chains] /\ map[n] \in Chains
  BY <1>3 DEF CInv, Types
<1>7. found \in Statuses
  BY DEF GetEntryInternal, Statuses
<1>8. found = "ok" => Clear(map[n], t) /\ map[n] # <<>>
  BY DEF GetEntryInternal, Clear
<1>9. found = "ok" => requires \in SUBSET Name
  <2> SUFFICES ASSUME found = "ok" PROVE requires \in SUBSET Name
    OBVIOUS
  <2>1. PICK i \in 1..Len(map[n]) : GetEntryForTransaction(map[n], Data(t)) = map[n][i]
    BY <1>6, <1>8, SeenEntry
  <2>2. map[n][i] \in Entries
    BY <1>6, <2>1, ChainElements
  <2> QED
    BY <2>1, <2>2 DEF Entries
<1>10. SetsOK(Unchanged(t), t) /\ Unchanged(t).map = map /\ Unchanged(t).status = "ok"
  BY UnchangedOK DEF Unchanged
<1>11. SetsOK(new, t)
  <2> HIDE DEF n, m, found, requires
  <2>1. CASE m = n
    <3> DEFINE s == [Unchanged(t) EXCEPT !.status = found]
    <3>1. Unchanged(t) \in [map : [Key -> Chains], undo : Buffers, status : Statuses]
      BY <1>10 DEF SetsOK
    <3>2. /\ s \in [map : [Key -> Chains], undo : Buffers, status : Statuses] /\ s.map = map
          /\ s.undo = Unchanged(t).undo /\ s.status = found
      BY <1>7, <1>10, <3>1
    <3>3. moved = s
      BY <2>1
    <3> HIDE DEF s, moved
    <3>4. SetsOK(s, t)
      BY <1>10, <3>2 DEF SetsOK
    <3>5. s.status = "ok" => Clear(s.map[m], t) /\ requires \in SUBSET Name
      BY <1>8, <1>9, <2>1, <3>2
    <3>6. "ok" \in Statuses
      BY DEF Statuses
    <3> QED
      BY <1>1, <1>3, <3>3, <3>4, <3>5, <3>6, PutOK
  <2>2. CASE m # n
    <3>1. SetsOK(s1, t) /\ (s1.status = "ok" => found = "ok")
      <4>1. Unchanged(t).status = "ok" /\ found = "ok" => Clear(Unchanged(t).map[n], t) /\ {} \in SUBSET Name
        BY <1>8, <1>10
      <4> QED
        BY <1>1, <1>3, <1>7, <1>10, <4>1, PutOK
    <3> HIDE DEF s1
    <3>2. SetsOK(s2, t) /\ (s2.status = "ok" => s1.status = "ok")
      BY <1>1, <1>3, <3>1, PutDropOK
    <3> HIDE DEF s2
    <3>3. SetsOK(s3, t) /\ (s3.status = "ok" => s2.status = "ok" /\ OnTop(s3.map[m], t))
      <4>1. {} \in SUBSET Name /\ "RENAMED_ENTRY" \in {"ENTRY", "DELETED_ENTRY", "RENAMED_ENTRY"}
        OBVIOUS
      <4> QED
        BY <1>1, <1>3, <3>2, <4>1, PutCreateOK
    <3>4. moved = s3
      BY <2>2
    <3> HIDE DEF s3, moved
    <3>5. OnTop(s3.map[m], t) => Clear(s3.map[m], t)
      <4>1. TRANSACTION_ID_START \in Nat /\ transaction_id[t] \in Nat /\ TRANSACTION_ID_START <= transaction_id[t]
        BY <1>1, ActiveFacts, CatalogConstants
      <4> QED
        BY <4>1 DEF OnTop, Clear, HasConflict, Data
    <3>6. s3.status = "ok" => Clear(s3.map[m], t) /\ requires \in SUBSET Name
      BY <1>9, <3>1, <3>2, <3>3, <3>5
    <3>7. "ok" \in Statuses /\ "ENTRY" \in {"ENTRY", "DELETED_ENTRY", "RENAMED_ENTRY"}
      BY DEF Statuses
    <3> QED
      BY <1>1, <1>3, <3>3, <3>4, <3>6, <3>7, PutOK
  <2> QED
    BY <2>1, <2>2
<1> HIDE DEF new, rest
<1> QED
  BY <1>1, <1>4, <1>5, <1>10, <1>11, EndOperationInv
-----------------------------------------------------------------------------
(* Transactions begin, commit and roll back.                               *)

\* What has the lock commits or rolls back.
LEMMA Unlocked ==
  ASSUME CInv, transaction_lock = NoTxn
  PROVE  \A u \in Txn : phase[u] \notin {"committing", "rolling_back"}
<1>1. \A u \in Txn : u # NoTxn
  BY CatalogConstants
<1> QED
  BY <1>1 DEF CInv, Locked

\* A transaction begins.
LEMMA StartTransactionInv ==
  ASSUME CInv, NEW t \in Txn, StartTransaction(t)
  PROVE  CInv'
<1>1. /\ phase[t] = "idle" /\ transaction_lock = NoTxn /\ current_start_timestamp < TRANSACTION_ID_START
      /\ phase' = [phase EXCEPT ![t] = "active"]
      /\ start_time' = [start_time EXCEPT ![t] = current_start_timestamp]
      /\ transaction_id' = [transaction_id EXCEPT ![t] = current_transaction_id]
      /\ current_start_timestamp' = current_start_timestamp + 1
      /\ current_transaction_id' = current_transaction_id + 1
      /\ commit_id' = commit_id /\ transaction_lock' = transaction_lock /\ map' = map /\ undo' = undo
      /\ at' = at /\ todo' = todo /\ recently_committed' = recently_committed
  BY DEF StartTransaction
<1>2. Types'
  BY <1>1 DEF CInv, Types
<1>3. \A u \in Txn : phase[u] \notin {"committing", "rolling_back"}
  BY <1>1, Unlocked
<1>4. \A u \in Txn : phase'[u] = IF u = t THEN "active" ELSE phase[u]
  BY <1>1 DEF CInv, Types
<1>5. \A u \in Txn : start_time'[u] = IF u = t THEN current_start_timestamp ELSE start_time[u]
  BY <1>1 DEF CInv, Types
<1>6. \A u \in Txn : transaction_id'[u] = IF u = t THEN current_transaction_id ELSE transaction_id[u]
  BY <1>1 DEF CInv, Types
<1>7. Ended' = Ended /\ Running' = Running \cup {t} /\ t \notin Ended /\ t \notin Running
  BY <1>1, <1>4 DEF Ended, Running
<1>8. Locked'
  <2>1. transaction_lock' # t
    BY <1>1, CatalogConstants
  <2> QED
    BY <1>1, <1>4, <2>1 DEF CInv, Locked
<1>9. Clocks'
  <2>0. /\ \A u \in Txn : start_time[u] \in Nat /\ commit_id[u] \in Nat /\ transaction_id[u] \in Nat
        /\ current_start_timestamp \in Nat /\ current_transaction_id \in Nat /\ TRANSACTION_ID_START \in Nat
    BY CatalogConstants DEF CInv, Types
  <2>1. /\ 0 < current_start_timestamp' /\ current_start_timestamp' <= TRANSACTION_ID_START
        /\ TRANSACTION_ID_START <= current_transaction_id'
    BY <1>1, <2>0 DEF CInv, Clocks
  <2>2. \A u \in Txn : start_time'[u] < current_start_timestamp' /\ commit_id'[u] < current_start_timestamp'
    BY <1>1, <1>5, <2>0 DEF CInv, Clocks
  <2>3. \A u \in Running' : TRANSACTION_ID_START <= transaction_id'[u] /\ transaction_id'[u] < current_transaction_id'
    BY <1>1, <1>6, <1>7, <2>0 DEF CInv, Clocks, Running
  <2>4. \A u, v \in Running' : transaction_id'[u] = transaction_id'[v] => u = v
    <3> SUFFICES ASSUME NEW u \in Running', NEW v \in Running', transaction_id'[u] = transaction_id'[v], u # v
                 PROVE  FALSE
      OBVIOUS
    <3>1. u \in Txn /\ v \in Txn
      BY <1>7 DEF Running
    <3>2. CASE u = t
      BY <1>6, <1>7, <2>0, <3>1, <3>2 DEF CInv, Clocks
    <3>3. CASE v = t
      BY <1>6, <1>7, <2>0, <3>1, <3>3 DEF CInv, Clocks
    <3>4. CASE u # t /\ v # t
      BY <1>6, <1>7, <3>1, <3>4 DEF CInv, Clocks
    <3> QED
      BY <3>2, <3>3, <3>4
  <2>5. \A u \in Txn : phase'[u] # "committing"
    BY <1>3, <1>4
  <2> QED
    BY <1>1, <2>1, <2>2, <2>3, <2>4, <2>5 DEF Clocks
<1>10. Recent'
  <2>1. \A i \in DOMAIN recently_committed :
          /\ recently_committed[i] \in Txn /\ recently_committed[i] # t
          /\ commit_id[recently_committed[i]] # current_start_timestamp
    <3> SUFFICES ASSUME NEW i \in DOMAIN recently_committed
                 PROVE  /\ recently_committed[i] \in Txn /\ recently_committed[i] # t
                        /\ commit_id[recently_committed[i]] # current_start_timestamp
      OBVIOUS
    <3>1. recently_committed[i] \in Ended
      BY DEF CInv, Recent
    <3>2. recently_committed[i] \in Txn /\ recently_committed[i] # t
      BY <1>1, <3>1 DEF Ended
    <3>3. commit_id[recently_committed[i]] \in Nat /\ commit_id[recently_committed[i]] < current_start_timestamp
      BY <3>2 DEF CInv, Types, Clocks
    <3> QED
      BY <3>2, <3>3 DEF CInv, Types
  <2>2. ASSUME NEW i \in DOMAIN recently_committed
        PROVE  /\ recently_committed[i] \in Ended'
               /\ start_time'[recently_committed[i]] < commit_id[recently_committed[i]]
               /\ \A u \in Running' : commit_id[recently_committed[i]] # start_time'[u]
    <3>1. recently_committed[i] \in Ended' /\ start_time'[recently_committed[i]] < commit_id[recently_committed[i]]
      BY <1>5, <1>7, <2>1 DEF CInv, Recent
    <3>2. \A u \in Running' : commit_id[recently_committed[i]] # start_time'[u]
      <4> SUFFICES ASSUME NEW u \in Running' PROVE commit_id[recently_committed[i]] # start_time'[u]
        OBVIOUS
      <4>1. CASE u = t
        BY <1>5, <2>1, <4>1
      <4>2. CASE u # t
        <5>1. u \in Running /\ u \in Txn
          BY <1>7, <4>2 DEF Running
        <5> QED
          BY <1>5, <4>2, <5>1 DEF CInv, Recent
      <4> QED
        BY <4>1, <4>2
    <3> QED
      BY <3>1, <3>2
  <2>3. \A u \in Txn : phase'[u] = "idle" => undo'[u] = <<>>
    BY <1>1, <1>4 DEF CInv, Recent
  <2> QED
    BY <1>1, <1>7, <2>2, <2>3 DEF CInv, Recent
<1>11. MapWoven'
  <2> DEFINE P == PendingIds(undo)
  <2>1. PendingIds(undo)' = P
    <3>1. \A u \in Txn : UndoUpTo(undo, u)' = UndoUpTo(undo, u)
      BY <1>1, <1>4 DEF UndoUpTo
    <3> QED
      BY <3>1 DEF PendingIds
  <2>2. \A p \in P : p \in Txn \X Nat /\ p[1] \in Txn /\ p[1] # t
    <3>1. UndoUpTo(undo, t) = 0
      <4>1. undo[t] = <<>>
        BY <1>1 DEF CInv, Recent
      <4> QED
        BY <1>1, <4>1 DEF UndoUpTo
    <3>2. \A p \in P : p \in Txn \X Nat /\ p[1] \in Txn /\ p[2] \in 1..UndoUpTo(undo, p[1])
      BY DEF PendingIds
    <3> QED
      BY <3>1, <3>2
  <2> HIDE DEF P
  <2>3. \A p, q \in P : Older(p, q, Before) => Older(p, q, Before')
    <3> SUFFICES ASSUME NEW p \in P, NEW q \in P, Older(p, q, Before) PROVE Older(p, q, Before')
      OBVIOUS
    <3>1. <<p[1], q[1]>> \in Before => <<p[1], q[1]>> \in Before'
      BY <1>1, <1>4, <1>5, <2>2 DEF Before
    <3> QED
      BY <3>1 DEF Older
  <2>4. \A p \in P : Stamps'[p] = Stamps[p]
    BY <1>1, <1>4, <1>6, <2>2 DEF Stamps, StampOf
  <2>5. Woven(map, undo, P, Before, Ended, Stamps) /\ undo \in [Txn -> Buffers] /\ Within(undo, P)
    BY DEF CInv, MapWoven, P, Woven
  <2>6. Alike(P, undo, Before, Stamps, undo, P, Before', Stamps')
    BY <2>3, <2>4 DEF Alike, SameUndo
  <2>7. Stamps' \in [Txn \X Nat -> Nat]
    <3>1. \A p \in Txn \X Nat : StampOf(p)' \in Nat
      BY <1>2 DEF Types, StampOf
    <3> QED
      BY <3>1 DEF Stamps
  <2>8. Woven(map, undo, P, Before', Ended', Stamps')
    BY <1>7, <2>5, <2>6, <2>7, WovenAlike
  <2> QED
    BY <1>1, <2>1, <2>8 DEF MapWoven
<1> QED
  BY <1>2, <1>8, <1>9, <1>10, <1>11 DEF CInv

\* A commit begins.
LEMMA BeginCommitInv ==
  ASSUME CInv, NEW t \in Txn, BeginCommit(t)
  PROVE  CInv'
<1>1. /\ phase[t] = "active" /\ transaction_lock = NoTxn /\ current_start_timestamp < TRANSACTION_ID_START
      /\ phase' = [phase EXCEPT ![t] = "committing"]
      /\ commit_id' = [commit_id EXCEPT ![t] = current_start_timestamp]
      /\ current_start_timestamp' = current_start_timestamp + 1
      /\ transaction_lock' = t /\ at' = 0
      /\ start_time' = start_time /\ transaction_id' = transaction_id
      /\ current_transaction_id' = current_transaction_id /\ map' = map /\ undo' = undo
      /\ todo' = todo /\ recently_committed' = recently_committed
  BY DEF BeginCommit
<1>2. Types'
  BY <1>1 DEF CInv, Types
<1>3. \A u \in Txn : phase[u] \notin {"committing", "rolling_back"}
  BY <1>1, Unlocked
<1>4. \A u \in Txn : phase'[u] = IF u = t THEN "committing" ELSE phase[u]
  BY <1>1 DEF CInv, Types
<1>5. \A u \in Txn : commit_id'[u] = IF u = t THEN current_start_timestamp ELSE commit_id[u]
  BY <1>1 DEF CInv, Types
<1>7. Ended' = Ended /\ Running' = Running /\ t \notin Ended
  BY <1>1, <1>4 DEF Ended, Running
<1>8. Locked'
  <2>1. at' \in 0..Len(undo'[t])
    <3>1. Len(undo[t]) \in Nat
      BY LenProperties DEF CInv, Types, Buffers
    <3> QED
      BY <1>1, <3>1
  <2>2. \A u \in Txn : phase'[u] \in {"committing", "rolling_back"} <=> transaction_lock' = u
    BY <1>1, <1>3, <1>4
  <2> QED
    BY <1>1, <2>1, <2>2 DEF Locked
<1>9. Clocks'
  <2>0. /\ \A u \in Txn : start_time[u] \in Nat /\ commit_id[u] \in Nat /\ transaction_id[u] \in Nat
        /\ current_start_timestamp \in Nat /\ current_transaction_id \in Nat /\ TRANSACTION_ID_START \in Nat
    BY CatalogConstants DEF CInv, Types
  <2>1. /\ 0 < current_start_timestamp' /\ current_start_timestamp' <= TRANSACTION_ID_START
        /\ TRANSACTION_ID_START <= current_transaction_id'
    BY <1>1, <2>0 DEF CInv, Clocks
  <2>2. \A u \in Txn : start_time'[u] < current_start_timestamp' /\ commit_id'[u] < current_start_timestamp'
    BY <1>1, <1>5, <2>0 DEF CInv, Clocks
  <2>3. /\ \A u \in Running' : TRANSACTION_ID_START <= transaction_id'[u] /\ transaction_id'[u] < current_transaction_id'
        /\ \A u, v \in Running' : transaction_id'[u] = transaction_id'[v] => u = v
    BY <1>1, <1>7 DEF CInv, Clocks
  <2>4. \A v \in Txn : phase'[v] = "committing" =>
          /\ \A u \in Txn : start_time'[u] < commit_id'[v]
          /\ \A u \in Txn \ {v} : commit_id'[u] < commit_id'[v]
    BY <1>1, <1>3, <1>4, <1>5 DEF CInv, Clocks
  <2> QED
    BY <2>1, <2>2, <2>3, <2>4 DEF Clocks
<1>10. Recent'
  <2>1. \A i \in DOMAIN recently_committed :
          commit_id'[recently_committed[i]] = commit_id[recently_committed[i]]
    BY <1>5, <1>7 DEF CInv, Recent, Ended
  <2>2. \A u \in Txn : phase'[u] = "idle" => undo'[u] = <<>>
    BY <1>1, <1>4 DEF CInv, Recent
  <2> QED
    BY <1>1, <1>7, <2>1, <2>2 DEF CInv, Recent
<1>11. MapWoven'
  <2> DEFINE P == PendingIds(undo)
  <2>1. PendingIds(undo)' = P
    <3>1. \A u \in Txn : UndoUpTo(undo, u)' = UndoUpTo(undo, u)
      BY <1>1, <1>3, <1>4 DEF UndoUpTo
    <3> QED
      BY <3>1 DEF PendingIds
  <2>2. \A p \in P : p \in Txn \X Nat /\ p[1] \in Txn /\ p[2] \in Nat /\ ~ (p[2] <= 0)
    BY DEF PendingIds
  <2> HIDE DEF P
  <2>3. \A p, q \in P : Older(p, q, Before) => Older(p, q, Before')
    <3> SUFFICES ASSUME NEW p \in P, NEW q \in P, Older(p, q, Before) PROVE Older(p, q, Before')
      OBVIOUS
    <3>1. <<p[1], q[1]>> \in Before => <<p[1], q[1]>> \in Before'
      BY <1>1, <1>4, <1>5, <2>2 DEF Before
    <3> QED
      BY <3>1 DEF Older
  <2>4. \A p \in P : Stamps'[p] = Stamps[p]
    BY <1>1, <1>3, <1>4, <1>5, <2>2 DEF Stamps, StampOf
  <2>5. Woven(map, undo, P, Before, Ended, Stamps) /\ undo \in [Txn -> Buffers] /\ Within(undo, P)
    BY DEF CInv, MapWoven, P, Woven
  <2>6. Alike(P, undo, Before, Stamps, undo, P, Before', Stamps')
    BY <2>3, <2>4 DEF Alike, SameUndo
  <2>7. Stamps' \in [Txn \X Nat -> Nat]
    <3>1. \A p \in Txn \X Nat : StampOf(p)' \in Nat
      BY <1>2 DEF Types, StampOf
    <3> QED
      BY <3>1 DEF Stamps
  <2>8. Woven(map, undo, P, Before', Ended', Stamps')
    BY <1>7, <2>5, <2>6, <2>7, WovenAlike
  <2> QED
    BY <1>1, <2>1, <2>8 DEF MapWoven
<1> QED
  BY <1>2, <1>8, <1>9, <1>10, <1>11 DEF CInv

\* A rollback begins.
LEMMA RollbackTransactionInv ==
  ASSUME CInv, NEW t \in Txn, RollbackTransaction(t)
  PROVE  CInv'
<1>1. /\ phase[t] \in {"active", "invalid"} /\ transaction_lock = NoTxn
      /\ phase' = [phase EXCEPT ![t] = "rolling_back"]
      /\ transaction_lock' = t /\ at' = Len(undo[t])
      /\ start_time' = start_time /\ transaction_id' = transaction_id /\ commit_id' = commit_id
      /\ current_start_timestamp' = current_start_timestamp
      /\ current_transaction_id' = current_transaction_id /\ map' = map /\ undo' = undo
      /\ todo' = todo /\ recently_committed' = recently_committed
  BY DEF RollbackTransaction, clocks
<1>2. Types'
  BY <1>1 DEF CInv, Types
<1>3. \A u \in Txn : phase[u] \notin {"committing", "rolling_back"}
  BY <1>1, Unlocked
<1>4. \A u \in Txn : phase'[u] = IF u = t THEN "rolling_back" ELSE phase[u]
  BY <1>1 DEF CInv, Types
<1>5. Ended' = Ended /\ Running' = Running /\ t \notin Ended
  BY <1>1, <1>4 DEF Ended, Running
<1>6. Locked'
  <2>1. at' \in 0..Len(undo'[t])
    <3>1. Len(undo[t]) \in Nat
      BY LenProperties DEF CInv, Types, Buffers
    <3> QED
      BY <1>1, <3>1
  <2>2. \A u \in Txn : phase'[u] \in {"committing", "rolling_back"} <=> transaction_lock' = u
    BY <1>1, <1>3, <1>4
  <2> QED
    BY <1>1, <2>1, <2>2 DEF Locked
<1>7. Clocks'
  <2>1. \A u \in Txn : phase'[u] # "committing"
    BY <1>3, <1>4
  <2> QED
    BY <1>1, <1>5, <2>1 DEF CInv, Clocks
<1>8. Recent'
  <2>1. \A u \in Txn : phase'[u] = "idle" => undo'[u] = <<>>
    BY <1>1, <1>4 DEF CInv, Recent
  <2> QED
    BY <1>1, <1>5, <2>1 DEF CInv, Recent
<1>9. MapWoven'
  <2>1. PendingIds(undo)' = PendingIds(undo)
    <3>1. \A u \in Txn : UndoUpTo(undo, u)' = UndoUpTo(undo, u)
      BY <1>1, <1>3, <1>4 DEF UndoUpTo
    <3> QED
      BY <3>1 DEF PendingIds
  <2>2. Before' = Before
    BY <1>1, <1>4 DEF Before
  <2>3. Stamps' = Stamps
    <3>1. \A p \in Txn \X Nat : StampOf(p)' = StampOf(p)
      BY <1>1, <1>3, <1>4 DEF StampOf
    <3> QED
      BY <3>1 DEF Stamps
  <2> QED
    BY <1>1, <1>5, <2>1, <2>2, <2>3 DEF MapWoven, CInv
<1> QED
  BY <1>2, <1>6, <1>7, <1>8, <1>9 DEF CInv

\* One entry of the undo buffer is given its commit timestamp.
LEMMA CommitEntryInv ==
  ASSUME CInv, NEW t \in Txn, CommitEntry(t)
  PROVE  CInv' /\ \A key \in Key : Restamped(map'[key], map[key])
<1>1. /\ phase[t] = "committing" /\ at < Len(undo[t])
      /\ map' = Stamp(map, undo[t][at + 1], commit_id[t]) /\ at' = at + 1
      /\ phase' = phase /\ transaction_lock' = transaction_lock
      /\ start_time' = start_time /\ transaction_id' = transaction_id /\ commit_id' = commit_id
      /\ current_start_timestamp' = current_start_timestamp
      /\ current_transaction_id' = current_transaction_id /\ undo' = undo
      /\ todo' = todo /\ recently_committed' = recently_committed
  BY DEF CommitEntry, clocks
<1>2. transaction_lock = t /\ t # NoTxn /\ at \in 0..Len(undo[t]) /\ Len(undo[t]) \in Nat
  BY <1>1, CatalogConstants, LenProperties DEF CInv, Locked, Types, Buffers
<1>3. \A u \in Txn : u # t => phase[u] \notin {"committing", "rolling_back"}
  BY <1>2 DEF CInv, Locked
<1>4. Ended' = Ended /\ Running' = Running /\ Before' = Before
  BY <1>1 DEF Ended, Running, Before
<1> DEFINE p == <<t, at + 1>>
           P == PendingIds(undo)
<1>5. p \in P /\ p \in Txn \X Nat /\ p[1] = t /\ p[2] = at + 1 /\ UndoEntry(undo, p) = undo[t][at + 1]
  BY <1>1, <1>2 DEF PendingIds, UndoUpTo, UndoEntry
<1>6. PendingIds(undo)' = P
  <2>1. \A u \in Txn : UndoUpTo(undo, u)' = UndoUpTo(undo, u)
    BY <1>1, <1>3 DEF UndoUpTo
  <2> QED
    BY <2>1 DEF PendingIds
<1>7. commit_id[t] \in Nat /\ Stamps \in [Txn \X Nat -> Nat] /\ Woven(map, undo, P, Before, Ended, Stamps)
  BY DEF CInv, Types, MapWoven, Woven
<1>8. Stamps' = [Stamps EXCEPT ![p] = commit_id[t]]
  <2>1. ASSUME NEW q \in Txn \X Nat PROVE StampOf(q)' = IF q = p THEN commit_id[t] ELSE StampOf(q)
    <3>1. q = <<q[1], q[2]>> /\ q[1] \in Txn /\ q[2] \in Nat
      OBVIOUS
    <3>2. CASE q[1] # t
      BY <1>1, <1>3, <1>5, <3>1, <3>2 DEF StampOf
    <3>3. CASE q[1] = t
      <4>1. q[2] <= at + 1 <=> q[2] <= at \/ q[2] = at + 1
        BY <1>2, <3>1
      <4>2. q = p <=> q[2] = at + 1
        BY <3>1, <3>3
      <4> QED
        BY <1>1, <3>3, <4>1, <4>2 DEF StampOf
    <3> QED
      BY <3>2, <3>3
  <2>2. Stamps' = [q \in Txn \X Nat |-> StampOf(q)']
    BY DEF Stamps
  <2>3. [Stamps EXCEPT ![p] = commit_id[t]] = [q \in Txn \X Nat |-> IF q = p THEN commit_id[t] ELSE StampOf(q)]
    BY <1>5 DEF Stamps
  <2> QED
    BY <2>1, <2>2, <2>3
<1> HIDE DEF p, P
<1>9. /\ Woven(Stamp(map, UndoEntry(undo, p), commit_id[t]), undo, P, Before, Ended,
               [Stamps EXCEPT ![p] = commit_id[t]])
      /\ \A k \in Key : Restamped(Stamp(map, UndoEntry(undo, p), commit_id[t])[k], map[k])
  BY <1>5, <1>7, WovenStamp
<1>10. MapWoven'
  BY <1>1, <1>4, <1>5, <1>6, <1>8, <1>9 DEF MapWoven
<1>11. map' \in [Key -> Chains]
  BY <1>1, <1>5, <1>9 DEF Woven
<1>12. Types'
  BY <1>1, <1>11 DEF CInv, Types
<1>13. Locked'
  BY <1>1, <1>2 DEF CInv, Locked
<1>14. Clocks' /\ Recent'
  BY <1>1, <1>4 DEF CInv, Clocks, Recent
<1>15. \A k \in Key : Restamped(map'[k], map[k])
  BY <1>1, <1>5, <1>9
<1> QED
  BY <1>10, <1>12, <1>13, <1>14, <1>15 DEF CInv

\* One entry of the undo buffer is taken out of its chain.
LEMMA RollbackEntryInv ==
  ASSUME CInv, NEW t \in Txn, RollbackEntry(t)
  PROVE  CInv' /\ \A W, L : t \notin W => Keeps(map', map, W, L)
<1> DEFINE e == undo[t][at]
<1>1. /\ phase[t] = "rolling_back" /\ at > 0
      /\ map' = [map EXCEPT ![e.key] = Undo(map[e.key], e.child)] /\ at' = at - 1
      /\ phase' = phase /\ transaction_lock' = transaction_lock
      /\ start_time' = start_time /\ transaction_id' = transaction_id /\ commit_id' = commit_id
      /\ current_start_timestamp' = current_start_timestamp
      /\ current_transaction_id' = current_transaction_id /\ undo' = undo
      /\ todo' = todo /\ recently_committed' = recently_committed
  BY DEF RollbackEntry, clocks
<1>2. transaction_lock = t /\ t # NoTxn /\ at \in 0..Len(undo[t]) /\ Len(undo[t]) \in Nat
  BY <1>1, CatalogConstants, LenProperties DEF CInv, Locked, Types, Buffers
<1>3. \A u \in Txn : u # t => phase[u] \notin {"committing", "rolling_back"}
  BY <1>2 DEF CInv, Locked
<1>4. Ended' = Ended /\ Running' = Running /\ Before' = Before
  BY <1>1 DEF Ended, Running, Before
<1> DEFINE p == <<t, at>>
           P == PendingIds(undo)
<1>5. p \in P /\ p \in Txn \X Nat /\ p[1] = t /\ p[2] = at /\ UndoEntry(undo, p) = e
  BY <1>1, <1>2 DEF PendingIds, UndoUpTo, UndoEntry
<1>6. PendingIds(undo)' = P \ {p}
  <2>1. ASSUME NEW q \in Txn \X Nat
        PROVE  q[2] \in 1..UndoUpTo(undo, q[1])' <=> q[2] \in 1..UndoUpTo(undo, q[1]) /\ q # p
    <3>1. q = <<q[1], q[2]>> /\ q[1] \in Txn /\ q[2] \in Nat
      OBVIOUS
    <3>2. CASE q[1] # t
      <4>1. UndoUpTo(undo, q[1])' = UndoUpTo(undo, q[1])
        BY <1>1, <1>3, <3>1, <3>2 DEF UndoUpTo
      <4> QED
        BY <1>5, <3>2, <4>1
    <3>3. CASE q[1] = t
      <4>1. UndoUpTo(undo, q[1])' = at - 1 /\ UndoUpTo(undo, q[1]) = at
        BY <1>1, <3>3 DEF UndoUpTo
      <4>2. q = p <=> q[2] = at
        BY <3>1, <3>3
      <4> QED
        BY <1>2, <3>1, <4>1, <4>2
    <3> QED
      BY <3>2, <3>3
  <2> QED
    BY <2>1 DEF PendingIds
<1>7. Woven(map, undo, P, Before, Ended, Stamps)
  BY DEF CInv, MapWoven
<1>8. Stamps' = Stamps
  <2>1. ASSUME NEW q \in Txn \X Nat PROVE StampOf(q)' = StampOf(q)
    BY <1>1, <1>3 DEF StampOf
  <2> QED
    BY <2>1 DEF Stamps
<1>9. \A q \in P : ~ Older(p, q, Before)
  <2> SUFFICES ASSUME NEW q \in P, Older(p, q, Before) PROVE FALSE
    OBVIOUS
  <2>1. q[1] \in Txn /\ q[2] \in 1..UndoUpTo(undo, q[1]) /\ q[2] \in Nat
    BY DEF PendingIds
  <2>2. CASE q[1] = t
    <3>1. q[2] \in 1..at /\ at < q[2]
      BY <1>1, <2>1, <2>2 DEF UndoUpTo, Older
    <3> QED
      BY <1>2, <3>1
  <2>3. CASE q[1] # t
    <3>1. phase[t] = "ended"
      BY <2>3 DEF Older, Before
    <3> QED
      BY <1>1, <3>1
  <2> QED
    BY <2>2, <2>3
<1> HIDE DEF p, P
<1>10. /\ Woven([map EXCEPT ![e.key] = Undo(map[e.key], e.child)], undo, P \ {p}, Before, Ended, Stamps)
       /\ \A W, L : p[1] \notin W => Keeps([map EXCEPT ![e.key] = Undo(map[e.key], e.child)], map, W, L)
  <2> DEFINE key == e.key
             child == e.child
  <2>1. key = UndoEntry(undo, p).key /\ child = UndoEntry(undo, p).child
    BY <1>5
  <2> HIDE DEF key, child
  <2>2. /\ Woven([map EXCEPT ![key] = Undo(map[key], child)], undo, P \ {p}, Before, Ended, Stamps)
        /\ \A W, L : p[1] \notin W => Keeps([map EXCEPT ![key] = Undo(map[key], child)], map, W, L)
    <3>1. Newest(map, undo, P, Before, Ended, Stamps, p, key, child)
      BY <1>5, <1>7, <1>9, <2>1 DEF Newest
    <3> QED
      BY <3>1, WovenUndo
  <2> QED
    BY <2>2 DEF key, child
<1>11. MapWoven'
  BY <1>1, <1>4, <1>6, <1>8, <1>10 DEF MapWoven
<1>12. map' \in [Key -> Chains]
  BY <1>1, <1>10 DEF Woven
<1>13. Types'
  BY <1>1, <1>12 DEF CInv, Types
<1>14. Locked'
  BY <1>1, <1>2 DEF CInv, Locked
<1>15. Clocks' /\ Recent'
  BY <1>1, <1>4 DEF CInv, Clocks, Recent
<1>16. \A W, L : t \notin W => Keeps(map', map, W, L)
  BY <1>1, <1>5, <1>10
<1> QED
  BY <1>11, <1>13, <1>14, <1>15, <1>16 DEF CInv

\* The stamps when the first n entries of the undo buffer of t have their old ones.
RevertedStamps(t, n) ==
  [p \in Txn \X Nat |-> IF p[1] = t /\ p[2] \in 1..n THEN transaction_id[t] ELSE Stamps[p]]

\* A commit that fails gives the entries back the timestamps that they had before it.
LEMMA CommitFailsInv ==
  ASSUME CInv, NEW t \in Txn, CommitFails(t)
  PROVE  CInv' /\ \A key \in Key : Restamped(map'[key], map[key])
<1> DEFINE len  == Len(undo[t])
           w    == CHOOSE f : Reverts(f, t, len)
           k    == Min({at + 1, len})
           P    == PendingIds(undo)
           Good == {n \in 0..len : /\ Woven(w[n], undo, P, Before, Ended, RevertedStamps(t, n))
                                   /\ \A key \in Key : Restamped(w[n][key], map[key])}
<1>1. /\ phase[t] = "committing"
      /\ phase' = [phase EXCEPT ![t] = "rolling_back"] /\ at' = Len(undo[t])
      /\ commit_id' = [commit_id EXCEPT ![t] = 0] /\ transaction_lock' = transaction_lock
      /\ start_time' = start_time /\ transaction_id' = transaction_id
      /\ current_start_timestamp' = current_start_timestamp
      /\ current_transaction_id' = current_transaction_id /\ undo' = undo
      /\ todo' = todo /\ recently_committed' = recently_committed
  BY DEF CommitFails
<1>2. map' = w[k]
  BY Zenon DEF CommitFails, Reverts
<1>3. transaction_lock = t /\ t # NoTxn /\ at \in 0..len /\ len \in Nat
  BY <1>1, CatalogConstants, LenProperties DEF CInv, Locked, Types, Buffers
<1>4. \A u \in Txn : u # t => phase[u] \notin {"committing", "rolling_back"}
  BY <1>3 DEF CInv, Locked
<1>5. Reverts(w, t, len)
  <2> HIDE DEF len
  <2> QED
    BY <1>3, RevertsExist
<1>6. k \in 0..len /\ (k = at + 1 \/ k = len)
  <2>1. {at + 1, len} \in SUBSET Nat /\ {at + 1, len} # {}
    BY <1>3
  <2>2. Min({at + 1, len}) \in {at + 1, len} /\ \A x \in {at + 1, len} : Min({at + 1, len}) <= x
    BY <2>1, MinIsLeast
  <2> HIDE DEF len
  <2> QED
    BY <1>3, <2>2
<1> HIDE DEF w, k, len
<1>7. \A n \in 0..len : w[n] = IF n = 0 THEN map ELSE Stamp(w[n - 1], undo[t][n], transaction_id[t])
  BY <1>5 DEF Reverts
<1>8. /\ transaction_id[t] \in Nat /\ Stamps \in [Txn \X Nat -> Nat]
      /\ Woven(map, undo, P, Before, Ended, Stamps) /\ undo \in [Txn -> Buffers] /\ Within(undo, P)
  BY DEF CInv, Types, MapWoven, Woven
<1>9. 0 \in Good
  <2>1. 0 \in 0..len /\ w[0] = map
    BY <1>3, <1>7
  <2>2. RevertedStamps(t, 0) = Stamps
    <3>1. 1..0 = {}
      OBVIOUS
    <3> QED
      BY <1>8, <3>1 DEF RevertedStamps
  <2>3. \A key \in Key : Restamped(map[key], map[key])
    BY DEF Restamped
  <2> QED
    BY <1>8, <2>1, <2>2, <2>3
<1>10. ASSUME NEW n \in 0..len - 1, n \in Good PROVE n + 1 \in Good
  <2>1. n + 1 \in 0..len /\ n + 1 # 0 /\ (n + 1) - 1 = n /\ n + 1 \in 1..len /\ n \in Nat /\ n + 1 \in Nat
    BY <1>3
  <2> DEFINE p == <<t, n + 1>>
             F == RevertedStamps(t, n)
  <2>2. p \in P /\ p \in Txn \X Nat /\ UndoEntry(undo, p) = undo[t][n + 1]
    BY <1>1, <2>1 DEF PendingIds, UndoUpTo, UndoEntry, len
  <2>3. w[n + 1] = Stamp(w[n], UndoEntry(undo, p), transaction_id[t])
    BY <1>7, <2>1, <2>2
  <2>4. RevertedStamps(t, n + 1) = [F EXCEPT ![p] = transaction_id[t]]
    <3>1. ASSUME NEW q \in Txn \X Nat
          PROVE  (q[1] = t /\ q[2] \in 1..n + 1) <=> (q[1] = t /\ q[2] \in 1..n) \/ q = p
      <4>1. q = <<q[1], q[2]>> /\ q[1] \in Txn /\ q[2] \in Nat
        OBVIOUS
      <4>2. q = p <=> q[1] = t /\ q[2] = n + 1
        BY <4>1
      <4>3. q[2] \in 1..n + 1 <=> q[2] \in 1..n \/ q[2] = n + 1
        BY <2>1, <4>1
      <4> QED
        BY <4>2, <4>3
    <3> QED
      BY <2>2, <3>1 DEF RevertedStamps
  <2>5. Woven(w[n], undo, P, Before, Ended, F) /\ \A key \in Key : Restamped(w[n][key], map[key])
    BY <1>10
  <2> HIDE DEF p, F, P
  <2>6. /\ Woven(Stamp(w[n], UndoEntry(undo, p), transaction_id[t]), undo, P, Before, Ended,
                 [F EXCEPT ![p] = transaction_id[t]])
        /\ \A key \in Key : Restamped(Stamp(w[n], UndoEntry(undo, p), transaction_id[t])[key], w[n][key])
    BY <1>8, <2>2, <2>5, WovenStamp
  <2>7. \A key \in Key : Restamped(w[n + 1][key], map[key])
    <3>1. \A key \in Key : Restamped(w[n + 1][key], w[n][key]) /\ Restamped(w[n][key], map[key])
      BY <2>3, <2>5, <2>6
    <3> QED
      BY <3>1, RestampedAgain
  <2> QED
    BY <2>1, <2>3, <2>4, <2>6, <2>7
<1> HIDE DEF Good
<1>11. \A n \in 0..len : n \in Good
  BY <1>3, <1>9, <1>10, CountingUp
<1>12. Woven(map', undo, P, Before, Ended, RevertedStamps(t, k)) /\ \A key \in Key : Restamped(map'[key], map[key])
  BY <1>2, <1>6, <1>11 DEF Good
<1>13. map' \in [Key -> Chains]
  BY <1>12 DEF Woven
<1>14. Types'
  <2>1. 0 \in Nat
    OBVIOUS
  <2> QED
    BY <1>1, <1>13, <2>1 DEF CInv, Types
<1>15. \A u \in Txn : /\ phase'[u] = IF u = t THEN "rolling_back" ELSE phase[u]
                      /\ commit_id'[u] = IF u = t THEN 0 ELSE commit_id[u]
  BY <1>1 DEF CInv, Types
<1>16. Ended' = Ended /\ Running' = Running /\ t \notin Ended
  BY <1>1, <1>15 DEF Ended, Running
<1>17. Before' = Before
  BY <1>1, <1>15 DEF Before
<1>18. PendingIds(undo)' = P
  <2>1. \A u \in Txn : UndoUpTo(undo, u)' = UndoUpTo(undo, u)
    BY <1>1, <1>4, <1>15 DEF UndoUpTo
  <2> QED
    BY <2>1 DEF PendingIds
<1>19. \A p \in P : p \in Txn \X Nat /\ p[1] \in Txn /\ p[2] \in Nat /\ 1 <= p[2] /\ p[2] <= UndoUpTo(undo, p[1])
  BY DEF PendingIds
<1> HIDE DEF P
<1>20. \A p \in P : Stamps'[p] = RevertedStamps(t, k)[p]
  <2> SUFFICES ASSUME NEW p \in P PROVE Stamps'[p] = RevertedStamps(t, k)[p]
    OBVIOUS
  <2>1. p \in Txn \X Nat /\ p[1] \in Txn /\ p[2] \in Nat /\ 1 <= p[2]
    BY <1>19
  <2>2. Stamps'[p] = StampOf(p)' /\ Stamps[p] = StampOf(p)
    BY <2>1 DEF Stamps
  <2>3. RevertedStamps(t, k)[p] = IF p[1] = t /\ p[2] \in 1..k THEN transaction_id[t] ELSE Stamps[p]
    BY <2>1 DEF RevertedStamps
  <2>4. CASE p[1] = t
    <3>1. StampOf(p)' = transaction_id[t]
      BY <1>1, <1>15, <2>4 DEF StampOf
    <3>2. p[2] \notin 1..k => ~ (p[2] <= at)
      BY <1>3, <1>6, <2>1
    <3>3. p[2] \notin 1..k => StampOf(p) = transaction_id[t]
      BY <1>1, <2>4, <3>2 DEF StampOf
    <3> QED
      BY <2>2, <2>3, <2>4, <3>1, <3>3
  <2>5. CASE p[1] # t
    <3>1. StampOf(p)' = StampOf(p)
      BY <1>1, <1>4, <1>15, <2>1, <2>5 DEF StampOf
    <3> QED
      BY <2>2, <2>3, <2>5, <3>1
  <2> QED
    BY <2>4, <2>5
<1>21. MapWoven'
  <2>1. Alike(P, undo, Before, RevertedStamps(t, k), undo, P, Before, Stamps')
    BY <1>20 DEF Alike
  <2>2. Stamps' \in [Txn \X Nat -> Nat]
    <3>1. \A p \in Txn \X Nat : StampOf(p)' \in Nat
      BY <1>14 DEF Types, StampOf
    <3> QED
      BY <3>1 DEF Stamps
  <2> DEFINE F == RevertedStamps(t, k)
  <2>3. Woven(map', undo, P, Before, Ended, F) /\ Alike(P, undo, Before, F, undo, P, Before, Stamps')
    BY <1>12, <2>1
  <2> HIDE DEF F
  <2>4. Woven(map', undo, P, Before, Ended, Stamps')
    BY <1>8, <2>2, <2>3, WovenAlike
  <2> QED
    BY <1>1, <1>16, <1>17, <1>18, <2>4 DEF MapWoven
<1>22. Locked'
  <2>1. at' \in 0..Len(undo'[t])
    BY <1>1, <1>3 DEF len
  <2>2. \A u \in Txn : phase'[u] \in {"committing", "rolling_back"} <=> transaction_lock' = u
    BY <1>1, <1>3, <1>4, <1>15
  <2> QED
    BY <1>1, <1>3, <2>1, <2>2 DEF Locked
<1>23. Clocks'
  <2>1. \A u \in Txn : phase'[u] # "committing"
    BY <1>4, <1>15
  <2>2. \A u \in Txn : commit_id'[u] < current_start_timestamp
    BY <1>15 DEF CInv, Clocks
  <2> QED
    BY <1>1, <1>16, <2>1, <2>2 DEF CInv, Clocks
<1>24. Recent'
  <2>1. \A i \in DOMAIN recently_committed :
          commit_id'[recently_committed[i]] = commit_id[recently_committed[i]]
    BY <1>15, <1>16 DEF CInv, Recent, Ended
  <2>2. \A u \in Txn : phase'[u] = "idle" => undo'[u] = <<>>
    BY <1>1, <1>15 DEF CInv, Recent
  <2> QED
    BY <1>1, <1>16, <2>1, <2>2 DEF CInv, Recent
<1> QED
  BY <1>12, <1>14, <1>21, <1>22, <1>23, <1>24 DEF CInv
-----------------------------------------------------------------------------
(* A transaction ends, and commits that nobody misses are cleaned up.      *)

\* RemoveTransaction is called at the end of a commit or of a rollback.
Leaves(t, committed) ==
  \/ committed = TRUE /\ phase[t] = "committing" /\ at = Len(undo[t])
  \/ committed = FALSE /\ phase[t] = "rolling_back" /\ at = 0

\* t counts as ended.
EndedWith(t)  == Ended \cup {t}
BeforeWith(t) == {p \in Txn \X Txn : p[1] \in EndedWith(t) /\ commit_id[p[1]] < start_time[p[2]]}

\* The commits in r are in order, and the undo buffers of all who have ended are theirs.
CommitsOK(r, t) ==
  /\ r \in Seq(Txn)
  /\ \A i \in 1..Len(r) : /\ r[i] \in EndedWith(t) /\ phase[r[i]] # "rolling_back"
                          /\ start_time[r[i]] < commit_id[r[i]]
                          /\ \A x \in Running \ {t} : commit_id[r[i]] # start_time[x]
  /\ \A i, j \in 1..Len(r) : i < j => commit_id[r[i]] < commit_id[r[j]]
  /\ \A u \in EndedWith(t) : undo[u] # <<>> /\ phase[u] # "rolling_back" => \E i \in 1..Len(r) : r[i] = u

\* The commits that await their cleanup, with that of t if it has changed something.
Awaiting(t, committed) ==
  IF committed /\ undo[t] # <<>> THEN Append(recently_committed, t) ELSE recently_committed

\* They are in order, t the last of them.
LEMMA AwaitingOK ==
  ASSUME CInv, NEW t \in Txn, NEW committed, Leaves(t, committed)
  PROVE  /\ CommitsOK(Awaiting(t, committed), t)
         /\ ~ (committed /\ undo[t] # <<>>) =>
                \A i \in 1..Len(Awaiting(t, committed)) : Awaiting(t, committed)[i] # t
<1> DEFINE rc == recently_committed
<1>1. rc \in Seq(Txn) /\ Len(rc) \in Nat /\ DOMAIN rc = 1..Len(rc)
  BY LenProperties DEF CInv, Types
<1>2. \A i \in 1..Len(rc) :
         /\ rc[i] \in Ended /\ rc[i] \in Txn /\ rc[i] # t /\ phase[rc[i]] = "ended"
         /\ start_time[rc[i]] < commit_id[rc[i]]
         /\ \A x \in Running : commit_id[rc[i]] # start_time[x]
  BY <1>1 DEF CInv, Recent, Ended, Leaves
<1>3. \A i, j \in 1..Len(rc) : i < j => commit_id[rc[i]] < commit_id[rc[j]]
  BY <1>1 DEF CInv, Recent
<1>4. \A u \in Ended : undo[u] # <<>> => \E i \in 1..Len(rc) : rc[i] = u
  BY <1>1 DEF CInv, Recent
<1>5. CASE committed /\ undo[t] # <<>>
  <2> DEFINE r == Append(rc, t)
  <2>1. phase[t] = "committing"
    BY <1>5 DEF Leaves
  <2>2. Awaiting(t, committed) = r
    BY <1>5 DEF Awaiting
  <2>3. r \in Seq(Txn) /\ Len(r) = Len(rc) + 1 /\ r[Len(rc) + 1] = t /\ \A i \in 1..Len(rc) : r[i] = rc[i]
    BY <1>1, AppendProperties
  <2> HIDE DEF r
  <2>4. /\ \A u \in Txn : start_time[u] < commit_id[t] /\ (u # t => commit_id[u] < commit_id[t])
        /\ \A u \in Txn : start_time[u] \in Nat /\ commit_id[u] \in Nat
    BY <2>1 DEF CInv, Clocks, Types
  <2>5. \A i \in 1..Len(r) : (i \in 1..Len(rc) /\ r[i] = rc[i]) \/ (i = Len(rc) + 1 /\ r[i] = t)
    <3>1. \A n \in Nat : \A i \in 1..n + 1 : i \in 1..n \/ i = n + 1
      OBVIOUS
    <3> QED
      BY <1>1, <2>3, <3>1
  <2>6. ASSUME NEW i \in 1..Len(r)
        PROVE  /\ r[i] \in EndedWith(t) /\ phase[r[i]] # "rolling_back"
               /\ start_time[r[i]] < commit_id[r[i]]
               /\ \A x \in Running \ {t} : commit_id[r[i]] # start_time[x]
    <3>1. CASE i \in 1..Len(rc) /\ r[i] = rc[i]
      BY <1>2, <3>1 DEF EndedWith
    <3>2. CASE r[i] = t
      <4>1. \A x \in Running \ {t} : commit_id[t] # start_time[x]
        BY <2>4 DEF Running
      <4> QED
        BY <2>1, <2>4, <3>2, <4>1 DEF EndedWith
    <3> QED
      BY <2>5, <3>1, <3>2
  <2>7. ASSUME NEW i \in 1..Len(r), NEW j \in 1..Len(r), i < j PROVE commit_id[r[i]] < commit_id[r[j]]
    <3>1. i \in 1..Len(rc) /\ r[i] = rc[i]
      BY <1>1, <2>3, <2>7
    <3>2. CASE j \in 1..Len(rc) /\ r[j] = rc[j]
      BY <1>3, <2>7, <3>1, <3>2
    <3>3. CASE r[j] = t
      BY <1>2, <2>4, <3>1, <3>3
    <3> QED
      BY <2>5, <3>2, <3>3
  <2>8. ASSUME NEW u \in EndedWith(t), undo[u] # <<>> PROVE \E i \in 1..Len(r) : r[i] = u
    <3>1. CASE u = t
      <4>1. Len(rc) + 1 \in 1..Len(r)
        BY <1>1, <2>3
      <4> QED
        BY <2>3, <3>1, <4>1
    <3>2. CASE u \in Ended
      <4>1. PICK i \in 1..Len(rc) : rc[i] = u
        BY <1>4, <2>8, <3>2
      <4>2. i \in 1..Len(r)
        BY <1>1, <2>3
      <4> QED
        BY <2>3, <4>1, <4>2
    <3> QED
      BY <3>1, <3>2 DEF EndedWith
  <2>9. CommitsOK(r, t)
    BY <2>3, <2>6, <2>7, <2>8 DEF CommitsOK
  <2> QED
    BY <1>5, <2>2, <2>9
<1>6. CASE ~ (committed /\ undo[t] # <<>>)
  <2>1. Awaiting(t, committed) = rc
    BY <1>6 DEF Awaiting
  <2>2. undo[t] = <<>> \/ phase[t] = "rolling_back"
    BY <1>6 DEF Leaves
  <2>3. CommitsOK(rc, t)
    BY <1>1, <1>2, <1>3, <1>4, <2>2 DEF CommitsOK, EndedWith
  <2> QED
    BY <1>2, <2>1, <2>3
<1> QED
  BY <1>5, <1>6

\* What is pending but for the first k commits.
Without(P, r, k) == {p \in P : \A i \in 1..k : p[1] # r[i]}

\* The end of t as such changes nothing.
LEMMA EndWoven ==
  ASSUME CInv, NEW t \in Txn, NEW committed, Leaves(t, committed)
  PROVE  Woven(map, undo, PendingIds(undo), BeforeWith(t), EndedWith(t), Stamps)
<1> DEFINE P == PendingIds(undo)
<1>1. Woven(map, undo, P, Before, Ended, Stamps) /\ undo \in [Txn -> Buffers] /\ Within(undo, P)
      /\ Stamps \in [Txn \X Nat -> Nat]
  BY DEF CInv, MapWoven, Woven
<1>2. Before \subseteq BeforeWith(t) /\ Ended \subseteq EndedWith(t)
  BY DEF Before, BeforeWith, EndedWith, Ended
<1> HIDE DEF P
<1>3. Alike(P, undo, Before, Stamps, undo, P, BeforeWith(t), Stamps)
  BY <1>2 DEF Alike, Older
<1>4. Woven(map, undo, P, BeforeWith(t), EndedWith(t), Stamps)
  BY <1>1, <1>2, <1>3, WovenAlike
<1> QED
  BY <1>4 DEF P

\* The undo buffer of the oldest commit is cleaned up: at each of its entries the
\* entry below is the last of its chain.
LEMMA CleanedBuffer ==
  ASSUME CInv, NEW t \in Txn, NEW committed, Leaves(t, committed),
         NEW r, CommitsOK(r, t), NEW k \in 0..Len(r) - 1, NEW m,
         Woven(m, undo, Without(PendingIds(undo), r, k), BeforeWith(t), EndedWith(t), Stamps),
         NEW W, NEW L
  PROVE  /\ Woven(CleanupBuffer(m, undo[r[k + 1]]), undo, Without(PendingIds(undo), r, k + 1),
                  BeforeWith(t), EndedWith(t), Stamps)
         /\ r[k + 1] \in W /\ Beyond(L, commit_id[r[k + 1]]) =>
                Keeps(CleanupBuffer(m, undo[r[k + 1]]), m, W, L)
<1> DEFINE u      == r[k + 1]
           buffer == undo[u]
           len    == Len(buffer)
           w      == CHOOSE f : Cleans(f, m, buffer, len)
           P      == Without(PendingIds(undo), r, k)
           Q(n)   == {p \in P : ~ (p[1] = u /\ p[2] \in 1..n)}
           B      == BeforeWith(t)
           E      == EndedWith(t)
           Past   == u \in W /\ Beyond(L, commit_id[u])
           Good   == {n \in 0..len : Woven(w[n], undo, Q(n), B, E, Stamps) /\ (Past => Keeps(w[n], m, W, L))}
<1>1. CleanupBuffer(m, buffer) = w[len]
  BY Zenon DEF CleanupBuffer, Cleans
<1>2. Len(r) \in Nat /\ r \in Seq(Txn) /\ k + 1 \in 1..Len(r) /\ k \in Nat
  BY LenProperties DEF CommitsOK
<1>3. u \in E /\ phase[u] # "rolling_back" /\ start_time[u] < commit_id[u] /\ u \in Txn
  <2>1. u \in E /\ phase[u] # "rolling_back" /\ start_time[u] < commit_id[u]
    BY <1>2 DEF CommitsOK
  <2> QED
    BY <2>1 DEF EndedWith, Ended
<1>4. buffer \in Buffers /\ len \in Nat /\ undo \in [Txn -> Buffers]
  BY <1>3, LenProperties DEF CInv, Types, Buffers
<1>5. \A i \in 1..k : i \in 1..Len(r) /\ r[i] # u
  <2> SUFFICES ASSUME NEW i \in 1..k PROVE i \in 1..Len(r) /\ r[i] # u
    OBVIOUS
  <2>1. i \in 1..Len(r) /\ i < k + 1
    BY <1>2
  <2>2. commit_id[r[i]] < commit_id[u]
    BY <1>2, <2>1 DEF CommitsOK
  <2>3. commit_id[u] \in Nat
    BY <1>3 DEF CInv, Types
  <2>4. ~ (commit_id[u] < commit_id[u])
    BY <2>3
  <2> QED
    BY <2>1, <2>2, <2>4
<1>6. P \subseteq PendingIds(undo) /\ \A p \in P : p \in Txn \X Nat /\ p[1] \in Txn /\ p[2] \in Nat
  BY DEF PendingIds, Without
<1>7. \A n \in 1..len : <<u, n>> \in P
  <2> SUFFICES ASSUME NEW n \in 1..len PROVE <<u, n>> \in P
    OBVIOUS
  <2>1. <<u, n>> \in PendingIds(undo) /\ <<u, n>>[1] = u
    BY <1>3, <1>4 DEF PendingIds, UndoUpTo
  <2> QED
    BY <1>5, <2>1 DEF Without
<1> HIDE DEF w, len, buffer
<1>8. Cleans(w, m, buffer, len)
  BY <1>4, CleansExist DEF w
<1>9. \A n \in 0..len : w[n] = IF n = 0 THEN m ELSE CleanupOf(w[n - 1], buffer[n])
  BY <1>8 DEF Cleans
<1>10. \A q \in P : q[1] # u => ~ (<<q[1], u>> \in B)
  <2> SUFFICES ASSUME NEW q \in P, q[1] # u, <<q[1], u>> \in B PROVE FALSE
    OBVIOUS
  <2>1. q[1] \in Txn /\ q[1] \in E /\ commit_id[q[1]] < start_time[u]
    BY <1>6 DEF BeforeWith
  <2>2. commit_id[q[1]] < commit_id[u]
    <3>1. commit_id[q[1]] \in Nat /\ start_time[u] \in Nat /\ commit_id[u] \in Nat
      BY <1>3, <2>1 DEF CInv, Types
    <3> QED
      BY <1>3, <2>1, <3>1
  <2>3. q[2] \in 1..UndoUpTo(undo, q[1])
    BY <1>6 DEF PendingIds
  <2>4. PICK i \in 1..Len(r) : r[i] = q[1]
    <3>1. CASE phase[q[1]] = "rolling_back"
      <4>1. q[1] = t
        BY <2>1, <3>1 DEF EndedWith, Ended
      <4>2. UndoUpTo(undo, q[1]) = 0
        BY <3>1, <4>1 DEF UndoUpTo, Leaves
      <4>3. 1..0 = {}
        OBVIOUS
      <4> QED
        BY <2>3, <4>2, <4>3
    <3>2. CASE phase[q[1]] # "rolling_back"
      <4>1. q[2] \in 1..Len(undo[q[1]])
        BY <2>3, <3>2 DEF UndoUpTo
      <4>2. undo[q[1]] = <<>> => Len(undo[q[1]]) = 0
        OBVIOUS
      <4>3. undo[q[1]] # <<>>
        BY <4>1, <4>2
      <4> QED
        BY <2>1, <3>2, <4>3 DEF CommitsOK
    <3> QED
      BY <3>1, <3>2
  <2>5. i \in 1..k
    <3>1. ~ (k + 1 < i)
      <4>1. k + 1 < i => commit_id[u] < commit_id[r[i]]
        BY <1>2 DEF CommitsOK
      <4>2. commit_id[r[i]] \in Nat /\ commit_id[u] \in Nat
        BY <1>3, <2>1, <2>4 DEF CInv, Types
      <4> QED
        BY <2>2, <2>4, <4>1, <4>2
    <3>2. i # k + 1
      BY <2>4
    <3>3. \A a, b \in Nat : ~ (b + 1 < a) /\ a # b + 1 /\ 1 <= a => a \in 1..b
      OBVIOUS
    <3>4. i \in Nat /\ 1 <= i
      BY <1>2
    <3> QED
      BY <1>2, <3>1, <3>2, <3>3, <3>4
  <2> QED
    BY <2>4, <2>5 DEF Without
<1>11. 0 \in Good
  <2>1. 0 \in 0..len /\ w[0] = m
    BY <1>4, <1>9
  <2>2. Q(0) = P
    <3>1. 1..0 = {}
      OBVIOUS
    <3> QED
      BY <3>1
  <2>3. Woven(m, undo, P, B, E, Stamps) /\ Keeps(m, m, W, L)
    BY DEF Keeps
  <2> QED
    BY <2>1, <2>2, <2>3
<1>16. \A n \in 1..len : Stamps[<<u, n>>] = commit_id[u]
  <2> SUFFICES ASSUME NEW n \in 1..len PROVE Stamps[<<u, n>>] = commit_id[u]
    OBVIOUS
  <2>1. <<u, n>> \in Txn \X Nat /\ <<u, n>>[1] = u /\ <<u, n>>[2] = n
    BY <1>3, <1>4
  <2>2. phase[u] = "ended" \/ (phase[u] = "committing" /\ at = Len(undo[u]))
    BY <1>3 DEF EndedWith, Ended, Leaves
  <2>3. n <= Len(undo[u])
    BY <1>4 DEF len, buffer
  <2>4. StampOf(<<u, n>>) = commit_id[u]
    BY <2>1, <2>2, <2>3 DEF StampOf
  <2> QED
    BY <2>1, <2>4 DEF Stamps
<1> HIDE DEF P, B, E, Past
<1>12. ASSUME NEW n \in 0..len - 1, n \in Good PROVE n + 1 \in Good
  <2>1. n + 1 \in 0..len /\ n + 1 # 0 /\ (n + 1) - 1 = n /\ n + 1 \in 1..len /\ n \in Nat /\ n + 1 \in Nat
    BY <1>4
  <2> DEFINE p == <<u, n + 1>>
             O == Q(n)
  <2>2. p[1] = u /\ p[2] = n + 1 /\ p \in P
    BY <1>7, <2>1
  <2>3. n + 1 \notin 1..n
    BY <2>1
  <2>4. p \in O
    BY <2>2, <2>3
  <2>5. Q(n + 1) = O \ {p}
    <3>1. ASSUME NEW q \in P
          PROVE  (q[1] = u /\ q[2] \in 1..n + 1) <=> (q[1] = u /\ q[2] \in 1..n) \/ q = p
      <4>1. q = <<q[1], q[2]>> /\ q[2] \in Nat
        BY <1>6
      <4>2. q = p <=> q[1] = u /\ q[2] = n + 1
        BY <4>1
      <4>3. q[2] \in 1..n + 1 <=> q[2] \in 1..n \/ q[2] = n + 1
        BY <2>1, <4>1
      <4> QED
        BY <4>2, <4>3
    <3> QED
      BY <3>1
  <2>6. \A q \in O : ~ Older(q, p, B)
    <3> SUFFICES ASSUME NEW q \in O, Older(q, p, B) PROVE FALSE
      OBVIOUS
    <3>1. q \in P /\ ~ (q[1] = u /\ q[2] \in 1..n) /\ q[2] \in Nat /\ 1 <= q[2]
      <4>1. q \in P /\ ~ (q[1] = u /\ q[2] \in 1..n)
        OBVIOUS
      <4>2. q[2] \in 1..UndoUpTo(undo, q[1])
        BY <1>6, <4>1 DEF PendingIds
      <4> QED
        BY <1>6, <4>1, <4>2
    <3>2. CASE q[1] = u
      <4>1. q[2] < n + 1
        BY <2>2, <3>2 DEF Older
      <4> QED
        BY <2>1, <3>1, <3>2, <4>1
    <3>3. CASE q[1] # u
      BY <1>10, <2>2, <3>1, <3>3 DEF Older
    <3> QED
      BY <3>2, <3>3
  <2>7. UndoEntry(undo, p) = buffer[n + 1]
    BY <2>2 DEF UndoEntry, buffer
  <2>8. w[n + 1] = CleanupOf(w[n], UndoEntry(undo, p))
    BY <1>9, <2>1, <2>7
  <2>9. Woven(w[n], undo, O, B, E, Stamps) /\ p[1] \in E /\ (Past => Keeps(w[n], m, W, L))
    BY <1>3, <1>12, <2>2 DEF E
  <2>12. Past => p[1] \in W /\ Beyond(L, Stamps[p])
    BY <1>16, <2>1, <2>2 DEF Past
  <2> DEFINE key == UndoEntry(undo, p).key
             child == UndoEntry(undo, p).child
  <2>10. CleanupOf(w[n], UndoEntry(undo, p)) = [w[n] EXCEPT ![key] = CleanupEntry(w[n][key], child)]
    BY DEF CleanupOf
  <2>14. key = UndoEntry(undo, p).key /\ child = UndoEntry(undo, p).child
    OBVIOUS
  <2> HIDE DEF p, O, key, child
  <2> DEFINE m1 == w[n]
             m2 == [m1 EXCEPT ![key] = CleanupEntry(m1[key], child)]
  <2>11. /\ Woven(m2, undo, O \ {p}, B, E, Stamps)
         /\ p[1] \in W /\ Beyond(L, Stamps[p]) => Keeps(m2, m1, W, L)
    <3>1. Oldest(m1, undo, O, B, E, Stamps, p, key, child)
      BY <2>4, <2>6, <2>9, <2>14 DEF Oldest
    <3> HIDE DEF m1
    <3>2. /\ Woven([m1 EXCEPT ![key] = CleanupEntry(m1[key], child)], undo, O \ {p}, B, E, Stamps)
          /\ p[1] \in W /\ Beyond(L, Stamps[p]) =>
                Keeps([m1 EXCEPT ![key] = CleanupEntry(m1[key], child)], m1, W, L)
      BY <3>1, WovenCleanup
    <3> QED
      BY <3>2
  <2> HIDE DEF m2
  <2>13. Past => Keeps(m2, m, W, L)
    BY <2>9, <2>11, <2>12 DEF Keeps
  <2> QED
    BY <2>1, <2>5, <2>8, <2>10, <2>11, <2>13 DEF m2
<1> HIDE DEF Good
<1>13. \A n \in 0..len : n \in Good
  BY <1>4, <1>11, <1>12, CountingUp
<1>14. Woven(w[len], undo, Q(len), B, E, Stamps) /\ (Past => Keeps(w[len], m, W, L))
  <2>1. len \in 0..len
    BY <1>4
  <2>2. len \in Good
    BY <1>13, <2>1
  <2> QED
    BY <2>2 DEF Good
<1>15. Q(len) = Without(PendingIds(undo), r, k + 1)
  <2>1. \A p \in PendingIds(undo) : p[1] = u => p[2] \in 1..len
    BY <1>3 DEF PendingIds, UndoUpTo, len, buffer
  <2>2. \A i \in 1..k + 1 : i \in 1..k \/ i = k + 1
    BY <1>2
  <2>3. \A i \in 1..k : i \in 1..k + 1
    BY <1>2
  <2>4. k + 1 \in 1..k + 1
    BY <1>2
  <2>5. ASSUME NEW p \in PendingIds(undo)
        PROVE  (\A i \in 1..k + 1 : p[1] # r[i]) <=> (\A i \in 1..k : p[1] # r[i]) /\ p[1] # u
    BY <2>2, <2>3, <2>4
  <2>6. ASSUME NEW p \in PendingIds(undo)
        PROVE  p[1] # u <=> ~ (p[1] = u /\ p[2] \in 1..len)
    BY <2>1
  <2> QED
    BY <2>5, <2>6 DEF Without, P
<1> QED
  BY <1>1, <1>14, <1>15 DEF B, E, buffer, Past

\* The undo buffers of the first n commits are cleaned up.
LEMMA CleanedAll ==
  ASSUME CInv, NEW t \in Txn, NEW committed, Leaves(t, committed),
         NEW r, CommitsOK(r, t), NEW n \in 0..Len(r), NEW W, NEW L
  PROVE  /\ Woven(Cleanup(SubSeq(r, 1, n)), undo, Without(PendingIds(undo), r, n),
                  BeforeWith(t), EndedWith(t), Stamps)
         /\ (\A i \in 1..n : r[i] \in W /\ Beyond(L, commit_id[r[i]])) =>
                Keeps(Cleanup(SubSeq(r, 1, n)), map, W, L)
<1> DEFINE done == SubSeq(r, 1, n)
           len  == Len(done)
           w    == CHOOSE f : CleansAll(f, done, len)
           P    == PendingIds(undo)
           Past == \A i \in 1..n : r[i] \in W /\ Beyond(L, commit_id[r[i]])
           Good == {k \in 0..n : /\ Woven(w[k], undo, Without(P, r, k), BeforeWith(t), EndedWith(t), Stamps)
                                 /\ Past => Keeps(w[k], map, W, L)}
<1>1. Cleanup(done) = w[len]
  BY Zenon DEF Cleanup, CleansAll
<1>2. r \in Seq(Txn) /\ Len(r) \in Nat /\ n \in Nat
  BY LenProperties DEF CommitsOK
<1>3. len = n /\ \A i \in 1..n : done[i] = r[i]
  <2>0. r \in [1..Len(r) -> Txn]
    BY <1>2, LenProperties
  <2>1. \A i \in 1..n : i \in 1..Len(r) /\ r[i] \in Txn
    <3>1. \A i \in 1..n : i \in 1..Len(r)
      BY <1>2
    <3> QED
      BY <2>0, <3>1
  <2>2. /\ Len(SubSeq(r, 1, n)) = IF 1 <= n THEN n - 1 + 1 ELSE 0
        /\ \A i \in 1..n - 1 + 1 : SubSeq(r, 1, n)[i] = r[1 + i - 1]
    BY <1>2, <2>1, SubSeqProperties
  <2>3. \A i \in 1..n : i \in 1..n - 1 + 1 /\ 1 + i - 1 = i
    BY <1>2
  <2> QED
    BY <1>2, <2>2, <2>3
<1> HIDE DEF w, len, done
<1>4. CleansAll(w, done, len)
  BY <1>2, <1>3, CleansAllExist DEF w
<1>5. \A k \in 0..n : w[k] = IF k = 0 THEN map ELSE CleanupBuffer(w[k - 1], undo[done[k]])
  BY <1>3, <1>4 DEF CleansAll
<1>6. 0 \in Good
  <2>1. 0 \in 0..n /\ w[0] = map
    BY <1>2, <1>5
  <2>2. Without(P, r, 0) = P
    <3>1. 1..0 = {}
      OBVIOUS
    <3> QED
      BY <3>1 DEF Without
  <2>3. Keeps(map, map, W, L)
    BY DEF Keeps
  <2> QED
    BY <2>1, <2>2, <2>3, EndWoven
<1>7. ASSUME NEW k \in 0..n - 1, k \in Good PROVE k + 1 \in Good
  <2>1. k + 1 \in 0..n /\ k + 1 # 0 /\ (k + 1) - 1 = k /\ k + 1 \in 1..n /\ k \in 0..Len(r) - 1
    BY <1>2
  <2>2. w[k + 1] = CleanupBuffer(w[k], undo[r[k + 1]])
    BY <1>3, <1>5, <2>1
  <2>3. Woven(w[k], undo, Without(PendingIds(undo), r, k), BeforeWith(t), EndedWith(t), Stamps)
    BY <1>7
  <2>4. /\ Woven(CleanupBuffer(w[k], undo[r[k + 1]]), undo, Without(PendingIds(undo), r, k + 1),
                 BeforeWith(t), EndedWith(t), Stamps)
        /\ r[k + 1] \in W /\ Beyond(L, commit_id[r[k + 1]]) =>
                Keeps(CleanupBuffer(w[k], undo[r[k + 1]]), w[k], W, L)
    BY <2>1, <2>3, CleanedBuffer
  <2>5. Past => Keeps(w[k], map, W, L) /\ Keeps(w[k + 1], w[k], W, L)
    BY <1>7, <2>1, <2>2, <2>4
  <2>6. Past => Keeps(w[k + 1], map, W, L)
    BY <2>5 DEF Keeps
  <2> QED
    BY <2>1, <2>2, <2>4, <2>6
<1> HIDE DEF Good
<1>8. \A k \in 0..n : k \in Good
  BY <1>2, <1>6, <1>7, CountingUp
<1>9. n \in Good
  BY <1>2, <1>8
<1> QED
  BY <1>1, <1>3, <1>9 DEF Good, done

\* How many commits are cleaned up: those before the first that a running
\* transaction may miss.
LEMMA CleanableRange ==
  ASSUME CInv, NEW t \in Txn, NEW r, CommitsOK(r, t), NEW lowest \in Nat, NEW n, n = Cleanable(r, lowest)
  PROVE  /\ n \in 0..Len(r)
         /\ \A i \in 1..n : commit_id[r[i]] < lowest
         /\ (\A i \in 1..Len(r) : commit_id[r[i]] < lowest) => n = Len(r)
<1>1. r \in Seq(Txn) /\ Len(r) \in Nat /\ DOMAIN r = 1..Len(r) /\ r \in [1..Len(r) -> Txn]
  BY LenProperties DEF CommitsOK
<1> DEFINE kept == {i \in 1..Len(r) : commit_id[r[i]] >= lowest}
           S    == kept \cup {Len(r) + 1}
<1>2. n = Min(S) - 1
  BY <1>1 DEF Cleanable
<1>3. S \in SUBSET Nat /\ S # {}
  BY <1>1
<1>4. Min(S) \in S /\ \A x \in S : Min(S) <= x
  BY <1>3, MinIsLeast
<1> DEFINE x == Min(S)
<1>5. x \in 1..Len(r) + 1 /\ x \in Nat
  BY <1>1, <1>4
<1>6. \A i \in 1..Len(r) : commit_id[r[i]] \in Nat
  BY <1>1 DEF CInv, Types
<1> HIDE DEF x
<1>7. n \in 0..Len(r) /\ \A i \in 1..n : i \in 1..Len(r) /\ ~ (x <= i)
  <2>1. \A a, b \in Nat : b \in 1..a + 1 => b - 1 \in 0..a /\ \A i \in 1..b - 1 : i \in 1..a /\ ~ (b <= i)
    OBVIOUS
  <2>2. n = x - 1
    BY <1>2 DEF x
  <2> QED
    BY <1>1, <1>5, <2>1, <2>2
<1>8. \A i \in 1..n : commit_id[r[i]] < lowest
  <2> SUFFICES ASSUME NEW i \in 1..n PROVE commit_id[r[i]] < lowest
    OBVIOUS
  <2>1. i \in 1..Len(r) /\ i \notin S
    BY <1>4, <1>7 DEF x
  <2>2. ~ (commit_id[r[i]] >= lowest)
    BY <2>1
  <2> QED
    BY <1>6, <2>1, <2>2
<1>9. (\A i \in 1..Len(r) : commit_id[r[i]] < lowest) => n = Len(r)
  <2> SUFFICES ASSUME \A i \in 1..Len(r) : commit_id[r[i]] < lowest PROVE n = Len(r)
    OBVIOUS
  <2>1. kept = {}
    <3> SUFFICES ASSUME NEW i \in 1..Len(r), commit_id[r[i]] >= lowest PROVE FALSE
      OBVIOUS
    <3> QED
      BY <1>6
  <2>2. x = Len(r) + 1
    BY <1>4, <2>1 DEF x
  <2> QED
    BY <1>1, <1>2, <2>2 DEF x
<1> QED
  BY <1>7, <1>8, <1>9

\* The lowest start time is at most that of every other running transaction.
LEMMA LowestStartIs ==
  ASSUME CInv, NEW t \in Txn
  PROVE  /\ LowestStart(t) \in Nat
         /\ \A u \in Running \ {t} : LowestStart(t) <= start_time[u]
         /\ Running \ {t} = {} => LowestStart(t) = TRANSACTION_ID_START
<1> DEFINE S == {start_time[u] : u \in Running \ {t}} \cup {TRANSACTION_ID_START}
<1>1. S \in SUBSET Nat /\ S # {}
  BY CatalogConstants DEF CInv, Types, Running
<1>2. Min(S) \in S /\ \A x \in S : Min(S) <= x
  BY <1>1, MinIsLeast
<1>3. LowestStart(t) = Min(S)
  BY DEF LowestStart
<1>4. \A u \in Running \ {t} : start_time[u] \in S
  OBVIOUS
<1> HIDE DEF S
<1>5. LowestStart(t) \in Nat /\ \A u \in Running \ {t} : LowestStart(t) <= start_time[u]
  BY <1>1, <1>2, <1>3, <1>4
<1>6. Running \ {t} = {} => LowestStart(t) = TRANSACTION_ID_START
  BY <1>2, <1>3 DEF S
<1> QED
  BY <1>5, <1>6

\* What RemoveTransaction leaves, in terms of the commits r and the number n of
\* those that are cleaned up.
Removes(t, committed, r, n, gone) ==
  /\ r = Awaiting(t, committed) /\ CommitsOK(r, t) /\ n \in 0..Len(r)
  /\ \A i \in 1..n : commit_id[r[i]] < LowestStart(t)
  /\ (\A i \in 1..Len(r) : commit_id[r[i]] < LowestStart(t)) => n = Len(r)
  /\ gone = {r[i] : i \in 1..n} \cup (IF committed /\ undo[t] # <<>> THEN {} ELSE {t})
  /\ map' = Cleanup(SubSeq(r, 1, n))
  /\ recently_committed' = SubSeq(r, n + 1, Len(r))
  /\ phase' = [phase EXCEPT ![t] = "ended"]
  /\ transaction_lock' = NoTxn /\ at' = 0
  /\ undo' = Forget(gone, undo, <<>>)
  /\ start_time' = Forget(gone, start_time, 0)
  /\ transaction_id' = Forget(gone, transaction_id, 0)
  /\ commit_id' = Forget(gone, commit_id, 0)
  /\ current_start_timestamp' = current_start_timestamp
  /\ current_transaction_id' = current_transaction_id /\ todo' = todo

\* Elements of a part of a sequence.
LEMMA PartOfSeq ==
  ASSUME NEW S, NEW r \in Seq(S), NEW n \in 0..Len(r)
  PROVE  /\ Len(r) \in Nat /\ n \in Nat /\ \A i \in 1..Len(r) : r[i] \in S
         /\ SubSeq(r, 1, n) \in Seq(S) /\ Len(SubSeq(r, 1, n)) = n
         /\ \A i \in 1..n : i \in 1..Len(r) /\ SubSeq(r, 1, n)[i] = r[i]
         /\ SubSeq(r, n + 1, Len(r)) \in Seq(S) /\ Len(SubSeq(r, n + 1, Len(r))) = Len(r) - n
         /\ \A i \in 1..Len(r) - n : n + i \in 1..Len(r) /\ SubSeq(r, n + 1, Len(r))[i] = r[n + i]
<1>1. Len(r) \in Nat /\ r \in [1..Len(r) -> S]
  BY LenProperties
<1>2. n \in Nat /\ n <= Len(r)
  BY <1>1
<1>3. \A i \in 1..Len(r) : r[i] \in S
  BY <1>1
<1>4. \A i \in 1..n : i \in 1..Len(r)
  BY <1>1, <1>2
<1>5. /\ SubSeq(r, 1, n) \in Seq(S)
      /\ Len(SubSeq(r, 1, n)) = IF 1 <= n THEN n - 1 + 1 ELSE 0
      /\ \A i \in 1..n - 1 + 1 : SubSeq(r, 1, n)[i] = r[1 + i - 1]
  BY <1>2, <1>3, <1>4, SubSeqProperties
<1>6. \A i \in 1..n : i \in 1..n - 1 + 1 /\ 1 + i - 1 = i
  BY <1>2
<1>7. Len(SubSeq(r, 1, n)) = n /\ \A i \in 1..n : SubSeq(r, 1, n)[i] = r[i]
  BY <1>2, <1>5, <1>6
<1>8. \A i \in n + 1..Len(r) : i \in 1..Len(r)
  BY <1>1, <1>2
<1>9. /\ SubSeq(r, n + 1, Len(r)) \in Seq(S)
      /\ Len(SubSeq(r, n + 1, Len(r))) = IF n + 1 <= Len(r) THEN Len(r) - (n + 1) + 1 ELSE 0
      /\ \A i \in 1..Len(r) - (n + 1) + 1 : SubSeq(r, n + 1, Len(r))[i] = r[(n + 1) + i - 1]
  BY <1>1, <1>2, <1>3, <1>8, SubSeqProperties
<1>10. \A i \in 1..Len(r) - n : i \in 1..Len(r) - (n + 1) + 1 /\ (n + 1) + i - 1 = n + i /\ n + i \in 1..Len(r)
  BY <1>1, <1>2
<1>11. Len(SubSeq(r, n + 1, Len(r))) = Len(r) - n
  <2>1. \A a, b \in Nat : b <= a => (IF b + 1 <= a THEN a - (b + 1) + 1 ELSE 0) = a - b
    OBVIOUS
  <2> QED
    BY <1>1, <1>2, <1>9, <2>1
<1> QED
  BY <1>1, <1>2, <1>3, <1>4, <1>5, <1>7, <1>9, <1>10, <1>11

\* That is what RemoveTransaction does.
LEMMA RemoveTransactionRemoves ==
  ASSUME CInv, NEW t \in Txn, NEW committed, Leaves(t, committed), RemoveTransaction(t, committed)
  PROVE  \E r, n, gone : Removes(t, committed, r, n, gone)
<1> DEFINE r    == Awaiting(t, committed)
           low  == LowestStart(t)
           n    == Cleanable(r, low)
           done == SubSeq(r, 1, n)
           gone == ToSet(done) \cup (IF committed /\ undo[t] # <<>> THEN {} ELSE {t})
<1>1. CommitsOK(r, t) /\ r \in Seq(Txn)
  BY AwaitingOK DEF CommitsOK
<1>2. low \in Nat
  BY LowestStartIs
<1>3. /\ map' = Cleanup(done)
      /\ recently_committed' = SubSeq(r, n + 1, Len(r))
      /\ phase' = [phase EXCEPT ![t] = "ended"]
      /\ transaction_lock' = NoTxn /\ at' = 0
      /\ undo' = Forget(gone, undo, <<>>)
      /\ start_time' = Forget(gone, start_time, 0)
      /\ transaction_id' = Forget(gone, transaction_id, 0)
      /\ commit_id' = Forget(gone, commit_id, 0)
      /\ current_start_timestamp' = current_start_timestamp
      /\ current_transaction_id' = current_transaction_id /\ todo' = todo
  BY DEF RemoveTransaction, Awaiting
<1> HIDE DEF r, low
<1>4. /\ n \in 0..Len(r) /\ \A i \in 1..n : commit_id[r[i]] < low
      /\ (\A i \in 1..Len(r) : commit_id[r[i]] < low) => n = Len(r)
  BY <1>1, <1>2, CleanableRange
<1> HIDE DEF n
<1>5. ToSet(done) = {r[i] : i \in 1..n}
  <2>1. done \in Seq(Txn) /\ Len(done) = n /\ \A i \in 1..n : done[i] = r[i]
    BY <1>1, <1>4, PartOfSeq
  <2>2. DOMAIN done = 1..n
    BY <2>1, LenProperties
  <2> HIDE DEF done
  <2> QED
    BY <2>1, <2>2 DEF ToSet
<1>6. gone = {r[i] : i \in 1..n} \cup (IF committed /\ undo[t] # <<>> THEN {} ELSE {t})
  BY <1>5
<1> HIDE DEF gone, done
<1>7. Removes(t, committed, r, n, gone)
  BY <1>1, <1>3, <1>4, <1>6 DEF Removes, r, low, done
<1> QED
  BY <1>7

\* What Forget leaves of the others.
LEMMA Forgotten ==
  ASSUME CInv, NEW t \in Txn, NEW committed, Leaves(t, committed),
         NEW r, NEW n, NEW gone, Removes(t, committed, r, n, gone)
  PROVE  /\ \A u \in Txn : /\ u \in gone => undo'[u] = <<>> /\ start_time'[u] = 0 /\ commit_id'[u] = 0
                                            /\ transaction_id'[u] = 0
                           /\ u \notin gone => /\ undo'[u] = undo[u] /\ start_time'[u] = start_time[u]
                                               /\ commit_id'[u] = commit_id[u]
                                               /\ transaction_id'[u] = transaction_id[u]
                           /\ phase'[u] = IF u = t THEN "ended" ELSE phase[u]
                           /\ u # t => phase[u] \notin {"committing", "rolling_back"}
         /\ undo' \in [Txn -> Buffers] /\ start_time' \in [Txn -> Nat]
         /\ commit_id' \in [Txn -> Nat] /\ transaction_id' \in [Txn -> Nat]
         /\ gone \subseteq EndedWith(t) /\ t \in Running /\ t # NoTxn
         /\ Ended' = EndedWith(t) /\ Running' = Running \ {t} /\ \A u \in Running' : u \notin gone
<1>1. phase[t] \in {"committing", "rolling_back"} /\ transaction_lock = t /\ t # NoTxn
  BY CatalogConstants DEF Leaves, CInv, Locked
<1>2. \A u \in Txn : u # t => phase[u] \notin {"committing", "rolling_back"}
  BY <1>1 DEF CInv, Locked
<1>3. phase' = [phase EXCEPT ![t] = "ended"] /\ phase \in [Txn -> {"idle", "active", "invalid", "committing", "rolling_back", "ended"}]
  BY DEF Removes, CInv, Types
<1>4. \A u \in Txn : phase'[u] = IF u = t THEN "ended" ELSE phase[u]
  BY <1>3
<1>5. /\ undo \in [Txn -> Buffers] /\ start_time \in [Txn -> Nat] /\ commit_id \in [Txn -> Nat]
      /\ transaction_id \in [Txn -> Nat] /\ <<>> \in Buffers
  <2>1. <<>> \in Buffers
    BY DEF Buffers
  <2> QED
    BY <2>1 DEF CInv, Types
<1>6. /\ undo' = [u \in Txn |-> IF u \in gone THEN <<>> ELSE undo[u]]
      /\ start_time' = [u \in Txn |-> IF u \in gone THEN 0 ELSE start_time[u]]
      /\ commit_id' = [u \in Txn |-> IF u \in gone THEN 0 ELSE commit_id[u]]
      /\ transaction_id' = [u \in Txn |-> IF u \in gone THEN 0 ELSE transaction_id[u]]
  BY DEF Removes, Forget
<1>7. \A u \in Txn : /\ u \in gone => undo'[u] = <<>> /\ start_time'[u] = 0 /\ commit_id'[u] = 0
                                      /\ transaction_id'[u] = 0
                     /\ u \notin gone => /\ undo'[u] = undo[u] /\ start_time'[u] = start_time[u]
                                         /\ commit_id'[u] = commit_id[u]
                                         /\ transaction_id'[u] = transaction_id[u]
  BY <1>6
<1>8. undo' \in [Txn -> Buffers]
  BY <1>5, <1>6
<1>9. start_time' \in [Txn -> Nat] /\ commit_id' \in [Txn -> Nat] /\ transaction_id' \in [Txn -> Nat]
  BY <1>5, <1>6
<1>10. gone \subseteq EndedWith(t)
  <2>1. r \in Seq(Txn) /\ n \in 0..Len(r) /\ \A i \in 1..Len(r) : r[i] \in EndedWith(t)
    BY DEF Removes, CommitsOK
  <2>2. \A i \in 1..n : i \in 1..Len(r)
    BY <2>1, PartOfSeq
  <2>3. \A i \in 1..n : r[i] \in EndedWith(t)
    BY <2>1, <2>2
  <2>4. t \in EndedWith(t)
    BY DEF EndedWith
  <2>5. gone = {r[i] : i \in 1..n} \cup (IF committed /\ undo[t] # <<>> THEN {} ELSE {t})
    BY DEF Removes
  <2> QED
    BY <2>3, <2>4, <2>5
<1>11. Ended' = EndedWith(t)
  BY <1>4 DEF Ended, EndedWith
<1>12. Running' = Running \ {t} /\ t \in Running
  BY <1>1, <1>4 DEF Running
<1>13. \A u \in Running' : u \notin gone
  BY <1>10, <1>12 DEF EndedWith, Ended, Running
<1> QED
  BY <1>1, <1>2, <1>4, <1>7, <1>8, <1>9, <1>10, <1>11, <1>12, <1>13

\* The chains when the buffers of those who are gone have been freed.
LEMMA RemovedWoven ==
  ASSUME CInv, NEW t \in Txn, NEW committed, Leaves(t, committed),
         NEW r, NEW n, NEW gone, Removes(t, committed, r, n, gone)
  PROVE  MapWoven' /\ PendingIds(undo)' = Without(PendingIds(undo), r, n)
<1> DEFINE P == PendingIds(undo)
           Q == Without(P, r, n)
           B == BeforeWith(t)
           E == EndedWith(t)
<1>1. Woven(map', undo, Q, B, E, Stamps)
  <2>1. map' = Cleanup(SubSeq(r, 1, n)) /\ CommitsOK(r, t) /\ n \in 0..Len(r)
    BY DEF Removes
  <2> QED
    BY <2>1, CleanedAll
<1>2. \A u \in Txn : /\ u \in gone => undo'[u] = <<>>
                     /\ u \notin gone => /\ undo'[u] = undo[u] /\ start_time'[u] = start_time[u]
                                         /\ commit_id'[u] = commit_id[u]
                                         /\ transaction_id'[u] = transaction_id[u]
                     /\ phase'[u] = IF u = t THEN "ended" ELSE phase[u]
                     /\ u # t => phase[u] \notin {"committing", "rolling_back"}
  BY Forgotten
<1>3. undo' \in [Txn -> Buffers] /\ start_time' \in [Txn -> Nat] /\ commit_id' \in [Txn -> Nat]
      /\ transaction_id' \in [Txn -> Nat] /\ Ended' = E
  BY Forgotten
<1>4. gone = {r[i] : i \in 1..n} \cup (IF committed /\ undo[t] # <<>> THEN {} ELSE {t})
  BY DEF Removes
<1>5. (committed /\ undo[t] # <<>>) \/ UndoUpTo(undo, t) = 0
  <2>1. undo[t] = <<>> => Len(undo[t]) = 0
    OBVIOUS
  <2>2. committed # TRUE => phase[t] = "rolling_back" /\ at = 0
    BY DEF Leaves
  <2>3. phase[t] # "rolling_back" => committed = TRUE
    BY DEF Leaves
  <2> QED
    BY <2>1, <2>2, <2>3 DEF UndoUpTo, Leaves
<1>6. \A p \in P : p \in Txn \X Nat /\ p[1] \in Txn /\ p[2] \in Nat /\ p[2] \in 1..UndoUpTo(undo, p[1])
  BY DEF PendingIds
<1>7. \A p \in P : p[1] \in gone <=> \E i \in 1..n : p[1] = r[i]
  <2> SUFFICES ASSUME NEW p \in P PROVE p[1] \in gone <=> \E i \in 1..n : p[1] = r[i]
    OBVIOUS
  <2>1. p[1] = t => committed /\ undo[t] # <<>>
    <3>1. 1..0 = {}
      OBVIOUS
    <3> QED
      BY <1>5, <1>6, <3>1
  <2> QED
    BY <1>4, <2>1
<1>8. Q = {p \in P : p[1] \notin gone}
  BY <1>7 DEF Without
<1>9. UndoUpTo(undo, t)' = Len(undo'[t])
  BY <1>2 DEF UndoUpTo
<1>10. ASSUME NEW p \in Txn \X Nat
       PROVE  p[2] \in 1..UndoUpTo(undo, p[1])' <=> p[2] \in 1..UndoUpTo(undo, p[1]) /\ p[1] \notin gone
  <2>1. p[1] \in Txn
    OBVIOUS
  <2>2. UndoUpTo(undo, p[1])' = Len(undo'[p[1]])
    BY <1>2, <1>9, <2>1 DEF UndoUpTo
  <2>3. CASE p[1] \in gone
    <3>1. undo'[p[1]] = <<>>
      BY <1>2, <2>1, <2>3
    <3>2. Len(undo'[p[1]]) = 0
      BY <3>1
    <3>3. 1..0 = {}
      OBVIOUS
    <3> QED
      BY <2>2, <2>3, <3>2, <3>3
  <2>4. CASE p[1] \notin gone
    <3>1. undo'[p[1]] = undo[p[1]]
      BY <1>2, <2>1, <2>4
    <3>2. phase[p[1]] # "rolling_back"
      <4>1. CASE p[1] = t
        <5>1. committed /\ undo[t] # <<>>
          BY <1>4, <2>4, <4>1
        <5> QED
          BY <4>1, <5>1 DEF Leaves
      <4>2. CASE p[1] # t
        BY <1>2, <2>1, <4>2
      <4> QED
        BY <4>1, <4>2
    <3>3. UndoUpTo(undo, p[1]) = Len(undo[p[1]])
      BY <3>2 DEF UndoUpTo
    <3> QED
      BY <2>2, <2>4, <3>1, <3>3
  <2> QED
    BY <2>3, <2>4
<1>11. PendingIds(undo)' = Q
  BY <1>8, <1>10 DEF PendingIds
<1>12. \A p \in Q : p \in P /\ p[1] \notin gone /\ p \in Txn \X Nat /\ p[1] \in Txn /\ p[2] \in Nat
  BY <1>6, <1>8
<1> HIDE DEF P, Q, B, E
<1>13. \A p \in Q : Stamps'[p] = Stamps[p]
  <2> SUFFICES ASSUME NEW p \in Q PROVE Stamps'[p] = Stamps[p]
    OBVIOUS
  <2>1. p \in Txn \X Nat /\ p[1] \in Txn /\ p[1] \notin gone /\ p[2] \in Nat /\ p \in P
    BY <1>12
  <2>2. Stamps'[p] = StampOf(p)' /\ Stamps[p] = StampOf(p)
    BY <2>1 DEF Stamps
  <2>3. CASE p[1] = t
    <3>1. phase[t] = "committing" /\ at = Len(undo[t])
      <4>1. committed /\ undo[t] # <<>>
        BY <1>4, <2>1, <2>3
      <4> QED
        BY <4>1 DEF Leaves
    <3>2. p[2] \in 1..Len(undo[t])
      BY <1>6, <2>1, <2>3, <3>1 DEF UndoUpTo
    <3>3. Len(undo[t]) \in Nat
      BY LenProperties DEF CInv, Types, Buffers
    <3>4. p[2] <= at
      BY <3>1, <3>2, <3>3
    <3>5. StampOf(p) = commit_id[t]
      BY <2>3, <3>1, <3>4 DEF StampOf
    <3>6. StampOf(p)' = commit_id'[t]
      BY <1>2, <2>1, <2>3 DEF StampOf
    <3>7. commit_id'[t] = commit_id[t]
      BY <1>2, <2>1, <2>3
    <3> QED
      BY <2>2, <3>5, <3>6, <3>7
  <2>4. CASE p[1] # t
    <3>1. phase'[p[1]] = phase[p[1]] /\ phase[p[1]] # "committing" /\ commit_id'[p[1]] = commit_id[p[1]]
          /\ transaction_id'[p[1]] = transaction_id[p[1]]
      BY <1>2, <2>1, <2>4
    <3> QED
      BY <2>2, <3>1 DEF StampOf
  <2> QED
    BY <2>3, <2>4
<1>14. \A p, q \in Q : Older(p, q, B) => Older(p, q, Before')
  <2> SUFFICES ASSUME NEW p \in Q, NEW q \in Q, Older(p, q, B) PROVE Older(p, q, Before')
    OBVIOUS
  <2>1. ASSUME <<p[1], q[1]>> \in B PROVE <<p[1], q[1]>> \in Before'
    <3>1. p[1] \in E /\ commit_id[p[1]] < start_time[q[1]] /\ p[1] \in Txn /\ q[1] \in Txn
      BY <1>12, <2>1 DEF B, E, BeforeWith
    <3>2. commit_id'[p[1]] < start_time'[q[1]]
      BY <1>2, <1>12, <3>1
    <3>3. phase'[p[1]] = "ended"
      BY <1>2, <3>1 DEF E, EndedWith, Ended
    <3> QED
      BY <3>1, <3>2, <3>3 DEF Before
  <2> QED
    BY <2>1 DEF Older
<1>15. \A p \in Q : UndoEntry(undo', p) = UndoEntry(undo, p)
  BY <1>2, <1>12 DEF UndoEntry
<1>16. Alike(Q, undo, B, Stamps, undo', Q, Before', Stamps')
  BY <1>13, <1>14, <1>15 DEF Alike
<1>17. Within(undo', Q)
  <2>1. Within(undo, Q)
    BY <1>1 DEF Woven
  <2> QED
    BY <1>2, <1>12, <2>1 DEF Within
<1>18. Stamps' \in [Txn \X Nat -> Nat]
  <2>1. \A p \in Txn \X Nat : StampOf(p)' \in Nat
    BY <1>3 DEF StampOf
  <2> QED
    BY <2>1 DEF Stamps
<1>19. E \subseteq Ended'
  BY <1>3 DEF E
<1>20. Woven(map', undo', Q, Before', Ended', Stamps')
  BY <1>1, <1>3, <1>16, <1>17, <1>18, <1>19, WovenAlike
<1>21. MapWoven'
  BY <1>11, <1>20 DEF MapWoven
<1> QED
  BY <1>11, <1>21 DEF P, Q

\* The commits that go on awaiting their cleanup.
LEMMA RemovedRecent ==
  ASSUME CInv, NEW t \in Txn, NEW committed, Leaves(t, committed),
         NEW r, NEW n, NEW gone, Removes(t, committed, r, n, gone)
  PROVE  Recent' /\ recently_committed' \in Seq(Txn)
<1>1. r = Awaiting(t, committed) /\ CommitsOK(r, t) /\ n \in 0..Len(r) /\ r \in Seq(Txn)
  BY DEF Removes, CommitsOK
<1> DEFINE s == recently_committed'
<1>2. /\ Len(r) \in Nat /\ n \in Nat /\ \A i \in 1..Len(r) : r[i] \in Txn
      /\ s \in Seq(Txn) /\ Len(s) = Len(r) - n
      /\ \A i \in 1..Len(r) - n : n + i \in 1..Len(r) /\ s[i] = r[n + i]
      /\ \A i \in 1..n : i \in 1..Len(r)
  <2>1. s = SubSeq(r, n + 1, Len(r))
    BY DEF Removes
  <2> QED
    BY <1>1, <2>1, PartOfSeq
<1>3. DOMAIN s = 1..Len(r) - n
  BY <1>2, LenProperties
<1>4. gone = {r[i] : i \in 1..n} \cup (IF committed /\ undo[t] # <<>> THEN {} ELSE {t})
  BY DEF Removes
<1>5. \A u \in Txn : /\ u \in gone => undo'[u] = <<>>
                     /\ u \notin gone => /\ undo'[u] = undo[u] /\ start_time'[u] = start_time[u]
                                         /\ commit_id'[u] = commit_id[u]
                     /\ phase'[u] = IF u = t THEN "ended" ELSE phase[u]
                     /\ u # t => phase[u] \notin {"committing", "rolling_back"}
  BY Forgotten
<1>6. Ended' = EndedWith(t) /\ Running' = Running \ {t} /\ \A u \in Running' : u \notin gone /\ u \in Txn
  BY Forgotten DEF Running
<1>7. \A i \in 1..Len(r) : /\ r[i] \in EndedWith(t) /\ phase[r[i]] # "rolling_back"
                           /\ start_time[r[i]] < commit_id[r[i]]
                           /\ \A x \in Running \ {t} : commit_id[r[i]] # start_time[x]
  BY <1>1 DEF CommitsOK
<1>8. \A i, j \in 1..Len(r) : i < j => commit_id[r[i]] < commit_id[r[j]]
  BY <1>1 DEF CommitsOK
<1>9. \A u \in EndedWith(t) : undo[u] # <<>> /\ phase[u] # "rolling_back" => \E i \in 1..Len(r) : r[i] = u
  BY <1>1 DEF CommitsOK
<1>10. ~ (committed /\ undo[t] # <<>>) => \A i \in 1..Len(r) : r[i] # t
  BY <1>1, AwaitingOK
<1> HIDE DEF s
<1>11. ASSUME NEW i \in 1..Len(r) - n PROVE s[i] \notin gone /\ s[i] \in Txn /\ s[i] = r[n + i] /\ n + i \in 1..Len(r)
  <2>1. s[i] = r[n + i] /\ n + i \in 1..Len(r) /\ s[i] \in Txn
    BY <1>2
  <2>2. \A j \in 1..n : r[j] # r[n + i]
    <3> SUFFICES ASSUME NEW j \in 1..n, r[j] = r[n + i] PROVE FALSE
      OBVIOUS
    <3>1. j < n + i /\ j \in 1..Len(r)
      BY <1>2, <2>1
    <3>2. commit_id[r[j]] < commit_id[r[n + i]]
      BY <1>8, <2>1, <3>1
    <3>3. commit_id[r[n + i]] \in Nat
      BY <2>1 DEF CInv, Types
    <3>4. \A x \in Nat : ~ (x < x)
      OBVIOUS
    <3> QED
      BY <3>2, <3>3, <3>4
  <2> QED
    BY <1>4, <1>10, <2>1, <2>2
<1>12. \A u \in Txn : phase'[u] = "idle" => undo'[u] = <<>>
  BY <1>5 DEF CInv, Recent
<1>13. \A u \in Ended' : undo'[u] # <<>> => \E i \in DOMAIN s : s[i] = u
  <2> SUFFICES ASSUME NEW u \in Ended', undo'[u] # <<>> PROVE \E i \in DOMAIN s : s[i] = u
    OBVIOUS
  <2>1. u \in EndedWith(t) /\ u \in Txn
    BY <1>6 DEF EndedWith, Ended
  <2>2. u \notin gone /\ undo[u] # <<>>
    BY <1>5, <2>1
  <2>3. phase[u] # "rolling_back"
    <3>1. CASE u = t
      BY <1>4, <2>2, <3>1 DEF Leaves
    <3>2. CASE u # t
      BY <1>5, <2>1, <3>2
    <3> QED
      BY <3>1, <3>2
  <2>4. PICK j \in 1..Len(r) : r[j] = u
    BY <1>9, <2>1, <2>2, <2>3
  <2>5. j \notin 1..n
    BY <1>4, <2>2, <2>4
  <2>6. j - n \in 1..Len(r) - n /\ n + (j - n) = j
    <3>1. \A a, b, c \in Nat : a \in 1..c /\ a \notin 1..b => a - b \in 1..c - b /\ b + (a - b) = a
      OBVIOUS
    <3>2. j \in Nat
      BY <1>2
    <3> QED
      BY <1>2, <2>5, <3>1, <3>2
  <2>7. s[j - n] = u /\ j - n \in DOMAIN s
    BY <1>2, <1>3, <2>4, <2>6
  <2> QED
    BY <2>7
<1>14. ASSUME NEW i \in DOMAIN s
       PROVE  /\ s[i] \in Ended' /\ start_time'[s[i]] < commit_id'[s[i]]
              /\ \A u \in Running' : commit_id'[s[i]] # start_time'[u]
  <2>1. s[i] \notin gone /\ s[i] \in Txn /\ s[i] = r[n + i] /\ n + i \in 1..Len(r)
    BY <1>3, <1>11
  <2>2. start_time'[s[i]] = start_time[s[i]] /\ commit_id'[s[i]] = commit_id[s[i]]
    BY <1>5, <2>1
  <2>3. s[i] \in EndedWith(t) /\ start_time[s[i]] < commit_id[s[i]]
        /\ \A x \in Running \ {t} : commit_id[s[i]] # start_time[x]
    BY <1>7, <2>1
  <2>4. \A u \in Running' : start_time'[u] = start_time[u] /\ u \in Running \ {t}
    BY <1>5, <1>6
  <2> QED
    BY <1>6, <2>2, <2>3, <2>4
<1>15. ASSUME NEW i \in DOMAIN s, NEW j \in DOMAIN s, i < j PROVE commit_id'[s[i]] < commit_id'[s[j]]
  <2>1. s[i] \notin gone /\ s[i] \in Txn /\ s[i] = r[n + i] /\ n + i \in 1..Len(r)
    BY <1>3, <1>11
  <2>2. s[j] \notin gone /\ s[j] \in Txn /\ s[j] = r[n + j] /\ n + j \in 1..Len(r)
    BY <1>3, <1>11
  <2>3. n + i < n + j
    BY <1>2, <1>3, <1>15
  <2> QED
    BY <1>5, <1>8, <2>1, <2>2, <2>3
<1>16. Recent'
  BY <1>12, <1>13, <1>14, <1>15 DEF Recent, s
<1> QED
  BY <1>2, <1>16 DEF s

\* The end of a commit or a rollback.
LEMMA RemoveTransactionInv ==
  ASSUME CInv, NEW t \in Txn, NEW committed, Leaves(t, committed), RemoveTransaction(t, committed)
  PROVE  CInv' /\ IdleClean'
<1>1. PICK r, n, gone : Removes(t, committed, r, n, gone)
  BY RemoveTransactionRemoves
<1>2. \A u \in Txn : /\ u \in gone => undo'[u] = <<>> /\ start_time'[u] = 0 /\ commit_id'[u] = 0
                                      /\ transaction_id'[u] = 0
                     /\ u \notin gone => /\ undo'[u] = undo[u] /\ start_time'[u] = start_time[u]
                                         /\ commit_id'[u] = commit_id[u]
                                         /\ transaction_id'[u] = transaction_id[u]
                     /\ phase'[u] = IF u = t THEN "ended" ELSE phase[u]
                     /\ u # t => phase[u] \notin {"committing", "rolling_back"}
  BY <1>1, Forgotten
<1>3. /\ undo' \in [Txn -> Buffers] /\ start_time' \in [Txn -> Nat]
      /\ commit_id' \in [Txn -> Nat] /\ transaction_id' \in [Txn -> Nat]
      /\ Running' = Running \ {t} /\ \A u \in Running' : u \notin gone
  BY <1>1, Forgotten
<1>4. /\ current_start_timestamp' = current_start_timestamp /\ todo' = todo /\ at' = 0
      /\ current_transaction_id' = current_transaction_id /\ transaction_lock' = NoTxn
      /\ phase' = [phase EXCEPT ![t] = "ended"]
  BY <1>1 DEF Removes
<1>5. MapWoven' /\ Recent' /\ recently_committed' \in Seq(Txn)
  BY <1>1, RemovedWoven, RemovedRecent
<1>6. map' \in [Key -> Chains]
  BY <1>5 DEF MapWoven, Woven
<1>7. Types'
  BY <1>3, <1>4, <1>5, <1>6 DEF CInv, Types
<1>8. \A u \in Txn : phase'[u] \notin {"committing", "rolling_back"} /\ u # NoTxn
  BY <1>2, CatalogConstants
<1>9. Locked'
  BY <1>4, <1>8 DEF Locked
<1>10. Clocks'
  <2>1. \A u \in Txn : start_time'[u] < current_start_timestamp /\ commit_id'[u] < current_start_timestamp
    <3> SUFFICES ASSUME NEW u \in Txn
                 PROVE start_time'[u] < current_start_timestamp /\ commit_id'[u] < current_start_timestamp
      OBVIOUS
    <3>1. CASE u \in gone
      BY <1>2, <3>1 DEF CInv, Clocks
    <3>2. CASE u \notin gone
      BY <1>2, <3>2 DEF CInv, Clocks
    <3> QED
      BY <3>1, <3>2
  <2>2. \A u \in Running' : u \in Running /\ transaction_id'[u] = transaction_id[u]
    BY <1>2, <1>3 DEF Running
  <2> QED
    BY <1>4, <1>8, <2>1, <2>2 DEF CInv, Clocks
<1>11. IdleClean'
  <2> SUFFICES ASSUME Running' = {} PROVE recently_committed' = <<>>
    BY DEF IdleClean
  <2>1. LowestStart(t) = TRANSACTION_ID_START
    BY <1>3, LowestStartIs
  <2>2. r \in Seq(Txn) /\ n \in 0..Len(r)
    BY <1>1 DEF Removes, CommitsOK
  <2>3. \A i \in 1..Len(r) : commit_id[r[i]] < LowestStart(t)
    <3> SUFFICES ASSUME NEW i \in 1..Len(r) PROVE commit_id[r[i]] < LowestStart(t)
      OBVIOUS
    <3>1. r[i] \in Txn
      BY <2>2, PartOfSeq
    <3>2. /\ commit_id[r[i]] < current_start_timestamp /\ current_start_timestamp <= TRANSACTION_ID_START
          /\ commit_id[r[i]] \in Nat /\ current_start_timestamp \in Nat
      BY <3>1 DEF CInv, Clocks, Types
    <3> QED
      BY <2>1, <3>2, CatalogConstants
  <2>4. n = Len(r)
    BY <1>1, <2>3 DEF Removes
  <2>5. /\ recently_committed' \in Seq(Txn) /\ Len(recently_committed') = Len(r) - n /\ Len(r) \in Nat
    <3>1. recently_committed' = SubSeq(r, n + 1, Len(r))
      BY <1>1 DEF Removes
    <3> QED
      BY <2>2, <3>1, PartOfSeq
  <2>6. Len(recently_committed') = 0
    BY <2>4, <2>5
  <2> QED
    BY <2>5, <2>6, EmptySeq
<1> QED
  BY <1>5, <1>7, <1>9, <1>10, <1>11 DEF CInv
-----------------------------------------------------------------------------
(* The invariant, and what it says.                                        *)

\* The invariant holds when the database is opened.
LEMMA InitCInv ==
  ASSUME Init
  PROVE  CInv /\ IdleClean
<1>1. /\ phase = [t \in Txn |-> "idle"]
      /\ start_time = [t \in Txn |-> 0] /\ transaction_id = [t \in Txn |-> 0]
      /\ commit_id = [t \in Txn |-> 0]
      /\ current_start_timestamp = 2 /\ current_transaction_id = TRANSACTION_ID_START
      /\ transaction_lock = NoTxn
      /\ map = [key \in Key |-> IF key \in InitialKeys THEN <<InitialEntry(key)>> ELSE <<>>]
      /\ undo = [t \in Txn |-> <<>>] /\ todo = [t \in Txn |-> <<>>]
      /\ recently_committed = <<>>
  BY DEF Init
<1>2. ASSUME NEW key \in InitialKeys
      PROVE  InitialEntry(key) \in Entries /\ InitialEntry(key).id = <<"initial">> /\ InitialEntry(key).type = "ENTRY"
  <2>1. (IF key[1] = "object" THEN InitialCatalog[key[2]] ELSE {}) \in SUBSET Name
    <3>1. CASE key[1] # "object"
      BY <3>1
    <3>2. CASE key[1] = "object"
      <4>1. PICK n \in DOMAIN InitialCatalog :
              key \in {Object(n)} \cup UNION {{Dependents(s, n), Subjects(n, s)} : s \in InitialCatalog[n]}
        BY <1>2 DEF InitialKeys
      <4>2. key = Object(n)
        <5>1. \A s : Dependents(s, n)[1] # "object" /\ Subjects(n, s)[1] # "object"
          BY DEF Dependents, Subjects
        <5> QED
          BY <3>2, <4>1, <5>1
      <4>3. key[2] = n
        BY <4>2 DEF Object
      <4>4. InitialCatalog[n] \subseteq DependsOn[n]
        BY CatalogConstants
      <4> QED
        BY <3>2, <4>3, <4>4, CatalogConstants
    <3> QED
      BY <3>1, <3>2
  <2> QED
    BY <2>1 DEF InitialEntry, Entry, Entries, Ids
<1>3. ASSUME NEW key \in Key
      PROVE  /\ map[key] \in Chains
             /\ map[key] = <<>> \/ (Len(map[key]) = 1 /\ map[key][1].id = <<"initial">> /\ map[key][1].type = "ENTRY")
  <2>1. CASE key \in InitialKeys
    <3> DEFINE e == InitialEntry(key)
    <3>1. e \in Entries /\ e.id = <<"initial">> /\ e.type = "ENTRY" /\ map[key] = <<e>>
      BY <1>1, <1>2, <2>1
    <3> HIDE DEF e
    <3> QED
      BY <3>1 DEF Chains
  <2>2. CASE key \notin InitialKeys
    BY <1>1, <2>2 DEF Chains
  <2> QED
    BY <2>1, <2>2
<1>4. <<>> \in Buffers /\ <<>> \in Seq(OtherOps) /\ <<>> \in Seq(Txn)
  BY DEF Buffers
<1>5. map \in [Key -> Chains]
  <2>1. map = [key \in Key |-> map[key]]
    BY <1>1
  <2> QED
    BY <1>3, <2>1
<1>6. Types
  <2>1. undo \in [Txn -> Buffers]
    BY <1>1, <1>4
  <2>2. todo \in [Txn -> Seq(OtherOps) \cup {<<a>> : a \in AlterOps}]
    BY <1>1, <1>4
  <2>3. current_transaction_id \in Nat
    BY <1>1, CatalogConstants
  <2> QED
    BY <1>1, <1>4, <1>5, <2>1, <2>2, <2>3 DEF Types
<1>7. Locked
  BY <1>1, CatalogConstants DEF Locked
<1>8. Running = {} /\ Ended = {}
  BY <1>1 DEF Running, Ended
<1>9. Clocks
  BY <1>1, <1>8, CatalogConstants DEF Clocks
<1>10. DOMAIN recently_committed = {}
  BY <1>1
<1>11. Recent
  BY <1>1, <1>8, <1>10 DEF Recent
<1>12. PendingIds(undo) = {}
  <2>1. \A t \in Txn : UndoUpTo(undo, t) = 0
    BY <1>1 DEF UndoUpTo
  <2>2. 1..0 = {}
    OBVIOUS
  <2> QED
    BY <2>1, <2>2 DEF PendingIds
<1>13. ASSUME NEW key \in Key, NEW U, NEW P, NEW B, NEW E, NEW F PROVE ChainOK(map[key], key, U, P, B, E, F)
  <2>1. CASE map[key] = <<>>
    BY <2>1, EmptyOK
  <2>2. CASE Len(map[key]) = 1 /\ map[key][1].id = <<"initial">> /\ map[key][1].type = "ENTRY"
    <3>1. 1..Len(map[key]) - 1 = {} /\ \A i \in 1..Len(map[key]) : i = 1
      BY <2>2
    <3>2. Bottom(map[key], E)
      BY <2>2 DEF Bottom
    <3> QED
      BY <3>1, <3>2 DEF ChainOK
  <2> QED
    BY <1>3, <2>1, <2>2
<1>14. MapWoven
  <2>1. Stamps \in [Txn \X Nat -> Nat]
    <3>1. \A p \in Txn \X Nat : StampOf(p) \in Nat
      BY <1>6 DEF Types, StampOf
    <3> QED
      BY <3>1 DEF Stamps
  <2> QED
    BY <1>5, <1>6, <1>12, <1>13, <2>1 DEF MapWoven, Woven, Types, Within
<1> QED
  BY <1>1, <1>6, <1>7, <1>9, <1>11, <1>14 DEF CInv, IdleClean

\* Every other step leaves its transaction running.
LEMMA StaysRunning ==
  ASSUME CInv, NEW t \in Txn, phase' = [phase EXCEPT ![t] = phase'[t]], phase'[t] \notin {"idle", "ended"}
  PROVE  IdleClean'
<1>1. t \in Running'
  BY DEF Running
<1> QED
  BY <1>1 DEF IdleClean

\* Every step keeps the invariant.
LEMMA StepCInv ==
  ASSUME CInv, IdleClean, [Next]_vars
  PROVE  CInv' /\ IdleClean'
<1>0. phase \in [Txn -> {"idle", "active", "invalid", "committing", "rolling_back", "ended"}]
  BY DEF CInv, Types
<1>1. ASSUME NEW t \in Txn, StartTransaction(t) PROVE CInv' /\ IdleClean'
  <2>1. phase' = [phase EXCEPT ![t] = phase'[t]] /\ phase'[t] \notin {"idle", "ended"}
    BY <1>0, <1>1 DEF StartTransaction
  <2> QED
    BY <1>1, <2>1, StartTransactionInv, StaysRunning
<1>2. ASSUME NEW t \in Txn, phase[t] = "active", phase' = phase PROVE IdleClean'
  BY <1>0, <1>2, StaysRunning
<1>3. ASSUME NEW t \in Txn, NEW c \in Creates, Create(t, c.name, c.requires, c.replace) PROVE CInv' /\ IdleClean'
  <2>1. phase[t] = "active" /\ phase' = phase
    BY <1>3 DEF Create, Statement
  <2> QED
    BY <1>2, <1>3, <2>1, CreateInv
<1>4. ASSUME NEW t \in Txn, NEW d \in Drops, Drop(t, d.name, d.cascade) PROVE CInv' /\ IdleClean'
  <2>1. phase[t] = "active" /\ phase' = phase
    BY <1>4 DEF Drop, Statement
  <2> QED
    BY <1>2, <1>4, <2>1, DropInv
<1>5. ASSUME NEW t \in Txn, NEW a \in Alters, Alter(t, a.name, a.new, a.additive) PROVE CInv' /\ IdleClean'
  <2>1. phase[t] = "active" /\ phase' = phase
    BY <1>5 DEF Alter, Statement
  <2> QED
    BY <1>2, <1>5, <2>1, AlterInv
<1>6. ASSUME NEW t \in Txn, phase[t] = "active", NEW sets, NEW rest, EndOperation(t, sets, rest) PROVE IdleClean'
  <2>1. phase' = [phase EXCEPT ![t] = phase'[t]] /\ phase'[t] \notin {"idle", "ended"}
    BY <1>0, <1>6 DEF EndOperation
  <2> QED
    BY <2>1, StaysRunning
<1>7. ASSUME NEW t \in Txn, Fail(t) PROVE IdleClean'
  <2>1. phase' = [phase EXCEPT ![t] = phase'[t]] /\ phase'[t] \notin {"idle", "ended"}
    BY <1>0, <1>7 DEF Fail
  <2> QED
    BY <2>1, StaysRunning
<1>8. ASSUME NEW t \in Txn, CreateEntry(t) \/ DropEntry(t) \/ Unlink(t) PROVE CInv' /\ IdleClean'
  <2>1. phase[t] = "active" /\ \E sets, rest : EndOperation(t, sets, rest)
    BY <1>8 DEF CreateEntry, DropEntry, Unlink, Next_
  <2> QED
    BY <1>6, <1>8, <2>1, CreateEntryInv, DropEntryInv, UnlinkInv
<1>9. ASSUME NEW t \in Txn, CreateDependency(t) \/ AlterEntry(t) PROVE CInv' /\ IdleClean'
  <2>1. phase[t] = "active" /\ \E sets, rest : EndOperation(t, sets, rest)
    BY <1>9 DEF CreateDependency, AlterEntry, Next_
  <2> QED
    BY <1>6, <1>9, <2>1, CreateDependencyInv, AlterEntryInv
<1>10. ASSUME NEW t \in Txn, DropDependencies(t) \/ AlterObject(t) PROVE CInv' /\ IdleClean'
  <2>1. phase[t] = "active" /\ (Fail(t) \/ \E sets, rest : EndOperation(t, sets, rest))
    BY <1>10 DEF DropDependencies, AlterObject, Next_
  <2> QED
    BY <1>6, <1>7, <1>10, <2>1, DropDependenciesInv, AlterObjectInv
<1>11. ASSUME NEW t \in Txn, BeginCommit(t) \/ CommitFails(t) \/ RollbackTransaction(t) PROVE CInv' /\ IdleClean'
  <2>1. phase' = [phase EXCEPT ![t] = phase'[t]] /\ phase'[t] \notin {"idle", "ended"}
    BY <1>0, <1>11 DEF BeginCommit, CommitFails, RollbackTransaction
  <2> QED
    BY <1>11, <2>1, BeginCommitInv, CommitFailsInv, RollbackTransactionInv, StaysRunning
<1>12. ASSUME NEW t \in Txn, CommitEntry(t) \/ RollbackEntry(t) PROVE CInv' /\ IdleClean'
  <2>1. phase' = [phase EXCEPT ![t] = phase'[t]] /\ phase'[t] \notin {"idle", "ended"}
    BY <1>0, <1>12 DEF CommitEntry, RollbackEntry
  <2> QED
    BY <1>12, <2>1, CommitEntryInv, RollbackEntryInv, StaysRunning
<1>13. ASSUME NEW t \in Txn, FinishCommit(t) PROVE CInv' /\ IdleClean'
  <2>1. Leaves(t, TRUE) /\ RemoveTransaction(t, TRUE)
    BY <1>13 DEF FinishCommit, Leaves
  <2> QED
    BY <2>1, RemoveTransactionInv
<1>14. ASSUME NEW t \in Txn, EndRollback(t) PROVE CInv' /\ IdleClean'
  <2>1. Leaves(t, FALSE) /\ RemoveTransaction(t, FALSE)
    BY <1>14 DEF EndRollback, Leaves
  <2> QED
    BY <2>1, RemoveTransactionInv
<1>15. CASE UNCHANGED vars
  <2>1. /\ phase' = phase /\ start_time' = start_time /\ transaction_id' = transaction_id
        /\ commit_id' = commit_id /\ current_start_timestamp' = current_start_timestamp
        /\ current_transaction_id' = current_transaction_id /\ transaction_lock' = transaction_lock
        /\ map' = map /\ undo' = undo /\ at' = at /\ todo' = todo /\ recently_committed' = recently_committed
    BY <1>15 DEF vars
  <2>2. Ended' = Ended /\ Running' = Running /\ Before' = Before
    BY <2>1 DEF Ended, Running, Before
  <2>3. PendingIds(undo)' = PendingIds(undo)
    BY <2>1 DEF PendingIds, UndoUpTo
  <2>4. Stamps' = Stamps
    BY <2>1 DEF Stamps, StampOf
  <2>5. Types' /\ Locked'
    BY <2>1 DEF CInv, Types, Locked
  <2>6. Clocks' /\ Recent' /\ IdleClean'
    BY <2>1, <2>2 DEF CInv, Clocks, Recent, IdleClean
  <2>7. MapWoven'
    BY <2>1, <2>2, <2>3, <2>4 DEF CInv, MapWoven
  <2> QED
    BY <2>5, <2>6, <2>7 DEF CInv
<1>16. CASE Next
  BY <1>1, <1>3, <1>4, <1>5, <1>8, <1>9, <1>10, <1>11, <1>12, <1>13, <1>14, <1>16 DEF Next
<1> QED
  BY <1>15, <1>16

\* The invariant gives the types, ...
LEMMA CInvTypes == CInv => TypeOK
<1> SUFFICES ASSUME CInv PROVE TypeOK
  OBVIOUS
<1>1. map \in [Key -> Chains] /\ phase \in [Txn -> {"idle", "active", "invalid", "committing", "rolling_back", "ended"}]
  BY DEF CInv, Types
<1>2. ASSUME NEW key \in Key, NEW i \in DOMAIN map[key], NEW j \in DOMAIN map[key], map[key][i].id = map[key][j].id
      PROVE  i = j
  <2>1. ChainOK(map[key], key, undo, PendingIds(undo), Before, Ended, Stamps)
    BY DEF CInv, MapWoven, Woven
  <2>2. DOMAIN map[key] = 1..Len(map[key])
    BY <1>1, ChainElements
  <2> QED
    BY <1>2, <2>1, <2>2 DEF ChainOK
<1> QED
  BY <1>1, <1>2 DEF TypeOK, CInv, Locked

\* ... what the undo buffers point to, ...
LEMMA CInvPointers == CInv => UndoPointersValid
<1> SUFFICES ASSUME CInv, NEW t \in Txn, NEW n \in DOMAIN Left(t)
             PROVE  LET e == Left(t)[n] IN
                    \E i \in DOMAIN map[e.key] : /\ i > 1 /\ map[e.key][i].id = e.child
                                                 /\ map[e.key][i - 1].id = <<t, n>>
  BY Zenon DEF UndoPointersValid
<1>1. undo[t] \in Buffers /\ Len(undo[t]) \in Nat /\ map \in [Key -> Chains] /\ DOMAIN undo[t] = 1..Len(undo[t])
  BY LenProperties DEF CInv, Types, Buffers
<1>2. n \in 1..UndoUpTo(undo, t) /\ Left(t)[n] = undo[t][n] /\ n \in Nat
  <2>1. CASE phase[t] = "rolling_back"
    <3>1. at \in 0..Len(undo[t])
      BY <2>1, CatalogConstants DEF CInv, Locked
    <3>2. Left(t) = SubSeq(undo[t], 1, at)
      BY <2>1 DEF Left
    <3>3. Left(t) \in Buffers /\ Len(Left(t)) = at /\ \A i \in 1..at : Left(t)[i] = undo[t][i]
      <4> DEFINE R == [key : Key, child : Ids]
                 b == undo[t]
      <4>1. b \in Seq(R) /\ at \in 0..Len(b) /\ Left(t) = SubSeq(b, 1, at)
        BY <1>1, <3>1, <3>2 DEF Buffers
      <4> HIDE DEF R, b
      <4>2. Left(t) \in Seq(R) /\ Len(Left(t)) = at /\ \A i \in 1..at : Left(t)[i] = b[i]
        BY <4>1, PartOfSeq
      <4> QED
        BY <4>2 DEF R, b, Buffers
    <3>4. DOMAIN Left(t) = 1..at
      BY <3>3, LenProperties DEF Buffers
    <3> QED
      BY <2>1, <3>1, <3>3, <3>4 DEF UndoUpTo
  <2>2. CASE phase[t] # "rolling_back"
    BY <1>1, <2>2 DEF Left, UndoUpTo
  <2> QED
    BY <2>1, <2>2
<1> DEFINE p == <<t, n>>
           P == PendingIds(undo)
           e == Left(t)[n]
<1>3. p \in P /\ UndoEntry(undo, p) = e
  BY <1>2 DEF PendingIds, UndoEntry
<1> HIDE DEF p, P, e
<1>4. Woven(map, undo, P, Before, Ended, Stamps)
  BY DEF CInv, MapWoven, P
<1>5. /\ e.key \in Key /\ map[e.key] \in Chains
      /\ \E i \in 1..Len(map[e.key]) - 1 : map[e.key][i].id = p /\ map[e.key][i + 1].id = e.child
  BY <1>3, <1>4, PointerPosition
<1>6. PICK i \in 1..Len(map[e.key]) - 1 : map[e.key][i].id = p /\ map[e.key][i + 1].id = e.child
  BY <1>5
<1>7. DOMAIN map[e.key] = 1..Len(map[e.key]) /\ Len(map[e.key]) \in Nat
  BY <1>5, ChainElements
<1>8. i + 1 \in 1..Len(map[e.key]) /\ i + 1 > 1 /\ (i + 1) - 1 = i
  BY <1>7
<1>9. \E j \in DOMAIN map[e.key] : j > 1 /\ map[e.key][j].id = e.child /\ map[e.key][j - 1].id = p
  BY <1>6, <1>7, <1>8
<1> QED
  BY <1>9 DEF e, p

\* ... and that chains are short when nothing is pending.
LEMMA CInvIdle == CInv /\ IdleClean => NoVersionsWhenIdle
<1> SUFFICES ASSUME CInv, IdleClean, Running = {}, NEW key \in Key
             PROVE  Len(map[key]) <= 1 /\ \A i \in DOMAIN map[key] : map[key][i].type # "INVALID"
  BY DEF NoVersionsWhenIdle
<1>1. recently_committed = <<>>
  BY DEF IdleClean
<1>2. \A t \in Txn : phase[t] = "idle" \/ phase[t] = "ended"
  BY DEF Running
<1>3. \A t \in Txn : undo[t] = <<>>
  <2>1. DOMAIN recently_committed = {}
    BY <1>1
  <2> QED
    BY <1>2, <2>1 DEF CInv, Recent, Ended
<1>4. PendingIds(undo) = {}
  <2>1. \A t \in Txn : UndoUpTo(undo, t) = 0
    BY <1>2, <1>3 DEF UndoUpTo
  <2>2. 1..0 = {}
    OBVIOUS
  <2> QED
    BY <2>1, <2>2 DEF PendingIds
<1>5. ChainOK(map[key], key, undo, PendingIds(undo), Before, Ended, Stamps) /\ map[key] \in Chains
  BY DEF CInv, MapWoven, Woven
<1>6. Len(map[key]) \in Nat /\ DOMAIN map[key] = 1..Len(map[key]) /\ (map[key] = <<>> <=> Len(map[key]) = 0)
  BY <1>5, ChainElements
<1>7. 1..Len(map[key]) - 1 = {}
  BY <1>4, <1>5 DEF ChainOK, Covering
<1>8. Len(map[key]) <= 1
  <2>1. \A n \in Nat : 1..n - 1 = {} => n <= 1
    <3> SUFFICES ASSUME NEW n \in Nat, ~ (n <= 1) PROVE 1..n - 1 # {}
      OBVIOUS
    <3>1. 1 \in 1..n - 1
      OBVIOUS
    <3> QED
      BY <3>1
  <2> QED
    BY <1>6, <1>7, <2>1
<1>9. \A i \in DOMAIN map[key] : map[key][i].type # "INVALID"
  <2> SUFFICES ASSUME NEW i \in DOMAIN map[key], map[key][i].type = "INVALID" PROVE FALSE
    OBVIOUS
  <2>1. i = Len(map[key]) /\ Len(map[key]) # 0
    BY <1>6, <1>8
  <2>2. Len(map[key]) > 1
    BY <1>5, <1>6, <2>1 DEF ChainOK, Bottom
  <2> QED
    BY <1>6, <1>8, <2>2
<1> QED
  BY <1>8, <1>9

\* The invariant holds throughout.
LEMMA CatalogInvariant == Spec => [](CInv /\ IdleClean)
<1>1. Init => CInv /\ IdleClean
  BY InitCInv
<1>2. CInv /\ IdleClean /\ [Next]_vars => (CInv /\ IdleClean)'
  BY StepCInv
<1> QED
  BY <1>1, <1>2, PTL DEF Spec

\* One transaction at a time commits or rolls back, and the address of an entry
\* occurs once in its chain.
THEOREM CatalogTypesCorrect == Spec => []TypeOK
  BY CatalogInvariant, CInvTypes, PTL

\* Whatever commits, rolls back or is cleaned up in between, the entry that an undo
\* buffer points to is in its chain, right below the one that its transaction put
\* there: commit, rollback and cleanup never follow a pointer to a freed entry.
THEOREM UndoPointersAreValid == Spec => []UndoPointersValid
  BY CatalogInvariant, CInvPointers, PTL

\* The last transaction to end leaves one entry of each name at most, and no dummy
\* node: nothing leaks from the version chains.
THEOREM NothingIsLeft == Spec => []NoVersionsWhenIdle
  BY CatalogInvariant, CInvIdle, PTL
-----------------------------------------------------------------------------
(* What the transactions see.  A running transaction sees the entries of   *)
(* its own and those of the transactions that have committed before it     *)
(* began; who begins now sees those of all that have ended.                *)

Seers(t) == {t} \cup {x \in Txn : <<x, t>> \in Before}

\* What Reads makes of what is seen.
Outcome(v) == IF v = <<>> THEN NoEntry ELSE v[1]

\* All transactions that run, and whoever begins now, began at one of these times.
Horizon == {start_time[t] : t \in Running} \cup {current_start_timestamp}

\* There are no more ids than timestamps; the last entry of a chain is older than any
\* transaction; who has not begun has no statement.
SInv ==
  /\ current_transaction_id + 2 <= TRANSACTION_ID_START + current_start_timestamp
  /\ Beyond(Horizon, 0)
  /\ \A key \in Key : Low(map[key], Horizon)
  /\ \A t \in Txn : phase[t] = "idle" => todo[t] = <<>>

\* The timestamp of the entries of x, for who does not see the commit in progress.
TrueStamp(x) == IF phase[x] = "ended" THEN commit_id[x] ELSE transaction_id[x]

\* Who has entries that await something has begun.
LEMMA Owners ==
  ASSUME CInv, NEW p \in PendingIds(undo)
  PROVE  p[1] \in Ended \cup Running /\ p[1] \in Txn /\ p \in Txn \X Nat /\ Stamps[p] = StampOf(p)
<1>1. p \in Txn \X Nat /\ p[1] \in Txn /\ p[2] \in 1..UndoUpTo(undo, p[1])
  BY DEF PendingIds
<1>2. phase[p[1]] # "idle"
  <2> SUFFICES ASSUME phase[p[1]] = "idle" PROVE FALSE
    OBVIOUS
  <2>1. undo[p[1]] = <<>>
    BY <1>1 DEF CInv, Recent
  <2>2. UndoUpTo(undo, p[1]) = 0
    BY <2>1 DEF UndoUpTo
  <2>3. 1..0 = {}
    OBVIOUS
  <2> QED
    BY <1>1, <2>2, <2>3
<1> QED
  BY <1>1, <1>2 DEF Ended, Running, Stamps

\* The clocks of transactions that have begun.
LEMMA ClockFacts ==
  ASSUME CInv, NEW x \in Txn
  PROVE  /\ start_time[x] \in Nat /\ commit_id[x] \in Nat /\ transaction_id[x] \in Nat
         /\ start_time[x] < TRANSACTION_ID_START /\ commit_id[x] < TRANSACTION_ID_START
         /\ start_time[x] < current_start_timestamp /\ commit_id[x] < current_start_timestamp
         /\ x \in Running => TRANSACTION_ID_START <= transaction_id[x] /\ transaction_id[x] < current_transaction_id
         /\ TRANSACTION_ID_START \in Nat /\ current_start_timestamp \in Nat /\ current_transaction_id \in Nat
         /\ current_start_timestamp <= TRANSACTION_ID_START
<1>1. /\ start_time[x] \in Nat /\ commit_id[x] \in Nat /\ transaction_id[x] \in Nat
      /\ current_start_timestamp \in Nat /\ current_transaction_id \in Nat
  BY DEF CInv, Types
<1>2. /\ start_time[x] < current_start_timestamp /\ commit_id[x] < current_start_timestamp
      /\ current_start_timestamp <= TRANSACTION_ID_START
  BY DEF CInv, Clocks
<1>3. x \in Running => TRANSACTION_ID_START <= transaction_id[x] /\ transaction_id[x] < current_transaction_id
  BY DEF CInv, Clocks
<1>4. TRANSACTION_ID_START \in Nat
  BY CatalogConstants
<1> QED
  BY <1>1, <1>2, <1>3, <1>4

\* The commit in progress counts as its transaction.
LEMMA PendStamp ==
  ASSUME CInv, NEW p \in PendingIds(undo)
  PROVE  PendingTimestamp(Stamps[p]) = TrueStamp(p[1])
<1> DEFINE x == p[1]
           l == transaction_lock
<1>1. x \in Ended \cup Running /\ x \in Txn /\ Stamps[p] = StampOf(p)
  BY Owners
<1>2. CASE ~ Committing
  <2>1. phase[x] # "committing"
    <3> SUFFICES ASSUME phase[x] = "committing" PROVE FALSE
      OBVIOUS
    <3>1. transaction_lock = x
      BY <1>1 DEF CInv, Locked
    <3>2. x # NoTxn
      BY <1>1, CatalogConstants
    <3> QED
      BY <1>2, <3>1, <3>2 DEF Committing
  <2> QED
    BY <1>1, <1>2, <2>1 DEF PendingTimestamp, StampOf, TrueStamp
<1>3. CASE Committing
  <2>1. l \in Txn /\ phase[l] = "committing"
    BY <1>3 DEF Committing, CInv, Locked
  <2>2. commit_id[l] < TRANSACTION_ID_START /\ commit_id[l] \in Nat /\ TRANSACTION_ID_START \in Nat
    BY <2>1, ClockFacts
  <2>3. CASE phase[x] = "ended"
    <3>1. x # l /\ commit_id[x] < commit_id[l]
      BY <1>1, <2>1, <2>3 DEF CInv, Clocks
    <3>2. commit_id[x] # commit_id[l]
      BY <1>1, <2>2, <3>1, ClockFacts
    <3> QED
      BY <1>1, <2>3, <3>2 DEF PendingTimestamp, StampOf, TrueStamp
  <2>4. CASE phase[x] # "ended"
    <3>1. x \in Running
      BY <1>1, <2>4 DEF Ended
    <3>2. transaction_id[x] \in Nat /\ TRANSACTION_ID_START <= transaction_id[x]
      BY <1>1, <3>1, ClockFacts
    <3>3. transaction_id[x] # commit_id[l]
      BY <2>2, <3>2
    <3>4. phase[x] = "committing" => x = l
      BY <1>1, <2>1 DEF CInv, Locked
    <3>5. StampOf(p) = transaction_id[x] \/ (StampOf(p) = commit_id[x] /\ x = l)
      BY <2>4, <3>4 DEF StampOf
    <3>6. CASE StampOf(p) = transaction_id[x]
      BY <1>1, <2>4, <3>3, <3>6 DEF PendingTimestamp, TrueStamp
    <3>7. CASE StampOf(p) = commit_id[x] /\ x = l
      BY <1>1, <1>3, <2>4, <3>7 DEF PendingTimestamp, TrueStamp
    <3> QED
      BY <3>5, <3>6, <3>7
  <2> QED
    BY <2>3, <2>4
<1> QED
  BY <1>2, <1>3

\* A running transaction can use its own entries and those committed before it began.
LEMMA UseTrue ==
  ASSUME CInv, NEW t \in Running, NEW x \in Ended \cup Running
  PROVE  UseTimestamp(Data(t), TrueStamp(x)) <=> x \in Seers(t)
<1>1. t \in Txn /\ x \in Txn /\ phase[t] # "ended"
  BY DEF Running, Ended
<1>2. Data(t).start_time = start_time[t] /\ Data(t).transaction_id = transaction_id[t]
  BY DEF Data
<1>3. CASE phase[x] = "ended"
  <2>1. commit_id[x] # transaction_id[t]
    BY <1>1, ClockFacts
  <2>2. x \in Seers(t) <=> commit_id[x] < start_time[t]
    BY <1>1, <1>3 DEF Seers, Before
  <2> QED
    BY <1>2, <1>3, <2>1, <2>2 DEF UseTimestamp, TrueStamp
<1>4. CASE phase[x] # "ended"
  <2>1. x \in Running
    BY <1>4 DEF Ended
  <2>2. ~ (transaction_id[x] < start_time[t])
    BY <1>1, <2>1, ClockFacts
  <2>3. transaction_id[x] = transaction_id[t] <=> x = t
    BY <2>1 DEF CInv, Clocks
  <2>4. x \in Seers(t) <=> x = t
    BY <1>1, <1>4 DEF Seers, Before
  <2> QED
    BY <1>2, <1>4, <2>2, <2>3, <2>4 DEF UseTimestamp, TrueStamp
<1> QED
  BY <1>3, <1>4

\* Whoever begins now can use the entries of those that have ended.
LEMMA UseNew ==
  ASSUME CInv, SInv, NEW x \in Ended \cup Running
  PROVE  UseTimestamp(NewTransaction, TrueStamp(x)) <=> x \in Ended
<1>1. x \in Txn
  BY DEF Running, Ended
<1>2. /\ NewTransaction.start_time = current_start_timestamp
      /\ NewTransaction.transaction_id = 2 * TRANSACTION_ID_START
  BY DEF NewTransaction
<1>3. CASE phase[x] = "ended"
  <2>1. commit_id[x] < current_start_timestamp
    BY <1>1, ClockFacts
  <2>2. x \in Ended
    BY <1>1, <1>3 DEF Ended
  <2> QED
    BY <1>2, <1>3, <2>1, <2>2 DEF UseTimestamp, TrueStamp
<1>4. CASE phase[x] # "ended"
  <2>1. x \in Running /\ x \notin Ended
    BY <1>4 DEF Ended
  <2>2. ~ (transaction_id[x] < current_start_timestamp)
    BY <1>1, <2>1, ClockFacts
  <2>3. transaction_id[x] # 2 * TRANSACTION_ID_START
    <3>1. \A a, b, c, d \in Nat : a < b /\ b + 2 <= c + d /\ d <= c => a # 2 * c
      OBVIOUS
    <3>2. current_transaction_id + 2 <= TRANSACTION_ID_START + current_start_timestamp
      BY DEF SInv
    <3> QED
      BY <1>1, <2>1, <3>1, <3>2, ClockFacts
  <2> QED
    BY <1>2, <1>4, <2>1, <2>2, <2>3 DEF UseTimestamp, TrueStamp
<1> QED
  BY <1>3, <1>4

\* In the middle of a statement a transaction looks at the timestamps as they are.
LEMMA UseActive ==
  ASSUME CInv, NEW t \in Txn, phase[t] = "active", NEW p \in PendingIds(undo)
  PROVE  UseTimestamp(Data(t), Stamps[p]) <=> p[1] \in Seers(t)
<1> DEFINE x == p[1]
<1>1. x \in Ended \cup Running /\ x \in Txn /\ Stamps[p] = StampOf(p) /\ t \in Running
  BY Owners, ActiveFacts
<1>2. CASE StampOf(p) = TrueStamp(x)
  BY <1>1, <1>2, UseTrue
<1>3. CASE StampOf(p) # TrueStamp(x)
  <2>1. phase[x] = "committing" /\ StampOf(p) = commit_id[x]
    BY <1>3 DEF StampOf, TrueStamp
  <2>2. start_time[t] < commit_id[x]
    BY <1>1, <2>1 DEF CInv, Clocks
  <2>3. ~ (commit_id[x] < start_time[t]) /\ commit_id[x] # transaction_id[t]
    BY <1>1, <2>2, ClockFacts
  <2>4. x \notin Seers(t)
    BY <2>1 DEF Seers, Before
  <2>5. Data(t).start_time = start_time[t] /\ Data(t).transaction_id = transaction_id[t]
    BY DEF Data
  <2> QED
    BY <1>1, <2>1, <2>3, <2>4, <2>5 DEF UseTimestamp
<1> QED
  BY <1>2, <1>3

\* The entry that is read is the first one whose transaction is seen.
LEMMA ReadChain ==
  ASSUME NEW c \in Chains, c # <<>>, NEW txn, NEW W,
         \A i \in 1..Len(c) - 1 : UseTimestamp(txn, c[i].timestamp) <=> c[i].id[1] \in W
  PROVE  Value(GetEntryForTransaction(c, txn)) = SeenIn(c, W)
<1>1. Len(c) \in Nat
  BY ChainElements
<1>2. PICK i \in 1..Len(c) :
            /\ GetEntryForTransaction(c, txn) = c[i]
            /\ i = Len(c) \/ UseTimestamp(txn, c[i].timestamp)
            /\ \A j \in 1..i - 1 : ~ UseTimestamp(txn, c[j].timestamp)
  BY SeenEntry
<1>3. \A j \in 1..i - 1 : j \in 1..Len(c) - 1
  BY <1>1
<1>4. i = Len(c) \/ i \in 1..Len(c) - 1
  BY <1>1
<1>5. IsFirst(c, W, i)
  BY <1>2, <1>3, <1>4 DEF IsFirst, Sees
<1>6. SeenIn(c, W) = Value(c[i])
  BY <1>5, SeenInIs
<1> QED
  BY <1>2, <1>6

\* The entries that cover another one and whose they are.
LEMMA Covered ==
  ASSUME CInv, NEW key \in Key, NEW i \in 1..Len(map[key]) - 1
  PROVE  /\ map[key][i].id \in PendingIds(undo) /\ map[key][i].timestamp = Stamps[map[key][i].id]
         /\ UndoEntry(undo, map[key][i].id) = [key |-> key, child |-> map[key][i + 1].id]
         /\ map[key][i].id[1] \in Ended \cup Running
         /\ map[key][i].id \in Txn \X Nat
  BY Owners DEF CInv, MapWoven, Woven, ChainOK, Covering

\* The chains for who does not see the commit in progress.
LEMMA PendingChain ==
  ASSUME CInv, NEW key \in Key
  PROVE  /\ map[key] \in Chains /\ Pending(map[key]) \in Chains
         /\ Len(Pending(map[key])) = Len(map[key])
         /\ \A i \in 1..Len(map[key]) : /\ Pending(map[key])[i].id = map[key][i].id
                                        /\ Pending(map[key])[i].type = map[key][i].type
                                        /\ Pending(map[key])[i].timestamp = PendingTimestamp(map[key][i].timestamp)
         /\ \A i \in 1..Len(map[key]) - 1 : Pending(map[key])[i].timestamp = TrueStamp(map[key][i].id[1])
<1> DEFINE c == map[key]
           d == Pending(c)
<1>1. c \in Chains /\ Len(c) \in Nat /\ DOMAIN c = 1..Len(c) /\ \A i \in 1..Len(c) : c[i] \in Entries
  BY ChainElements DEF CInv, Types
<1>2. \A i \in 1..Len(c) - 1 : PendingTimestamp(c[i].timestamp) = TrueStamp(c[i].id[1])
  BY Covered, PendStamp
<1> HIDE DEF c
<1>3. \A i \in 1..Len(c) - 1 : i \in 1..Len(c)
  BY <1>1
<1>4. CASE ~ Committing
  <2>1. d = c
    BY <1>4 DEF Pending
  <2>2. \A n : PendingTimestamp(n) = n
    BY <1>4 DEF PendingTimestamp
  <2> QED
    BY <1>1, <1>2, <1>3, <2>1, <2>2 DEF c
<1>5. CASE Committing
  <2>1. d = [i \in 1..Len(c) |-> [c[i] EXCEPT !.timestamp = PendingTimestamp(@)]]
    BY <1>1, <1>5 DEF Pending
  <2>2. \A n \in Nat : PendingTimestamp(n) \in Nat
    <3>1. transaction_lock \in Txn
      BY <1>5 DEF Committing, CInv, Locked
    <3> QED
      BY <3>1 DEF PendingTimestamp, CInv, Types
  <2>3. \A i \in 1..Len(c) : /\ d[i] \in Entries /\ d[i].id = c[i].id /\ d[i].type = c[i].type
                             /\ d[i].timestamp = PendingTimestamp(c[i].timestamp)
    <3> SUFFICES ASSUME NEW i \in 1..Len(c)
                 PROVE  /\ d[i] \in Entries /\ d[i].id = c[i].id /\ d[i].type = c[i].type
                        /\ d[i].timestamp = PendingTimestamp(c[i].timestamp)
      OBVIOUS
    <3>1. d[i] = [c[i] EXCEPT !.timestamp = PendingTimestamp(@)]
      BY <2>1
    <3>2. c[i] \in Entries
      BY <1>1
    <3>3. PendingTimestamp(c[i].timestamp) \in Nat
      BY <2>2, <3>2 DEF Entries
    <3> QED
      BY <3>1, <3>2, <3>3 DEF Entries
  <2>4. d \in [1..Len(c) -> Entries]
    <3>1. \A i \in 1..Len(c) : [c[i] EXCEPT !.timestamp = PendingTimestamp(@)] \in Entries
      BY <2>1, <2>3
    <3> QED
      BY <2>1, <3>1
  <2>5. d \in Seq(Entries) /\ Len(d) = Len(c)
    <3>1. d \in Seq(Entries)
      BY <1>1, <2>4, SeqDef
    <3>2. DOMAIN d = 1..Len(c)
      BY <2>4
    <3> QED
      BY <1>1, <3>1, <3>2, LenProperties
  <2> QED
    BY <1>1, <1>2, <1>3, <2>3, <2>5 DEF c, Chains
<1> QED
  BY <1>4, <1>5

\* What a transaction reads that can use the timestamps of W.
LEMMA ReadsAre ==
  ASSUME CInv, NEW key \in Key, NEW txn, NEW W,
         \A x \in Ended \cup Running : UseTimestamp(txn, TrueStamp(x)) <=> x \in W
  PROVE  Reads(txn)[key] = Outcome(SeenIn(map[key], W))
<1> DEFINE c == map[key]
           d == Pending(c)
           e == GetEntryForTransaction(d, txn)
<1>1. /\ c \in Chains /\ d \in Chains /\ Len(d) = Len(c)
      /\ \A i \in 1..Len(c) : d[i].id = c[i].id /\ d[i].type = c[i].type
      /\ \A i \in 1..Len(c) - 1 : d[i].timestamp = TrueStamp(c[i].id[1])
  BY PendingChain
<1>2. \A i \in 1..Len(c) - 1 : c[i].id[1] \in Ended \cup Running
  BY Covered
<1>3. Reads(txn)[key] = IF d = <<>> \/ Deleted(e) THEN NoEntry ELSE e.id
  BY DEF Reads
<1>4. (d = <<>> <=> Len(c) = 0) /\ (c = <<>> <=> Len(c) = 0) /\ Len(c) \in Nat
  BY <1>1, ChainElements
<1> HIDE DEF c, d
<1>5. CASE d = <<>>
  BY <1>3, <1>4, <1>5 DEF SeenIn, Outcome, c
<1>6. CASE d # <<>>
  <2>1. \A i \in 1..Len(c) - 1 : i \in 1..Len(c)
    BY <1>4
  <2>2. \A i \in 1..Len(d) - 1 : UseTimestamp(txn, d[i].timestamp) <=> d[i].id[1] \in W
    BY <1>1, <1>2, <2>1
  <2>3. Value(e) = SeenIn(d, W)
    BY <1>1, <1>6, <2>2, ReadChain
  <2>4. SeenIn(d, W) = SeenIn(c, W)
    BY <1>1, SeenAlike
  <2>5. Outcome(Value(e)) = IF Deleted(e) THEN NoEntry ELSE e.id
    BY DEF Outcome, Value
  <2> QED
    BY <1>3, <1>6, <2>3, <2>4, <2>5 DEF c
<1> QED
  BY <1>5, <1>6

\* What transactions read that count a commit in progress as not made, ...
LEMMA ReadsIs ==
  ASSUME CInv, NEW t \in Running
  PROVE  Reads(Data(t)) = [key \in Key |-> Outcome(SeenIn(map[key], Seers(t)))]
<1>1. \A key \in Key : Reads(Data(t))[key] = Outcome(SeenIn(map[key], Seers(t)))
  BY UseTrue, ReadsAre
<1> HIDE DEF Outcome
<1> QED
  BY <1>1 DEF Reads

\* ... what is read by whoever begins now, ...
LEMMA StoreIs ==
  ASSUME CInv, SInv
  PROVE  Reads(NewTransaction) = [key \in Key |-> Outcome(SeenIn(map[key], Ended))]
<1>1. \A key \in Key : Reads(NewTransaction)[key] = Outcome(SeenIn(map[key], Ended))
  BY UseNew, ReadsAre
<1> HIDE DEF Outcome
<1> QED
  BY <1>1 DEF Reads

\* ... and what is found in the middle of a statement.
LEMMA FindsIs ==
  ASSUME CInv, NEW t \in Txn, phase[t] = "active", NEW key \in Key
  PROVE  Finds(t, key) <=> SeenIn(map[key], Seers(t)) # <<>>
<1> DEFINE c == map[key]
<1>1. c \in Chains
  BY DEF CInv, Types
<1>2. CASE c = <<>>
  BY <1>2 DEF Finds, Found, SeenIn
<1>3. CASE c # <<>>
  <2>1. \A i \in 1..Len(c) - 1 : UseTimestamp(Data(t), c[i].timestamp) <=> c[i].id[1] \in Seers(t)
    BY Covered, UseActive
  <2> HIDE DEF c
  <2>2. Value(GetEntryForTransaction(c, Data(t))) = SeenIn(c, Seers(t))
    BY <1>1, <1>3, <2>1, ReadChain
  <2>3. \A e : Value(e) # <<>> <=> ~ Deleted(e)
    BY DEF Value
  <2> QED
    BY <1>3, <2>2, <2>3 DEF Finds, Found, c
<1> QED
  BY <1>2, <1>3

\* The keys of commits that t does not see.
Unseen(t) == {key \in Key : \E x \in Ended : start_time[t] < commit_id[x] /\ key \in KeysIn(undo[x])}

\* The entry that an undo entry stands for.
LEMMA KeyEntry ==
  ASSUME CInv, NEW x \in Txn, phase[x] # "rolling_back", NEW key \in KeysIn(undo[x])
  PROVE  /\ key \in Key
         /\ \E i \in 1..Len(map[key]) - 1 : map[key][i].id[1] = x
<1>1. undo[x] \in Buffers /\ Len(undo[x]) \in Nat /\ DOMAIN undo[x] = 1..Len(undo[x])
  BY LenProperties DEF CInv, Types, Buffers
<1>2. PICK n \in 1..Len(undo[x]) : undo[x][n].key = key
  BY <1>1 DEF KeysIn
<1> DEFINE p == <<x, n>>
<1>3. p \in PendingIds(undo) /\ UndoEntry(undo, p).key = key
  BY <1>1, <1>2 DEF PendingIds, UndoUpTo, UndoEntry
<1>4. PointerOK(map, undo, p)
  BY <1>3 DEF CInv, MapWoven, Woven
<1>5. key \in Key
  <2>1. undo[x][n] \in [key : Key, child : Ids]
    BY <1>1, <1>2, ElementOfSeq DEF Buffers
  <2> QED
    BY <1>2, <2>1
<1> QED
  BY <1>3, <1>4, <1>5 DEF PointerOK

\* The other way round.
LEMMA EntryKey ==
  ASSUME CInv, NEW key \in Key, NEW i \in 1..Len(map[key]) - 1,
         phase[map[key][i].id[1]] # "rolling_back"
  PROVE  key \in KeysIn(undo[map[key][i].id[1]])
<1> DEFINE p == map[key][i].id
           x == p[1]
<1>0. p \in PendingIds(undo) /\ p \in Txn \X Nat
      /\ UndoEntry(undo, p) = [key |-> key, child |-> map[key][i + 1].id]
  BY Covered
<1>1. p \in PendingIds(undo) /\ UndoEntry(undo, p).key = key /\ p \in Txn \X Nat
  BY <1>0
<1> HIDE DEF p
<1>2. x \in Txn /\ p[2] \in 1..Len(undo[x]) /\ undo[x][p[2]].key = key
  BY <1>1 DEF PendingIds, UndoUpTo, UndoEntry, p
<1>3. DOMAIN undo[x] = 1..Len(undo[x])
  BY <1>2, LenProperties DEF CInv, Types, Buffers
<1> QED
  BY <1>2, <1>3 DEF KeysIn, p

\* What a transaction misses is what others have committed since it began.
LEMMA MissesIs ==
  ASSUME CInv, SInv, NEW t \in Running
  PROVE  Misses(t) = Unseen(t)
<1>0. t \in Txn /\ TRANSACTION_ID_START \in Nat /\ start_time[t] \in Nat
  BY ClockFacts DEF Running
<1>1. ASSUME NEW key \in Misses(t) PROVE key \in Unseen(t)
  <2> DEFINE c == map[key]
             s(i) == PendingTimestamp(c[i].timestamp)
  <2>1. key \in Key
    BY DEF Misses
  <2>2. c \in Chains /\ DOMAIN c = 1..Len(c) /\ Len(c) \in Nat /\ \A i \in 1..Len(c) : c[i] \in Entries
    BY <2>1, ChainElements DEF CInv, Types
  <2>3. PICK i \in 1..Len(c) : start_time[t] < s(i) /\ s(i) < TRANSACTION_ID_START
    BY <2>2 DEF Misses
  <2>4. CASE i \in 1..Len(c) - 1
    <3> DEFINE x == c[i].id[1]
    <3>1. s(i) = TrueStamp(x) /\ x \in Ended \cup Running
      BY <2>1, <2>4, Covered, PendStamp
    <3>2. phase[x] = "ended"
      <4> SUFFICES ASSUME phase[x] # "ended" PROVE FALSE
        OBVIOUS
      <4>1. x \in Running /\ x \in Txn
        BY <3>1 DEF Ended, Running
      <4>2. TRANSACTION_ID_START <= transaction_id[x] /\ transaction_id[x] \in Nat
        BY <4>1, ClockFacts
      <4>3. s(i) = transaction_id[x]
        BY <3>1 DEF TrueStamp
      <4> QED
        BY <1>0, <2>3, <4>2, <4>3
    <3>3. s(i) = commit_id[x] /\ x \in Ended
      BY <3>1, <3>2 DEF TrueStamp, Ended, Running
    <3>4. key \in KeysIn(undo[x])
      BY <2>1, <2>4, <3>2, EntryKey
    <3> QED
      BY <2>1, <2>3, <3>3, <3>4 DEF Unseen
  <2>5. CASE i = Len(c)
    <3>1. c # <<>>
      BY <2>2, <2>5, ChainElements
    <3>2. c[i].timestamp < start_time[t] /\ c[i].timestamp \in Nat
      <4>1. Low(c, Horizon) /\ start_time[t] \in Horizon
        BY <2>1 DEF SInv, Horizon
      <4> QED
        BY <2>2, <2>5, <3>1, <4>1 DEF Low, Beyond, Entries
    <3>3. s(i) = c[i].timestamp
      <4> SUFFICES ASSUME Committing, c[i].timestamp = commit_id[transaction_lock] PROVE FALSE
        BY DEF PendingTimestamp
      <4>1. transaction_lock \in Txn /\ phase[transaction_lock] = "committing"
        BY DEF Committing, CInv, Locked
      <4>2. start_time[t] < commit_id[transaction_lock]
        BY <1>0, <4>1 DEF CInv, Clocks
      <4> QED
        BY <1>0, <3>2, <4>2
    <3> QED
      BY <1>0, <2>3, <3>2, <3>3
  <2>6. i \in 1..Len(c) - 1 \/ i = Len(c)
    BY <2>2
  <2> QED
    BY <2>4, <2>5, <2>6
<1>2. ASSUME NEW key \in Unseen(t) PROVE key \in Misses(t)
  <2>1. PICK x \in Ended : start_time[t] < commit_id[x] /\ key \in KeysIn(undo[x])
    BY DEF Unseen
  <2>2. x \in Txn /\ phase[x] = "ended"
    BY DEF Ended
  <2>3. key \in Key /\ \E i \in 1..Len(map[key]) - 1 : map[key][i].id[1] = x
    BY <2>1, <2>2, KeyEntry
  <2>4. PICK i \in 1..Len(map[key]) - 1 : map[key][i].id[1] = x
    BY <2>3
  <2>5. PendingTimestamp(map[key][i].timestamp) = commit_id[x]
    BY <2>2, <2>3, <2>4, Covered, PendStamp DEF TrueStamp
  <2>6. commit_id[x] < TRANSACTION_ID_START
    BY <2>2, ClockFacts
  <2>7. i \in DOMAIN map[key]
    <3>1. map[key] \in Chains
      BY <2>3 DEF CInv, Types
    <3>2. DOMAIN map[key] = 1..Len(map[key]) /\ Len(map[key]) \in Nat
      BY <3>1, ChainElements
    <3> QED
      BY <3>2
  <2> QED
    BY <2>1, <2>3, <2>5, <2>6, <2>7 DEF Misses
<1>3. Misses(t) \subseteq Unseen(t)
  BY <1>1
<1>4. Unseen(t) \subseteq Misses(t)
  BY <1>2
<1> QED
  BY <1>3, <1>4
-----------------------------------------------------------------------------
(* The steps, as those see them who only look at what they read.           *)

\* t goes on with its commit or its rollback.
Moved(t) ==
  /\ phase \in [Txn -> {"idle", "active", "invalid", "committing", "rolling_back", "ended"}]
  /\ phase' = [phase EXCEPT ![t] = phase'[t]]
  /\ <<phase[t], phase'[t]>> \in {<<"active", "committing">>, <<"committing", "committing">>,
                                  <<"committing", "rolling_back">>, <<"active", "rolling_back">>,
                                  <<"invalid", "rolling_back">>, <<"rolling_back", "rolling_back">>}
  /\ commit_id \in [Txn -> Nat] /\ commit_id' = [commit_id EXCEPT ![t] = commit_id'[t]]
  /\ start_time' = start_time /\ transaction_id' = transaction_id /\ undo' = undo /\ todo' = todo
  /\ current_transaction_id' = current_transaction_id
  /\ current_start_timestamp' \in {current_start_timestamp, current_start_timestamp + 1}
  /\ \/ \A key \in Key : Restamped(map'[key], map[key])
     \/ phase[t] = "rolling_back" /\ \A W, L : t \notin W => Keeps(map', map, W, L)

\* What every step is.
LEMMA StepKinds ==
  ASSUME CInv, Next
  PROVE  \E t \in Txn :
            \/ StartTransaction(t)
            \/ Operated(t)
            \/ Moved(t)
            \/ \E committed, r, n, gone : Leaves(t, committed) /\ Removes(t, committed, r, n, gone)
<1>0. /\ phase \in [Txn -> {"idle", "active", "invalid", "committing", "rolling_back", "ended"}]
      /\ commit_id \in [Txn -> Nat]
  BY DEF CInv, Types
<1>a. map' = map => \A key \in Key : Restamped(map'[key], map[key])
  BY DEF Restamped
<1>1. ASSUME NEW t \in Txn, NEW c \in Creates, Create(t, c.name, c.requires, c.replace) PROVE Operated(t)
  BY <1>1, CreateInv
<1>2. ASSUME NEW t \in Txn, NEW d \in Drops, Drop(t, d.name, d.cascade) PROVE Operated(t)
  BY <1>2, DropInv
<1>3. ASSUME NEW t \in Txn, NEW a \in Alters, Alter(t, a.name, a.new, a.additive) PROVE Operated(t)
  BY <1>3, AlterInv
<1>4. ASSUME NEW t \in Txn, \/ CreateEntry(t) \/ DropEntry(t) \/ Unlink(t) \/ CreateDependency(t)
                            \/ DropDependencies(t) \/ AlterEntry(t) \/ AlterObject(t)
      PROVE  Operated(t)
  BY <1>4, CreateEntryInv, DropEntryInv, UnlinkInv, CreateDependencyInv, DropDependenciesInv,
     AlterEntryInv, AlterObjectInv
<1>5. ASSUME NEW t \in Txn, BeginCommit(t) PROVE Moved(t)
  <2>1. map' = map
    BY <1>5 DEF BeginCommit
  <2> QED
    BY <1>0, <1>5, <1>a, <2>1 DEF BeginCommit, Moved
<1>6. ASSUME NEW t \in Txn, CommitEntry(t) PROVE Moved(t)
  <2>1. \A key \in Key : Restamped(map'[key], map[key])
    BY <1>6, CommitEntryInv
  <2> QED
    BY <1>0, <1>6, <2>1 DEF CommitEntry, Moved, clocks
<1>7. ASSUME NEW t \in Txn, CommitFails(t) PROVE Moved(t)
  <2>1. \A key \in Key : Restamped(map'[key], map[key])
    BY <1>7, CommitFailsInv
  <2> QED
    BY <1>0, <1>7, <2>1 DEF CommitFails, Moved
<1>8. ASSUME NEW t \in Txn, RollbackTransaction(t) PROVE Moved(t)
  <2>1. map' = map
    BY <1>8 DEF RollbackTransaction
  <2> QED
    BY <1>0, <1>8, <1>a, <2>1 DEF RollbackTransaction, Moved, clocks
<1>9. ASSUME NEW t \in Txn, RollbackEntry(t) PROVE Moved(t)
  <2>1. \A W, L : t \notin W => Keeps(map', map, W, L)
    BY <1>9, RollbackEntryInv
  <2> QED
    BY <1>0, <1>9, <2>1 DEF RollbackEntry, Moved, clocks
<1>10. ASSUME NEW t \in Txn, FinishCommit(t)
       PROVE  \E committed, r, n, gone : Leaves(t, committed) /\ Removes(t, committed, r, n, gone)
  <2>1. Leaves(t, TRUE) /\ RemoveTransaction(t, TRUE)
    BY <1>10 DEF FinishCommit, Leaves
  <2> QED
    BY <2>1, RemoveTransactionRemoves
<1>11. ASSUME NEW t \in Txn, EndRollback(t)
       PROVE  \E committed, r, n, gone : Leaves(t, committed) /\ Removes(t, committed, r, n, gone)
  <2>1. Leaves(t, FALSE) /\ RemoveTransaction(t, FALSE)
    BY <1>11 DEF EndRollback, Leaves
  <2> QED
    BY <2>1, RemoveTransactionRemoves
<1> QED
  BY <1>1, <1>2, <1>3, <1>4, <1>5, <1>6, <1>7, <1>8, <1>9, <1>10, <1>11 DEF Next

\* Who has begun, who has ended and who came before whom stays.
LEMMA MovedKeeps ==
  ASSUME CInv, NEW t \in Txn, Moved(t)
  PROVE  /\ Ended' = Ended /\ Running' = Running /\ Before' = Before
         /\ t \in Running /\ t \notin Ended
         /\ \A u \in Txn : u # t => phase'[u] = phase[u]
<1>1. \A u \in Txn : u # t => phase'[u] = phase[u] /\ commit_id'[u] = commit_id[u]
  BY DEF Moved
<1>2. phase[t] \notin {"idle", "ended"} /\ phase'[t] \notin {"idle", "ended"}
  BY DEF Moved
<1>3. Ended' = Ended /\ Running' = Running
  BY <1>1, <1>2 DEF Ended, Running
<1>4. Before' = Before
  <2>1. start_time' = start_time
    BY DEF Moved
  <2> QED
    BY <1>1, <1>2, <2>1 DEF Before
<1> QED
  BY <1>1, <1>2, <1>3, <1>4 DEF Running, Ended

\* Restamped chains look the same.
LEMMA RestampedKeeps ==
  ASSUME CInv, CInv', \A key \in Key : Restamped(map'[key], map[key]), NEW W, NEW L
  PROVE  Keeps(map', map, W, L)
<1> SUFFICES ASSUME NEW key \in Key
             PROVE SeenIn(map'[key], W) = SeenIn(map[key], W) /\ (Low(map[key], L) => Low(map'[key], L))
  BY DEF Keeps
<1>1. map[key] \in Chains /\ map'[key] \in Chains
  BY DEF CInv, Types
<1> DEFINE c == map[key]
           d == map'[key]
<1>2. Restamped(d, c)
  OBVIOUS
<1> HIDE DEF c, d
<1>3. c \in Chains /\ d \in Chains
  BY <1>1 DEF c, d
<1>4. SeenIn(d, W) = SeenIn(c, W)
  BY <1>2, <1>3, SeenAlike DEF Restamped
<1>5. Low(c, L) => Low(d, L)
  <2>1. (c = <<>> <=> Len(c) = 0) /\ (d = <<>> <=> Len(d) = 0)
    BY <1>3, ChainElements
  <2> QED
    BY <1>2, <2>1 DEF Restamped, Low
<1> QED
  BY <1>4, <1>5 DEF c, d

\* The last entries stay older than all transactions.
LEMMA LowKept ==
  ASSUME SInv, NEW W, NEW L, Keeps(map', map, W, L), Horizon' = L, \A key \in Key : Low(map[key], L)
  PROVE  \A key \in Key : Low(map[key], Horizon)'
  BY DEF Keeps, Low

\* Times that are no earlier than others.
LEMMA BeyondLater ==
  ASSUME NEW L \in SUBSET Nat, NEW M \in SUBSET Nat, \A m \in M : \E l \in L : l <= m,
         NEW timestamp \in Nat, Beyond(L, timestamp)
  PROVE  Beyond(M, timestamp)
<1> SUFFICES ASSUME NEW m \in M PROVE timestamp < m
  BY DEF Beyond
<1>1. PICK l \in L : l <= m
  OBVIOUS
<1>2. timestamp < l
  BY DEF Beyond
<1> QED
  BY <1>1, <1>2

\* The same for a chain.
LEMMA LowLater ==
  ASSUME NEW L \in SUBSET Nat, NEW M \in SUBSET Nat, \A m \in M : \E l \in L : l <= m,
         NEW c \in Chains, Low(c, L)
  PROVE  Low(c, M)
<1> SUFFICES ASSUME c # <<>> PROVE Beyond(M, c[Len(c)].timestamp)
  BY DEF Low
<1>1. Len(c) \in 1..Len(c)
  BY ChainElements
<1>2. c[Len(c)].timestamp \in Nat
  BY <1>1, ChainElements DEF Entries
<1>3. Beyond(L, c[Len(c)].timestamp)
  BY DEF Low
<1> QED
  BY <1>2, <1>3, BeyondLater

\* The times are numbers.
LEMMA HorizonTimes ==
  ASSUME CInv
  PROVE  Horizon \in SUBSET Nat
  BY DEF Horizon, CInv, Types, Running

\* It is so at first, ...
LEMMA InitSInv ==
  ASSUME Init
  PROVE  SInv
<1>1. /\ current_start_timestamp = 2 /\ current_transaction_id = TRANSACTION_ID_START
      /\ phase = [t \in Txn |-> "idle"] /\ todo = [t \in Txn |-> <<>>]
      /\ map = [key \in Key |-> IF key \in InitialKeys THEN <<InitialEntry(key)>> ELSE <<>>]
  BY DEF Init
<1>2. Running = {}
  BY <1>1 DEF Running
<1>3. Horizon = {2}
  BY <1>1, <1>2 DEF Horizon
<1>4. ASSUME NEW key \in Key PROVE Low(map[key], Horizon)
  <2>1. CASE key \in InitialKeys
    <3>1. map[key] = <<InitialEntry(key)>>
      BY <1>1, <2>1
    <3>2. Len(map[key]) = 1 /\ map[key][1] = InitialEntry(key)
      BY <3>1
    <3>3. InitialEntry(key).timestamp = 1
      BY DEF InitialEntry, Entry
    <3> QED
      BY <1>3, <3>2, <3>3 DEF Low, Beyond
  <2>2. CASE key \notin InitialKeys
    BY <1>1, <2>2 DEF Low
  <2> QED
    BY <2>1, <2>2
<1>5. current_transaction_id + 2 <= TRANSACTION_ID_START + current_start_timestamp
  BY <1>1, CatalogConstants
<1>6. Beyond(Horizon, 0)
  BY <1>3 DEF Beyond
<1>7. \A t \in Txn : phase[t] = "idle" => todo[t] = <<>>
  BY <1>1
<1> QED
  BY <1>4, <1>5, <1>6, <1>7 DEF SInv

\* ... after the beginning of a transaction, ...
LEMMA StartSInv ==
  ASSUME CInv, CInv', SInv, NEW t \in Txn, StartTransaction(t)
  PROVE  SInv'
<1>1. /\ phase[t] = "idle" /\ phase' = [phase EXCEPT ![t] = "active"]
      /\ start_time' = [start_time EXCEPT ![t] = current_start_timestamp]
      /\ current_start_timestamp' = current_start_timestamp + 1
      /\ current_transaction_id' = current_transaction_id + 1 /\ map' = map /\ todo' = todo
  BY DEF StartTransaction
<1>2. /\ current_start_timestamp \in Nat /\ current_transaction_id \in Nat /\ TRANSACTION_ID_START \in Nat
  BY ClockFacts
<1>3. /\ phase \in [Txn -> {"idle", "active", "invalid", "committing", "rolling_back", "ended"}]
      /\ start_time \in [Txn -> Nat] /\ map \in [Key -> Chains]
  BY DEF CInv, Types
<1>4. Horizon \in SUBSET Nat /\ Horizon' \in SUBSET Nat
  <2>1. (Horizon \in SUBSET Nat)'
    BY DEF Horizon, CInv, Types, Running
  <2> QED
    BY <2>1, HorizonTimes
<1>5. \A m \in Horizon' : \E l \in Horizon : l <= m
  <2> SUFFICES ASSUME NEW m \in Horizon' PROVE \E l \in Horizon : l <= m
    OBVIOUS
  <2>1. current_start_timestamp \in Horizon
    BY DEF Horizon
  <2>2. CASE m = current_start_timestamp + 1 \/ m = current_start_timestamp
    BY <1>2, <2>1, <2>2
  <2>3. ASSUME NEW u \in Running', m = start_time'[u], u # t PROVE \E l \in Horizon : l <= m
    <3>1. u \in Running /\ start_time'[u] = start_time[u] /\ start_time[u] \in Nat
      BY <1>1, <1>3, <2>3 DEF Running
    <3>2. m \in Horizon /\ m <= m
      BY <2>3, <3>1 DEF Horizon
    <3> QED
      BY <3>2
  <2>4. start_time'[t] = current_start_timestamp
    BY <1>1, <1>3
  <2> QED
    BY <1>1, <2>2, <2>3, <2>4 DEF Horizon
<1>6. Beyond(Horizon, 0)'
  BY <1>4, <1>5, BeyondLater DEF SInv
<1>7. \A key \in Key : Low(map[key], Horizon)'
  <2> SUFFICES ASSUME NEW key \in Key PROVE Low(map[key], Horizon')
    BY <1>1 DEF Low
  <2>1. Low(map[key], Horizon) /\ map[key] \in Chains
    BY <1>3 DEF SInv
  <2> QED
    BY <1>4, <1>5, <2>1, LowLater
<1>8. current_transaction_id' + 2 <= TRANSACTION_ID_START + current_start_timestamp'
  BY <1>1, <1>2 DEF SInv
<1>9. \A u \in Txn : phase'[u] = "idle" => todo'[u] = <<>>
  BY <1>1, <1>3 DEF SInv
<1> QED
  BY <1>6, <1>7, <1>8, <1>9 DEF SInv

\* ... an operation, ...
LEMMA OperatedSInv ==
  ASSUME CInv, CInv', SInv, NEW t \in Txn, Operated(t)
  PROVE  SInv'
<1>1. PhasesKept /\ phase[t] = "active"
  BY DEF Operated
<1>2. Running' = Running
  BY <1>1, Kept
<1>3. /\ start_time' = start_time /\ current_start_timestamp' = current_start_timestamp
      /\ current_transaction_id' = current_transaction_id
  BY <1>1 DEF PhasesKept, clocks
<1>4. Horizon' = Horizon
  BY <1>2, <1>3 DEF Horizon
<1>5. PICK K : Grows(map', undo'[t], t, K)
  BY DEF Operated
<1>6. Keeps(map', map, {}, Horizon)
  BY <1>5 DEF Grows, SInv
<1>7. \A key \in Key : Low(map[key], Horizon)'
  BY <1>4, <1>6, LowKept DEF SInv
<1>8. \A u \in Txn : phase'[u] = "idle" => u # t /\ phase[u] = "idle"
  BY <1>1 DEF PhasesKept
<1>9. \A u \in Txn : phase'[u] = "idle" => todo'[u] = <<>>
  BY <1>8 DEF SInv, Operated
<1> QED
  BY <1>3, <1>4, <1>7, <1>9 DEF SInv

\* ... in the course of a commit or a rollback, ...
LEMMA MovedSInv ==
  ASSUME CInv, CInv', SInv, NEW t \in Txn, Moved(t)
  PROVE  SInv'
<1>1. /\ Running' = Running /\ start_time' = start_time /\ todo' = todo
      /\ current_start_timestamp' \in {current_start_timestamp, current_start_timestamp + 1}
      /\ current_transaction_id' = current_transaction_id
      /\ \A u \in Txn : phase'[u] = "idle" => phase[u] = "idle"
  <2>1. \A u \in Txn : phase'[u] = "idle" => phase[u] = "idle"
    BY MovedKeeps DEF Moved, Running
  <2> QED
    BY <2>1, MovedKeeps DEF Moved
<1>2. /\ current_start_timestamp \in Nat /\ current_transaction_id \in Nat /\ TRANSACTION_ID_START \in Nat
      /\ map \in [Key -> Chains] /\ start_time \in [Txn -> Nat] /\ Running \in SUBSET Txn
  BY CatalogConstants DEF CInv, Types, Running
<1>3. Horizon' \in SUBSET Nat /\ Horizon \in SUBSET Nat
  BY <1>1, <1>2 DEF Horizon
<1>4. \A m \in Horizon' : \E l \in Horizon : l <= m
  <2> SUFFICES ASSUME NEW m \in Horizon' PROVE \E l \in Horizon : l <= m
    OBVIOUS
  <2>1. CASE m \in Horizon
    <3>1. m <= m
      BY <1>3
    <3> QED
      BY <2>1, <3>1
  <2>2. CASE m = current_start_timestamp + 1
    <3>1. current_start_timestamp \in Horizon /\ current_start_timestamp <= m
      BY <1>2, <2>2 DEF Horizon
    <3> QED
      BY <3>1
  <2>3. m \in Horizon \/ m = current_start_timestamp + 1
    BY <1>1 DEF Horizon
  <2> QED
    BY <2>1, <2>2, <2>3
<1>5. Beyond(Horizon', 0)
  BY <1>3, <1>4, BeyondLater DEF SInv
<1>6. \A key \in Key : Low(map[key], Horizon')
  BY <1>2, <1>3, <1>4, LowLater DEF SInv
<1>7. Keeps(map', map, {}, Horizon')
  BY RestampedKeeps DEF Moved
<1>8. \A key \in Key : Low(map[key], Horizon)'
  BY <1>6, <1>7, LowKept
<1>9. current_transaction_id' + 2 <= TRANSACTION_ID_START + current_start_timestamp'
  <2>1. \A a, b, c \in Nat : a + 2 <= b + c => a + 2 <= b + (c + 1)
    OBVIOUS
  <2>2. current_transaction_id + 2 <= TRANSACTION_ID_START + current_start_timestamp
    BY DEF SInv
  <2> QED
    BY <1>1, <1>2, <2>1, <2>2
<1>10. \A u \in Txn : phase'[u] = "idle" => todo'[u] = <<>>
  BY <1>1 DEF SInv
<1> QED
  BY <1>5, <1>8, <1>9, <1>10 DEF SInv

\* The commits that are cleaned up are older than all who are still running.
LEMMA DoneAreOld ==
  ASSUME CInv, NEW t \in Txn, NEW committed, Leaves(t, committed),
         NEW r, NEW n, NEW gone, Removes(t, committed, r, n, gone), NEW i \in 1..n
  PROVE  /\ r[i] \in EndedWith(t) /\ r[i] \in Txn /\ phase[r[i]] # "rolling_back" /\ commit_id[r[i]] \in Nat
         /\ \A u \in Running \ {t} : commit_id[r[i]] < start_time[u]
         /\ commit_id[r[i]] < current_start_timestamp
<1>1. r \in Seq(Txn) /\ n \in 0..Len(r) /\ commit_id[r[i]] < LowestStart(t) /\ CommitsOK(r, t)
  BY DEF Removes, CommitsOK
<1>2. i \in 1..Len(r) /\ r[i] \in Txn
  BY <1>1, PartOfSeq
<1>3. commit_id[r[i]] \in Nat /\ commit_id[r[i]] < current_start_timestamp
  BY <1>2, ClockFacts
<1>4. ASSUME NEW u \in Running \ {t} PROVE commit_id[r[i]] < start_time[u]
  <2>1. LowestStart(t) <= start_time[u] /\ LowestStart(t) \in Nat
    BY LowestStartIs
  <2>2. start_time[u] \in Nat
    BY DEF CInv, Types, Running
  <2> QED
    BY <1>1, <1>3, <2>1, <2>2
<1>5. r[i] \in EndedWith(t) /\ phase[r[i]] # "rolling_back"
  BY <1>1, <1>2 DEF CommitsOK
<1> QED
  BY <1>2, <1>3, <1>4, <1>5

\* ... and after its end.
LEMMA RemovedSInv ==
  ASSUME CInv, CInv', SInv, NEW t \in Txn, NEW committed, Leaves(t, committed),
         NEW r, NEW n, NEW gone, Removes(t, committed, r, n, gone)
  PROVE  SInv'
<1>1. /\ \A u \in Txn : /\ u \notin gone => start_time'[u] = start_time[u]
                        /\ phase'[u] = IF u = t THEN "ended" ELSE phase[u]
      /\ Running' = Running \ {t} /\ \A u \in Running' : u \notin gone
  BY Forgotten
<1>2. /\ current_start_timestamp' = current_start_timestamp
      /\ current_transaction_id' = current_transaction_id /\ todo' = todo
      /\ map' = Cleanup(SubSeq(r, 1, n)) /\ CommitsOK(r, t) /\ n \in 0..Len(r)
  BY DEF Removes
<1>3. Horizon' = {start_time[u] : u \in Running \ {t}} \cup {current_start_timestamp}
  <2>1. \A u \in Running' : start_time'[u] = start_time[u]
    BY <1>1 DEF Running
  <2> QED
    BY <1>1, <1>2, <2>1 DEF Horizon
<1>4. Horizon' \subseteq Horizon
  BY <1>3 DEF Horizon
<1> DEFINE L == Horizon'
<1>5. \A i \in 1..n : r[i] \in EndedWith(t) /\ Beyond(L, commit_id[r[i]])
  BY <1>3, DoneAreOld DEF Beyond
<1>6. Keeps(Cleanup(SubSeq(r, 1, n)), map, EndedWith(t), L)
  <2> HIDE DEF L
  <2> QED
    BY <1>2, <1>5, CleanedAll
<1>7. \A key \in Key : Low(map[key], L)
  BY <1>4 DEF SInv, Low, Beyond
<1>8. \A key \in Key : Low(map[key], Horizon)'
  BY <1>2, <1>6, <1>7, LowKept
<1>9. Beyond(Horizon, 0)'
  BY <1>4 DEF SInv, Beyond
<1>10. \A u \in Txn : phase'[u] = "idle" => todo'[u] = <<>>
  BY <1>1, <1>2 DEF SInv
<1> QED
  BY <1>2, <1>8, <1>9, <1>10 DEF SInv

\* Every step keeps it.
LEMMA StepSInv ==
  ASSUME CInv, CInv', SInv, [Next]_vars
  PROVE  SInv'
<1>1. CASE Next
  <2>1. PICK t \in Txn :
            \/ StartTransaction(t)
            \/ Operated(t)
            \/ Moved(t)
            \/ \E committed, r, n, gone : Leaves(t, committed) /\ Removes(t, committed, r, n, gone)
    BY <1>1, StepKinds
  <2> QED
    BY <2>1, StartSInv, OperatedSInv, MovedSInv, RemovedSInv
<1>2. CASE UNCHANGED vars
  <2>1. /\ phase' = phase /\ start_time' = start_time /\ current_start_timestamp' = current_start_timestamp
        /\ current_transaction_id' = current_transaction_id /\ map' = map /\ todo' = todo
    BY <1>2 DEF vars
  <2>2. Horizon' = Horizon
    BY <2>1 DEF Horizon, Running
  <2> QED
    BY <2>1, <2>2 DEF SInv
<1> QED
  BY <1>1, <1>2
-----------------------------------------------------------------------------
(* What a step changes of what the transactions see.                       *)

\* u sees the same, ...
ViewKept(u) == \A key \in Key : SeenIn(map'[key], Seers(u)') = SeenIn(map[key], Seers(u))

\* ... and so does whoever begins now.
StoreKept == \A key \in Key : SeenIn(map'[key], Ended') = SeenIn(map[key], Ended)

\* Who has not ended is seen by nobody else.
LEMMA OnlyEndedSeen ==
  ASSUME NEW t, t \notin Ended, NEW u, u # t
  PROVE  t \notin Seers(u)
  BY DEF Seers, Before, Ended

\* An operation of t is seen by t only.
LEMMA OperatedViews ==
  ASSUME CInv, SInv, NEW t \in Txn, Operated(t)
  PROVE  /\ StoreKept /\ \A u \in Txn \ {t} : ViewKept(u)
         /\ \A u \in Txn : Seers(u)' = Seers(u) /\ Unseen(u)' = Unseen(u)
<1>1. PhasesKept /\ phase[t] = "active"
  BY DEF Operated
<1>2. Ended' = Ended /\ Before' = Before /\ t \notin Ended
  BY <1>1, Kept, ActiveFacts
<1>3. PICK K : Grows(map', undo'[t], t, K)
  BY DEF Operated
<1>4. \A W : t \notin W => \A key \in Key : SeenIn(map'[key], W) = SeenIn(map[key], W)
  BY <1>3 DEF Grows, Keeps, SInv
<1>5. \A u \in Txn : Seers(u)' = Seers(u)
  BY <1>2 DEF Seers
<1>6. StoreKept
  BY <1>2, <1>4 DEF StoreKept
<1>7. \A u \in Txn \ {t} : ViewKept(u)
  BY <1>2, <1>4, <1>5, OnlyEndedSeen DEF ViewKept
<1>8. \A x \in Ended : undo'[x] = undo[x] /\ commit_id'[x] = commit_id[x]
  <2>1. \A x \in Ended : x \in Txn \ {t}
    BY <1>2 DEF Ended
  <2> QED
    BY <1>1, <2>1 DEF Operated, PhasesKept, clocks
<1>9. start_time' = start_time
  BY <1>1 DEF PhasesKept, clocks
<1>10. \A u \in Txn : Unseen(u)' = Unseen(u)
  BY <1>2, <1>8, <1>9 DEF Unseen
<1> QED
  BY <1>5, <1>6, <1>7, <1>10

\* The course of a commit is seen by nobody, that of a rollback by t at most.
LEMMA MovedViews ==
  ASSUME CInv, CInv', SInv, NEW t \in Txn, Moved(t)
  PROVE  /\ StoreKept
         /\ \A u \in Txn : (u = t => phase[t] # "rolling_back") => ViewKept(u)
         /\ \A u \in Txn : Unseen(u)' = Unseen(u)
<1>1. Ended' = Ended /\ Before' = Before /\ t \notin Ended
  BY MovedKeeps
<1>2. \A W : phase[t] # "rolling_back" \/ t \notin W => \A key \in Key : SeenIn(map'[key], W) = SeenIn(map[key], W)
  <2>1. ASSUME \A key \in Key : Restamped(map'[key], map[key]), NEW W, NEW key \in Key
        PROVE  SeenIn(map'[key], W) = SeenIn(map[key], W)
    <3>1. Keeps(map', map, W, {})
      BY <2>1, RestampedKeeps
    <3> QED
      BY <3>1 DEF Keeps
  <2>2. ASSUME phase[t] = "rolling_back", \A W, L : t \notin W => Keeps(map', map, W, L)
        PROVE  \A W : t \notin W => \A key \in Key : SeenIn(map'[key], W) = SeenIn(map[key], W)
    BY <2>2 DEF Keeps
  <2> QED
    BY <2>1, <2>2 DEF Moved
<1>3. \A u \in Txn : Seers(u)' = Seers(u)
  BY <1>1 DEF Seers
<1>4. StoreKept
  BY <1>1, <1>2 DEF StoreKept
<1>5. \A u \in Txn : (u = t => phase[t] # "rolling_back") => ViewKept(u)
  BY <1>1, <1>2, <1>3, OnlyEndedSeen DEF ViewKept
<1>6. \A x \in Ended : commit_id'[x] = commit_id[x]
  BY <1>1 DEF Moved, Ended
<1>7. start_time' = start_time /\ undo' = undo
  BY DEF Moved
<1>8. \A u \in Txn : Unseen(u)' = Unseen(u)
  BY <1>1, <1>6, <1>7 DEF Unseen
<1> QED
  BY <1>4, <1>5, <1>8

\* Who begins sees what all do who begin now.
LEMMA StartViews ==
  ASSUME CInv, CInv', SInv, NEW t \in Txn, StartTransaction(t)
  PROVE  /\ StoreKept
         /\ \A key \in Key : SeenIn(map'[key], Seers(t)') = SeenIn(map[key], Ended)
         /\ \A u \in Txn \ {t} : ViewKept(u) /\ Unseen(u)' = Unseen(u)
         /\ Unseen(t)' = {} /\ undo[t] = <<>> /\ undo' = undo
<1>1. /\ phase[t] = "idle" /\ phase' = [phase EXCEPT ![t] = "active"]
      /\ start_time' = [start_time EXCEPT ![t] = current_start_timestamp]
      /\ commit_id' = commit_id /\ map' = map /\ undo' = undo
  BY DEF StartTransaction
<1>2. /\ phase \in [Txn -> {"idle", "active", "invalid", "committing", "rolling_back", "ended"}]
      /\ start_time \in [Txn -> Nat] /\ map \in [Key -> Chains]
  BY DEF CInv, Types
<1>3. Ended' = Ended
  BY <1>1, <1>2 DEF Ended
<1>4. \A u \in Txn \ {t} : Seers(u)' = Seers(u)
  BY <1>1, <1>2 DEF Seers, Before
<1>5. StoreKept
  BY <1>1, <1>3 DEF StoreKept
<1>6. \A u \in Txn \ {t} : ViewKept(u)
  BY <1>1, <1>4 DEF ViewKept
<1>7. \A u \in Txn \ {t} : Unseen(u)' = Unseen(u)
  BY <1>1, <1>2, <1>3 DEF Unseen
<1>8. start_time'[t] = current_start_timestamp /\ current_start_timestamp \in Nat
  BY <1>1, <1>2, ClockFacts
<1>9. \A x \in Ended : commit_id[x] < current_start_timestamp /\ commit_id[x] \in Nat
  BY ClockFacts DEF Ended
<1>10. Unseen(t)' = {}
  <2>1. \A x \in Ended : ~ (current_start_timestamp < commit_id[x])
    BY <1>8, <1>9
  <2> QED
    BY <1>1, <1>3, <1>8, <2>1 DEF Unseen
<1>11. Seers(t)' = {t} \cup Ended
  BY <1>1, <1>2, <1>8, <1>9 DEF Seers, Before, Ended
<1>12. ASSUME NEW key \in Key PROVE SeenIn(map'[key], Seers(t)') = SeenIn(map[key], Ended)
  <2>1. t \notin Ended \cup Running
    BY <1>1 DEF Ended, Running
  <2>2. \A i \in 1..Len(map[key]) - 1 : map[key][i].id[1] # t
    BY <2>1, Covered
  <2>3. map[key] \in Chains
    BY <1>2
  <2>4. SeenIn(map[key], {t} \cup Ended) = SeenIn(map[key], Ended)
    BY <2>2, <2>3, SeenAlike
  <2> QED
    BY <1>1, <1>11, <2>4
<1>13. undo[t] = <<>>
  BY <1>1 DEF CInv, Recent
<1> QED
  BY <1>1, <1>5, <1>6, <1>7, <1>10, <1>12, <1>13
-----------------------------------------------------------------------------
(* The end of a transaction.                                               *)

\* Whose undo buffers are freed has no entries any more.
LEMMA GoneOwnNothing ==
  ASSUME CInv, CInv', NEW t \in Txn, NEW committed, Leaves(t, committed),
         NEW r, NEW n, NEW gone, Removes(t, committed, r, n, gone),
         NEW key \in Key, NEW i \in 1..Len(map'[key]) - 1
  PROVE  map'[key][i].id[1] \notin gone /\ map'[key][i].id[1] \in Txn
<1> DEFINE p == map'[key][i].id
           x == p[1]
<1>1. Woven(map, undo, PendingIds(undo), Before, Ended, Stamps)'
  BY DEF CInv, MapWoven
<1>2. p \in PendingIds(undo)'
  BY <1>1 DEF Woven, ChainOK, Covering
<1> HIDE DEF p
<1>3. \A q \in PendingIds(undo)' :
          /\ q[1] \in Txn
          /\ q[2] \in 1..(IF phase'[q[1]] = "rolling_back" THEN at' ELSE Len(undo'[q[1]]))
  BY DEF PendingIds, UndoUpTo
<1>4. x \in Txn /\ phase'[x] # "rolling_back"
  BY <1>2, <1>3, Forgotten
<1>5. p[2] \in 1..Len(undo'[x])
  BY <1>2, <1>3, <1>4
<1>6. x \in gone => undo'[x] = <<>>
  BY <1>4, Forgotten
<1>7. Len(<<>>) = 0 /\ 1..0 = {}
  OBVIOUS
<1> QED
  BY <1>4, <1>5, <1>6, <1>7 DEF p

\* What t has still to say at its end.
LEMMA LeavesFacts ==
  ASSUME CInv, NEW t \in Txn, NEW committed, Leaves(t, committed),
         NEW r, NEW n, NEW gone, Removes(t, committed, r, n, gone)
  PROVE  /\ committed \in BOOLEAN
         /\ committed => phase[t] = "committing" /\ \A u \in Txn : start_time[u] < commit_id[t]
         /\ ~ committed => t \in gone /\ phase[t] = "rolling_back"
         /\ t \notin Ended
<1>1. \/ committed = TRUE /\ phase[t] = "committing"
      \/ committed = FALSE /\ phase[t] = "rolling_back"
  BY DEF Leaves
<1>2. committed => \A u \in Txn : start_time[u] < commit_id[t]
  BY <1>1 DEF CInv, Clocks
<1>3. ~ committed => t \in gone
  BY <1>1 DEF Removes
<1> QED
  BY <1>1, <1>2, <1>3 DEF Ended

\* The others see the same.
LEMMA RemovedOthers ==
  ASSUME CInv, CInv', SInv, NEW t \in Txn, NEW committed, Leaves(t, committed),
         NEW r, NEW n, NEW gone, Removes(t, committed, r, n, gone), NEW u \in Running \ {t}
  PROVE  ViewKept(u)
<1> SUFFICES ASSUME NEW key \in Key PROVE SeenIn(map'[key], Seers(u)') = SeenIn(map[key], Seers(u))
  BY DEF ViewKept
<1>1. map' = Cleanup(SubSeq(r, 1, n)) /\ CommitsOK(r, t) /\ n \in 0..Len(r)
  BY DEF Removes
<1>2. u \in Txn /\ start_time[u] \in Nat
  BY ClockFacts DEF Running
<1>3. \A i \in 1..n : r[i] \in Seers(u)
  <2> SUFFICES ASSUME NEW i \in 1..n PROVE r[i] \in Seers(u)
    OBVIOUS
  <2>1. /\ r[i] \in EndedWith(t) /\ r[i] \in Txn /\ phase[r[i]] # "rolling_back"
        /\ commit_id[r[i]] < start_time[u] /\ commit_id[r[i]] \in Nat
    BY DoneAreOld
  <2>2. r[i] # t
    <3> SUFFICES ASSUME r[i] = t PROVE FALSE
      OBVIOUS
    <3>1. start_time[u] < commit_id[t]
      BY <1>2, <2>1, LeavesFacts
    <3> QED
      BY <1>2, <2>1, <3>1
  <2>3. phase[r[i]] = "ended"
    BY <2>1, <2>2 DEF EndedWith, Ended
  <2> QED
    BY <1>2, <2>1, <2>3 DEF Seers, Before
<1>4. SeenIn(map'[key], Seers(u)) = SeenIn(map[key], Seers(u))
  <2>1. \A i \in 1..n : r[i] \in Seers(u) /\ Beyond({}, commit_id[r[i]])
    BY <1>3 DEF Beyond
  <2>2. Keeps(Cleanup(SubSeq(r, 1, n)), map, Seers(u), {})
    BY <1>1, <2>1, CleanedAll
  <2> QED
    BY <1>1, <2>2 DEF Keeps
<1>5. ASSUME NEW i \in 1..Len(map'[key]) - 1
      PROVE  map'[key][i].id[1] \in Seers(u) <=> map'[key][i].id[1] \in Seers(u)'
  <2> DEFINE x == map'[key][i].id[1]
  <2>1. x \notin gone /\ x \in Txn
    BY GoneOwnNothing
  <2> HIDE DEF x
  <2>2. /\ commit_id'[x] = commit_id[x] /\ start_time'[u] = start_time[u]
        /\ phase'[x] = IF x = t THEN "ended" ELSE phase[x]
    BY <1>2, <2>1, Forgotten
  <2>3. x = t => phase[t] # "ended" /\ ~ (commit_id[x] < start_time[u])
    <3>1. x = t => start_time[u] < commit_id[t] /\ t \notin Ended
      BY <1>2, <2>1, LeavesFacts
    <3>2. commit_id[t] \in Nat
      BY ClockFacts
    <3> QED
      BY <1>2, <3>1, <3>2 DEF Ended
  <2>4. (x \in Seers(u) <=> x = u \/ (phase[x] = "ended" /\ commit_id[x] < start_time[u]))
    BY <1>2, <2>1 DEF Seers, Before
  <2>5. (x \in Seers(u)' <=> x = u \/ (phase'[x] = "ended" /\ commit_id'[x] < start_time'[u]))
    BY <1>2, <2>1 DEF Seers, Before
  <2>6. x \in Seers(u) <=> x \in Seers(u)'
    BY <2>2, <2>3, <2>4, <2>5
  <2> QED
    BY <2>6 DEF x
<1>6. map'[key] \in Chains
  BY DEF CInv, Types
<1>7. SeenIn(map'[key], Seers(u)') = SeenIn(map'[key], Seers(u))
  BY <1>5, <1>6, SeenAlike
<1> QED
  BY <1>4, <1>7

\* Who has not ended is not older than anybody, so its entry is on top of the chain.
LEMMA OnTopOfChain ==
  ASSUME CInv, NEW u \in Txn, u \notin Ended, phase[u] # "rolling_back", NEW key \in KeysIn(undo[u])
  PROVE  /\ key \in Key /\ map[key] \in Chains /\ 1 \in 1..Len(map[key]) - 1 /\ 1 \in 1..Len(map[key])
         /\ map[key][1].id[1] = u
<1>1. key \in Key /\ \E i \in 1..Len(map[key]) - 1 : map[key][i].id[1] = u
  BY KeyEntry
<1>2. PICK i \in 1..Len(map[key]) - 1 : map[key][i].id[1] = u
  BY <1>1
<1> DEFINE c == map[key]
<1>3. c \in Chains /\ Len(c) \in Nat
  BY <1>1, ChainElements DEF CInv, Types
<1>4. \A a, b \in 1..Len(c) - 1 : a < b => Older(c[b].id, c[a].id, Before)
  BY <1>1 DEF CInv, MapWoven, Woven, ChainOK
<1> HIDE DEF c
<1>5. i \in 1..Len(c) - 1 /\ c[i].id[1] = u
  BY <1>2 DEF c
<1>6. 1 \in 1..Len(c) - 1 /\ 1 \in 1..Len(c)
  BY <1>3, <1>5
<1>7. CASE i = 1
  BY <1>1, <1>3, <1>5, <1>6, <1>7 DEF c
<1>8. CASE i # 1
  <2>1. 1 < i
    BY <1>5, <1>8
  <2>2. Older(c[i].id, c[1].id, Before)
    BY <1>4, <1>5, <1>6, <2>1
  <2>3. \A v : <<u, v>> \notin Before
    BY DEF Before, Ended
  <2>4. c[1].id[1] = u
    BY <1>5, <2>2, <2>3 DEF Older
  <2> QED
    BY <1>1, <1>3, <1>6, <2>4 DEF c
<1> QED
  BY <1>7, <1>8

\* What whoever begins now reads once t has ended.
LEMMA RemovedStore ==
  ASSUME CInv, CInv', SInv, NEW t \in Txn, NEW committed, Leaves(t, committed),
         NEW r, NEW n, NEW gone, Removes(t, committed, r, n, gone), NEW key \in Key
  PROVE  SeenIn(map'[key], Ended') =
            IF committed /\ key \in KeysIn(undo[t]) THEN SeenIn(map[key], Seers(t)) ELSE SeenIn(map[key], Ended)
<1>1. map' = Cleanup(SubSeq(r, 1, n)) /\ CommitsOK(r, t) /\ n \in 0..Len(r)
  BY DEF Removes
<1>2. Ended' = EndedWith(t)
  BY Forgotten
<1>3. map[key] \in Chains
  BY DEF CInv, Types
<1>4. SeenIn(map'[key], Ended') = SeenIn(map[key], EndedWith(t))
  <2>1. \A i \in 1..n : r[i] \in EndedWith(t) /\ Beyond({}, commit_id[r[i]])
    BY DoneAreOld DEF Beyond
  <2>2. Keeps(Cleanup(SubSeq(r, 1, n)), map, EndedWith(t), {})
    BY <1>1, <2>1, CleanedAll
  <2> QED
    BY <1>1, <1>2, <2>2 DEF Keeps
<1>5. CASE committed /\ key \in KeysIn(undo[t])
  <2>1. t \notin Ended /\ phase[t] # "rolling_back"
    BY <1>5, LeavesFacts
  <2>2. 1 \in 1..Len(map[key]) - 1 /\ 1 \in 1..Len(map[key]) /\ map[key][1].id[1] = t
    BY <1>5, <2>1, OnTopOfChain
  <2>3. t \in Seers(t) /\ t \in EndedWith(t)
    BY DEF Seers, EndedWith
  <2>4. 1..1 - 1 = {}
    OBVIOUS
  <2>5. IsFirst(map[key], Seers(t), 1) /\ IsFirst(map[key], EndedWith(t), 1)
    BY <2>2, <2>3, <2>4 DEF IsFirst, Sees
  <2>6. SeenIn(map[key], EndedWith(t)) = SeenIn(map[key], Seers(t))
    BY <1>3, <2>2, <2>5, SeenInIs
  <2> QED
    BY <1>4, <1>5, <2>6
<1>6. CASE ~ (committed /\ key \in KeysIn(undo[t]))
  <2>1. ASSUME NEW i \in 1..Len(map[key]) - 1, map[key][i].id[1] = t PROVE FALSE
    <3>1. CASE committed
      <4>1. phase[t] # "rolling_back"
        BY <3>1, LeavesFacts
      <4> QED
        BY <1>6, <2>1, <3>1, <4>1, EntryKey
    <3>2. CASE ~ committed
      <4>1. phase[t] = "rolling_back" /\ at = 0
        BY <3>2 DEF Leaves
      <4>2. map[key][i].id \in PendingIds(undo)
        BY Covered
      <4>3. map[key][i].id[2] \in 1..UndoUpTo(undo, t)
        BY <2>1, <4>2 DEF PendingIds
      <4>4. UndoUpTo(undo, t) = 0 /\ 1..0 = {}
        BY <4>1 DEF UndoUpTo
      <4> QED
        BY <4>3, <4>4
    <3> QED
      BY <3>1, <3>2
  <2>2. \A i \in 1..Len(map[key]) - 1 : map[key][i].id[1] \in EndedWith(t) <=> map[key][i].id[1] \in Ended
    BY <2>1 DEF EndedWith
  <2>3. SeenIn(map[key], EndedWith(t)) = SeenIn(map[key], Ended)
    BY <1>3, <2>2, SeenAlike
  <2> QED
    BY <1>4, <1>6, <2>3
<1> QED
  BY <1>5, <1>6

\* What the others miss then.
LEMMA RemovedMissed ==
  ASSUME CInv, CInv', SInv, NEW t \in Txn, NEW committed, Leaves(t, committed),
         NEW r, NEW n, NEW gone, Removes(t, committed, r, n, gone), NEW u \in Running \ {t}
  PROVE  Unseen(u)' = Unseen(u) \cup (IF committed THEN KeysIn(undo[t]) ELSE {})
<1>1. u \in Txn /\ start_time[u] \in Nat /\ start_time'[u] = start_time[u]
  BY ClockFacts, Forgotten DEF Running
<1>2. Ended' = EndedWith(t) /\ \A x \in Ended : x \in Txn
  BY Forgotten DEF Ended
<1>3. \A x \in Txn : /\ x \in gone => commit_id'[x] = 0
                     /\ x \notin gone => undo'[x] = undo[x] /\ commit_id'[x] = commit_id[x]
                     /\ commit_id[x] \in Nat
  BY Forgotten, ClockFacts
<1>4. \A x \in gone : x \in Ended => ~ (start_time[u] < commit_id[x])
  <2> SUFFICES ASSUME NEW x \in gone, x \in Ended PROVE ~ (start_time[u] < commit_id[x])
    OBVIOUS
  <2>1. x # t
    BY LeavesFacts
  <2>2. PICK i \in 1..n : x = r[i]
    BY <2>1 DEF Removes
  <2>3. commit_id[x] < start_time[u]
    BY <2>2, DoneAreOld
  <2> QED
    BY <1>1, <1>2, <1>3, <2>3
<1>5. ASSUME committed, t \in gone PROVE KeysIn(undo[t]) = {}
  <2>1. \A i \in 1..n : r[i] # t
    <3> SUFFICES ASSUME NEW i \in 1..n, r[i] = t PROVE FALSE
      OBVIOUS
    <3>1. commit_id[t] < start_time[u]
      BY DoneAreOld
    <3>2. start_time[u] < commit_id[t]
      BY <1>1, <1>5, LeavesFacts
    <3> QED
      BY <1>1, <1>3, <3>1, <3>2
  <2>2. undo[t] = <<>>
    BY <1>5, <2>1 DEF Removes
  <2> QED
    BY <2>2 DEF KeysIn
<1>6. ASSUME committed, NEW key \in KeysIn(undo[t]) PROVE key \in Key
  <2>1. phase[t] # "rolling_back"
    BY <1>6, LeavesFacts
  <2> QED
    BY <2>1, KeyEntry
<1>7. ASSUME NEW key \in Unseen(u)'
      PROVE  key \in Unseen(u) \cup (IF committed THEN KeysIn(undo[t]) ELSE {})
  <2>1. PICK x \in EndedWith(t) : start_time[u] < commit_id'[x] /\ key \in KeysIn(undo'[x])
    BY <1>1, <1>2 DEF Unseen
  <2>2. key \in Key /\ x \in Txn
    BY <1>2 DEF Unseen, EndedWith
  <2>3. x \notin gone
    BY <1>1, <1>3, <2>1, <2>2
  <2>4. start_time[u] < commit_id[x] /\ key \in KeysIn(undo[x])
    BY <1>3, <2>1, <2>2, <2>3
  <2>5. x \in Ended => key \in Unseen(u)
    BY <2>2, <2>4 DEF Unseen
  <2>6. x \notin Ended => x = t /\ committed
    BY <2>3, LeavesFacts DEF EndedWith
  <2> QED
    BY <2>4, <2>5, <2>6
<1>8. ASSUME NEW key \in Unseen(u) PROVE key \in Unseen(u)'
  <2>1. PICK x \in Ended : start_time[u] < commit_id[x] /\ key \in KeysIn(undo[x])
    BY DEF Unseen
  <2>2. x \notin gone /\ x \in Txn /\ key \in Key
    BY <1>2, <1>4, <2>1 DEF Unseen
  <2>3. x \in Ended' /\ start_time'[u] < commit_id'[x] /\ key \in KeysIn(undo'[x])
    BY <1>1, <1>2, <1>3, <2>1, <2>2 DEF EndedWith
  <2> QED
    BY <2>2, <2>3 DEF Unseen
<1>9. ASSUME committed, NEW key \in KeysIn(undo[t]) PROVE key \in Unseen(u)'
  <2>1. t \notin gone /\ key \in Key
    BY <1>5, <1>6, <1>9
  <2>2. start_time[u] < commit_id[t]
    BY <1>1, <1>9, LeavesFacts
  <2>3. t \in Ended' /\ start_time'[u] < commit_id'[t] /\ key \in KeysIn(undo'[t])
    BY <1>1, <1>2, <1>3, <2>1, <2>2 DEF EndedWith
  <2> QED
    BY <2>1, <2>3 DEF Unseen
<1> QED
  BY <1>7, <1>8, <1>9

\* An entry without a conflict has been changed by no running transaction but t, and
\* by nobody whom t does not see.
LEMMA ClearOfOthers ==
  ASSUME CInv, NEW t \in Txn, phase[t] = "active", NEW key \in Key, Clear(map[key], t)
  PROVE  /\ \A u \in Reading \ {t} : key \notin KeysIn(undo[u])
         /\ key \notin Unseen(t)
<1> DEFINE c == map[key]
           sets == Unchanged(t)
           q == c[1].id
           y == q[1]
<1>1. SetsOK(sets, t) /\ sets.map = map
  BY UnchangedOK DEF Unchanged
<1>2. c \in Chains /\ Len(c) \in Nat /\ (c = <<>> <=> Len(c) = 0)
  BY ChainElements DEF CInv, Types
<1>3. \A a, b \in 1..Len(c) - 1 : a < b => Older(c[b].id, c[a].id, Before)
  BY DEF CInv, MapWoven, Woven, ChainOK
<1>4. ASSUME Len(c) > 1 PROVE y = t \/ <<y, t>> \in Before
  <2>1. c # <<>>
    BY <1>2, <1>4
  <2>2. ~ HasConflict(Data(t), c[1].timestamp)
    BY <2>1 DEF Clear
  <2>3. Older(c[1].id, NextId(BufferOf(t, sets.undo), t), Before)
    BY <1>1, <1>4, <2>2, HeadIsOlder
  <2>4. NextId(BufferOf(t, sets.undo), t)[1] = t
    BY DEF NextId
  <2> QED
    BY <2>3, <2>4 DEF Older
<1> HIDE DEF sets
<1>5. ASSUME NEW u \in Reading \ {t}, key \in KeysIn(undo[u]) PROVE FALSE
  <2>1. u \in Txn /\ u \notin Ended /\ phase[u] # "rolling_back"
    BY DEF Reading, Ended
  <2>2. 1 \in 1..Len(c) - 1 /\ y = u
    BY <1>5, <2>1, OnTopOfChain
  <2>3. Len(c) > 1
    BY <1>2, <2>2
  <2>4. <<u, t>> \in Before
    BY <1>4, <2>2, <2>3
  <2> QED
    BY <2>1, <2>4 DEF Before, Ended
<1>6. ASSUME key \in Unseen(t) PROVE FALSE
  <2>1. PICK x \in Ended : start_time[t] < commit_id[x] /\ key \in KeysIn(undo[x])
    BY <1>6 DEF Unseen
  <2>2. x \in Txn /\ phase[x] # "rolling_back" /\ x # t
    BY DEF Ended
  <2>3. PICK i \in 1..Len(c) - 1 : c[i].id[1] = x
    BY <2>1, <2>2, KeyEntry
  <2>4. Len(c) > 1 /\ 1 \in 1..Len(c) - 1
    BY <1>2, <2>3
  <2>5. start_time[t] \in Nat /\ commit_id[x] \in Nat
    BY <2>2, ClockFacts
  <2>6. <<x, t>> \notin Before
    BY <2>1, <2>5 DEF Before
  <2>7. y # x
    BY <1>4, <2>2, <2>4, <2>6
  <2>8. i # 1 /\ 1 < i
    BY <2>3, <2>7
  <2>9. <<x, y>> \in Before
    <3>1. Older(c[i].id, c[1].id, Before)
      BY <1>3, <2>3, <2>4, <2>8
    <3> QED
      BY <2>3, <2>7, <3>1 DEF Older
  <2>10. y # t
    BY <2>6, <2>9
  <2>11. <<y, t>> \in Before
    BY <1>4, <2>4, <2>10
  <2>12. y \in Txn /\ y \in Ended /\ phase[y] = "ended" /\ commit_id[x] < start_time[y] /\ commit_id[y] < start_time[t]
    BY <2>9, <2>11 DEF Before, Ended
  <2>13. key \in KeysIn(undo[y])
    BY <2>4, <2>12, EntryKey
  <2>14. undo[y] # <<>>
    BY <2>13 DEF KeysIn
  <2>15. start_time[y] < commit_id[y]
    BY <2>12, <2>14 DEF CInv, Recent
  <2>16. start_time[y] \in Nat /\ commit_id[y] \in Nat
    BY <2>12, ClockFacts
  <2> QED
    BY <2>1, <2>5, <2>12, <2>15, <2>16
<1> QED
  BY <1>5, <1>6
-----------------------------------------------------------------------------
(* The catalog implements snapshot isolation.  The variables of the        *)
(* abstract specification, and what they are in terms of the chains.       *)

Store  == Reads(NewTransaction)
View   == [t \in Txn |-> IF t \in Reading THEN Reads(Data(t)) ELSE <<>>]
Dirty  == [t \in Txn |-> IF t \in Reading THEN Writes(t) ELSE {}]
Missed == [t \in Txn |-> IF t \in Reading THEN Misses(t) ELSE {}]

\* What is read of each key by who sees W.
Seen(W) == [key \in Key |-> Outcome(SeenIn(map[key], W))]

\* The mapping; and a transaction finds in the middle of a statement what it reads.
Mapped ==
  /\ Store = Seen(Ended)
  /\ View = [t \in Txn |-> IF t \in Reading THEN Seen(Seers(t)) ELSE <<>>]
  /\ Dirty = [t \in Txn |-> IF t \in Reading THEN KeysIn(undo[t]) ELSE {}]
  /\ Missed = [t \in Txn |-> IF t \in Reading THEN Unseen(t) ELSE {}]
  /\ \A t \in Txn : \A key \in Key : phase[t] = "active" => (Finds(t, key) <=> SeenIn(map[key], Seers(t)) # <<>>)

\* The mapping follows from the invariant.
LEMMA InvMapped == CInv /\ SInv => Mapped
<1> SUFFICES ASSUME CInv, SInv PROVE Mapped
  OBVIOUS
<1>1. Store = Seen(Ended)
  BY StoreIs DEF Store, Seen
<1>2. \A t \in Reading : t \in Running
  BY DEF Reading, Running
<1>3. \A t \in Reading : Reads(Data(t)) = Seen(Seers(t)) /\ Misses(t) = Unseen(t)
  BY <1>2, ReadsIs, MissesIs DEF Seen
<1>4. \A t \in Txn : Writes(t) = KeysIn(undo[t])
  BY DEF Writes, KeysIn
<1>5. \A t \in Txn : \A key \in Key : phase[t] = "active" => (Finds(t, key) <=> SeenIn(map[key], Seers(t)) # <<>>)
  BY FindsIs
<1>6. View = [t \in Txn |-> IF t \in Reading THEN Seen(Seers(t)) ELSE <<>>]
  BY <1>3 DEF View
<1>7. Missed = [t \in Txn |-> IF t \in Reading THEN Unseen(t) ELSE {}]
  BY <1>3 DEF Missed
<1>8. Dirty = [t \in Txn |-> IF t \in Reading THEN KeysIn(undo[t]) ELSE {}]
  BY <1>4 DEF Dirty
<1> QED
  BY <1>1, <1>5, <1>6, <1>7, <1>8 DEF Mapped

\* The actions of the abstract specification in terms of these: Begin.
LEMMA AbstractBegin ==
  ASSUME NEW t \in Txn, t \notin Reading, Reading' = Reading \cup {t}, View' = [View EXCEPT ![t] = Store],
         Store' = Store, Dirty' = Dirty, Missed' = Missed
  PROVE  SI!Begin(t)
  BY DEF SI!Begin, Store, View, Dirty, Missed

\* Write.
LEMMA AbstractWrite ==
  ASSUME NEW t \in Reading, Reading' = Reading, NEW K,
         K = (Dirty'[t] \ Dirty[t]) \cup {k \in Key : View'[t][k] # View[t][k]},
         DOMAIN View'[t] = Key, K # {}, View' = [View EXCEPT ![t] = View'[t]],
         Dirty' = [Dirty EXCEPT ![t] = Dirty[t] \cup K],
         \A u \in Reading \ {t} : K \cap Dirty[u] = {}, K \cap Missed[t] = {},
         Store' = Store, Missed' = Missed
  PROVE  SI!Write(t)
  BY DEF SI!Write, Store, View, Dirty, Missed

\* Leave, the common part of Commit and Abort.
LEMMA AbstractLeave ==
  ASSUME NEW t \in Reading, Reading' = Reading \ {t}, View' = [View EXCEPT ![t] = <<>>],
         Dirty' = [Dirty EXCEPT ![t] = {}]
  PROVE  SI!Leave(t)
  BY DEF SI!Leave, SI!NoView, View, Dirty

\* Commit.
LEMMA AbstractCommit ==
  ASSUME NEW t \in Reading, Reading' = Reading \ {t}, View' = [View EXCEPT ![t] = <<>>],
         Dirty' = [Dirty EXCEPT ![t] = {}],
         Store' = [k \in Key |-> IF k \in Dirty[t] THEN View[t][k] ELSE Store[k]],
         Missed' = [u \in Txn |-> IF u = t THEN {}
                                  ELSE IF u \in Reading THEN Missed[u] \cup Dirty[t] ELSE Missed[u]]
  PROVE  SI!Commit(t)
<1>1. SI!Leave(t)
  BY AbstractLeave
<1> QED
  BY <1>1 DEF SI!Commit, Store, View, Dirty, Missed

\* Abort.
LEMMA AbstractAbort ==
  ASSUME NEW t \in Reading, Reading' = Reading \ {t}, View' = [View EXCEPT ![t] = <<>>],
         Dirty' = [Dirty EXCEPT ![t] = {}], Missed' = [Missed EXCEPT ![t] = {}], Store' = Store
  PROVE  SI!Abort(t)
<1>1. SI!Leave(t)
  BY AbstractLeave
<1> QED
  BY <1>1 DEF SI!Abort, Store, Missed

\* No action at all.
LEMMA AbstractStutter ==
  ASSUME Reading' = Reading, View' = View, Dirty' = Dirty, Missed' = Missed, Store' = Store
  PROVE  UNCHANGED SI!vars
  BY DEF SI!vars, Store, View, Dirty, Missed
-----------------------------------------------------------------------------
(* Every step of the catalog is one of the abstract specification.         *)

\* Functions that differ in one place, or nowhere.
LEMMA ChangedAt ==
  ASSUME NEW f, NEW g, f = [u \in Txn |-> f[u]], g = [u \in Txn |-> g[u]], NEW t \in Txn, NEW a,
         g[t] = a, \A u \in Txn : u # t => g[u] = f[u]
  PROVE  g = [f EXCEPT ![t] = a]
  OBVIOUS

\* The same without a difference.
LEMMA SameEverywhere ==
  ASSUME NEW f, NEW g, f = [u \in Txn |-> f[u]], g = [u \in Txn |-> g[u]], \A u \in Txn : g[u] = f[u]
  PROVE  g = f
  OBVIOUS

\* The variables are functions.
LEMMA Shapes ==
  ASSUME Mapped
  PROVE  /\ View = [u \in Txn |-> View[u]] /\ Dirty = [u \in Txn |-> Dirty[u]] /\ Missed = [u \in Txn |-> Missed[u]]
         /\ \A u \in Txn \ Reading : View[u] = <<>> /\ Dirty[u] = {} /\ Missed[u] = {}
         /\ \A u \in Reading : View[u] = Seen(Seers(u)) /\ Dirty[u] = KeysIn(undo[u]) /\ Missed[u] = Unseen(u)
<1>1. Reading \subseteq Txn
  BY DEF Reading
<1>2. View = [u \in Txn |-> View[u]] /\ Dirty = [u \in Txn |-> Dirty[u]] /\ Missed = [u \in Txn |-> Missed[u]]
  BY DEF View, Dirty, Missed
<1> QED
  BY <1>1, <1>2 DEF Mapped

\* After the step.
LEMMA ShapesNext ==
  ASSUME Mapped'
  PROVE  /\ View' = [u \in Txn |-> View'[u]] /\ Dirty' = [u \in Txn |-> Dirty'[u]]
         /\ Missed' = [u \in Txn |-> Missed'[u]]
         /\ \A u \in Txn \ Reading' : View'[u] = <<>> /\ Dirty'[u] = {} /\ Missed'[u] = {}
         /\ \A u \in Reading' : /\ View'[u] = [key \in Key |-> Outcome(SeenIn(map'[key], Seers(u)'))]
                                /\ Dirty'[u] = KeysIn(undo'[u]) /\ Missed'[u] = Unseen(u)'
<1>1. Reading' \subseteq Txn
  BY DEF Reading
<1>2. /\ View' = [u \in Txn |-> View'[u]] /\ Dirty' = [u \in Txn |-> Dirty'[u]]
      /\ Missed' = [u \in Txn |-> Missed'[u]]
  BY DEF View, Dirty, Missed
<1> QED
  BY <1>1, <1>2 DEF Mapped, Seen

\* A transaction that the step does not concern.
LEMMA NotConcerned ==
  ASSUME Mapped, Mapped', NEW u \in Txn, u \in Reading' <=> u \in Reading,
         u \in Reading => ViewKept(u) /\ KeysIn(undo'[u]) = KeysIn(undo[u]) /\ Unseen(u)' = Unseen(u)
  PROVE  View'[u] = View[u] /\ Dirty'[u] = Dirty[u] /\ Missed'[u] = Missed[u]
<1>1. CASE u \in Reading
  <2>1. Seen(Seers(u)) = [key \in Key |-> Outcome(SeenIn(map'[key], Seers(u)'))]
    BY <1>1 DEF Seen, ViewKept
  <2> QED
    BY <1>1, <2>1, Shapes, ShapesNext
<1>2. CASE u \notin Reading
  BY <1>2, Shapes, ShapesNext
<1> QED
  BY <1>1, <1>2

\* The store.
LEMMA StoreSame ==
  ASSUME Mapped, Mapped', StoreKept
  PROVE  Store' = Store
  BY DEF Mapped, Seen, StoreKept

\* StartTransaction is Begin.
LEMMA StartRefines ==
  ASSUME CInv, CInv', SInv, Mapped, Mapped', NEW t \in Txn, StartTransaction(t)
  PROVE  SI!Begin(t)
<1>1. /\ StoreKept
      /\ \A key \in Key : SeenIn(map'[key], Seers(t)') = SeenIn(map[key], Ended)
      /\ \A u \in Txn \ {t} : ViewKept(u) /\ Unseen(u)' = Unseen(u)
      /\ Unseen(t)' = {} /\ undo[t] = <<>> /\ undo' = undo
  BY StartViews
<1>2. t \notin Reading /\ Reading' = Reading \cup {t}
  <2>1. /\ phase[t] = "idle" /\ phase' = [phase EXCEPT ![t] = "active"]
        /\ phase \in [Txn -> {"idle", "active", "invalid", "committing", "rolling_back", "ended"}]
    BY DEF StartTransaction, CInv, Types
  <2> QED
    BY <2>1 DEF Reading
<1>3. \A u \in Txn : u # t => View'[u] = View[u] /\ Dirty'[u] = Dirty[u] /\ Missed'[u] = Missed[u]
  BY <1>1, <1>2, NotConcerned
<1>4. Store' = Store
  BY <1>1, StoreSame
<1>5. View'[t] = Store
  BY <1>1, <1>2, ShapesNext DEF Mapped, Seen
<1>6. Dirty'[t] = {} /\ Missed'[t] = {}
  <2>1. KeysIn(<<>>) = {}
    BY DEF KeysIn
  <2> QED
    BY <1>1, <1>2, <2>1, ShapesNext
<1>7. Dirty[t] = {} /\ Missed[t] = {}
  BY <1>2, Shapes
<1>8. View' = [View EXCEPT ![t] = Store]
  BY <1>3, <1>5, ChangedAt, Shapes, ShapesNext
<1>9. Dirty' = Dirty /\ Missed' = Missed
  <2>1. \A u \in Txn : Dirty'[u] = Dirty[u] /\ Missed'[u] = Missed[u]
    BY <1>3, <1>6, <1>7
  <2>2. Dirty' = Dirty
    BY <2>1, SameEverywhere, Shapes, ShapesNext
  <2>3. Missed' = Missed
    BY <2>1, SameEverywhere, Shapes, ShapesNext
  <2> QED
    BY <2>2, <2>3
<1> QED
  BY <1>2, <1>4, <1>8, <1>9, AbstractBegin

\* Who leaves without a commit aborts.
LEMMA AbortRefines ==
  ASSUME Mapped, Mapped', NEW t \in Reading, t \notin Reading',
         \A u \in Txn : u # t => View'[u] = View[u] /\ Dirty'[u] = Dirty[u] /\ Missed'[u] = Missed[u],
         \A u \in Txn : u # t => (u \in Reading' <=> u \in Reading), Store' = Store
  PROVE  SI!Abort(t)
<1>1. Reading' = Reading \ {t} /\ t \in Txn
  BY DEF Reading
<1>2. View'[t] = <<>> /\ Dirty'[t] = {} /\ Missed'[t] = {}
  BY <1>1, ShapesNext
<1>3. View' = [View EXCEPT ![t] = <<>>]
  BY <1>1, <1>2, ChangedAt, Shapes, ShapesNext
<1>4. Dirty' = [Dirty EXCEPT ![t] = {}]
  BY <1>1, <1>2, ChangedAt, Shapes, ShapesNext
<1>5. Missed' = [Missed EXCEPT ![t] = {}]
  BY <1>1, <1>2, ChangedAt, Shapes, ShapesNext
<1> QED
  BY <1>1, <1>3, <1>4, <1>5, AbstractAbort

\* Nothing changes.
LEMMA StutterRefines ==
  ASSUME Mapped, Mapped', Reading' = Reading, Store' = Store,
         \A u \in Txn : View'[u] = View[u] /\ Dirty'[u] = Dirty[u] /\ Missed'[u] = Missed[u]
  PROVE  UNCHANGED SI!vars
<1>1. View' = View /\ Dirty' = Dirty /\ Missed' = Missed
  BY SameEverywhere, Shapes, ShapesNext
<1> QED
  BY <1>1, AbstractStutter

\* The course of a commit or a rollback is an abort at most.
LEMMA MovedRefines ==
  ASSUME CInv, CInv', SInv, Mapped, Mapped', NEW t \in Txn, Moved(t)
  PROVE  SI!Abort(t) \/ UNCHANGED SI!vars
<1>1. /\ StoreKept
      /\ \A u \in Txn : (u = t => phase[t] # "rolling_back") => ViewKept(u)
      /\ \A u \in Txn : Unseen(u)' = Unseen(u)
  BY MovedViews
<1>2. \A u \in Txn : u # t => phase'[u] = phase[u]
  BY MovedKeeps
<1>3. undo' = undo
  BY DEF Moved
<1>4. Store' = Store
  BY <1>1, StoreSame
<1>5. \A u \in Txn : u # t => (u \in Reading' <=> u \in Reading)
  BY <1>2 DEF Reading
<1>6. \A u \in Txn : u # t => View'[u] = View[u] /\ Dirty'[u] = Dirty[u] /\ Missed'[u] = Missed[u]
  BY <1>1, <1>3, <1>5, NotConcerned
<1>7. CASE t \in Reading /\ t \notin Reading'
  BY <1>4, <1>5, <1>6, <1>7, AbortRefines
<1>8. CASE t \in Reading <=> t \in Reading'
  <2>1. t \in Reading => phase[t] # "rolling_back"
    BY DEF Reading
  <2>2. View'[t] = View[t] /\ Dirty'[t] = Dirty[t] /\ Missed'[t] = Missed[t]
    BY <1>1, <1>3, <1>8, <2>1, NotConcerned
  <2>3. Reading' = Reading
    BY <1>5, <1>8 DEF Reading
  <2> QED
    BY <1>4, <1>6, <2>2, <2>3, StutterRefines
<1>9. t \in Reading' => t \in Reading
  BY DEF Reading, Moved
<1> QED
  BY <1>7, <1>8, <1>9

\* An operation writes, aborts, or does nothing.
LEMMA OperatedRefines ==
  ASSUME CInv, CInv', SInv, Mapped, Mapped', NEW t \in Txn, Operated(t)
  PROVE  SI!Write(t) \/ SI!Abort(t) \/ UNCHANGED SI!vars
<1>1. /\ StoreKept /\ \A u \in Txn \ {t} : ViewKept(u)
      /\ \A u \in Txn : Seers(u)' = Seers(u) /\ Unseen(u)' = Unseen(u)
  BY OperatedViews
<1>2. /\ phase[t] = "active" /\ t \in Reading
      /\ \A u \in Txn \ {t} : phase'[u] = phase[u] /\ undo'[u] = undo[u]
  BY DEF Operated, Reading
<1>3. Store' = Store
  BY <1>1, StoreSame
<1>4. \A u \in Txn : u # t => (u \in Reading' <=> u \in Reading)
  BY <1>2 DEF Reading
<1>5. \A u \in Txn : u # t => View'[u] = View[u] /\ Dirty'[u] = Dirty[u] /\ Missed'[u] = Missed[u]
  BY <1>1, <1>2, <1>4, NotConcerned
<1>6. CASE t \notin Reading'
  BY <1>2, <1>3, <1>4, <1>5, <1>6, AbortRefines
<1>7. CASE t \in Reading'
  <2>1. Reading' = Reading
    BY <1>2, <1>4, <1>7 DEF Reading
  <2>2. PICK G : Grows(map', undo'[t], t, G)
    BY DEF Operated
  <2>3. /\ View[t] = Seen(Seers(t)) /\ Dirty[t] = KeysIn(undo[t]) /\ Missed[t] = Unseen(t)
    BY <1>2, Shapes
  <2>4. /\ View'[t] = [key \in Key |-> Outcome(SeenIn(map'[key], Seers(t)))]
        /\ Dirty'[t] = KeysIn(undo[t]) \cup G /\ Missed'[t] = Unseen(t)
    BY <1>1, <1>7, <2>2, ShapesNext DEF Grows
  <2> DEFINE K == (Dirty'[t] \ Dirty[t]) \cup {k \in Key : View'[t][k] # View[t][k]}
  <2>5. K \subseteq G /\ Dirty'[t] = Dirty[t] \cup K
    <3>1. \A k \in Key \ G : View'[t][k] = View[t][k]
      BY <2>2, <2>3, <2>4 DEF Grows, Seen
    <3>2. K \subseteq G
      BY <2>3, <2>4, <3>1
    <3> QED
      BY <2>3, <2>4, <3>2
  <2>6. \A k \in G : k \in Key /\ (\A u \in Reading \ {t} : k \notin KeysIn(undo[u])) /\ k \notin Unseen(t)
    BY <1>2, <2>2, ClearOfOthers DEF Grows
  <2>7. \A u \in Reading \ {t} : K \cap Dirty[u] = {}
    BY <2>5, <2>6, Shapes
  <2>8. K \cap Missed[t] = {}
    BY <2>3, <2>5, <2>6
  <2>9. DOMAIN View'[t] = Key
    BY <2>4
  <2>10. View' = [View EXCEPT ![t] = View'[t]]
    BY <1>5, ChangedAt, Shapes, ShapesNext
  <2>11. Dirty' = [Dirty EXCEPT ![t] = Dirty[t] \cup K]
    BY <1>5, <2>5, ChangedAt, Shapes, ShapesNext
  <2>12. Missed' = Missed
    BY <1>5, <2>3, <2>4, SameEverywhere, Shapes, ShapesNext
  <2>13. CASE K = {}
    <3>1. Dirty'[t] = Dirty[t]
      BY <2>5, <2>13
    <3>2. View'[t] = View[t]
      <4>1. \A k \in Key : View'[t][k] = View[t][k]
        BY <2>13
      <4>2. View[t] = [key \in Key |-> Outcome(SeenIn(map[key], Seers(t)))]
        BY <2>3 DEF Seen
      <4> QED
        BY <2>4, <4>1, <4>2
    <3> QED
      BY <1>3, <1>5, <2>1, <2>3, <2>4, <3>1, <3>2, StutterRefines
  <2>14. CASE K # {}
    <3> HIDE DEF K
    <3>1. K = (Dirty'[t] \ Dirty[t]) \cup {k \in Key : View'[t][k] # View[t][k]}
      BY DEF K
    <3> QED
      BY <1>2, <1>3, <2>1, <2>7, <2>8, <2>9, <2>10, <2>11, <2>12, <2>14, <3>1, AbstractWrite
  <2> QED
    BY <2>13, <2>14
<1> QED
  BY <1>6, <1>7

\* The end of a commit is Commit; the end of a rollback is seen by nobody.
LEMMA RemovedRefines ==
  ASSUME CInv, CInv', SInv, Mapped, Mapped', NEW t \in Txn, NEW committed, Leaves(t, committed),
         NEW r, NEW n, NEW gone, Removes(t, committed, r, n, gone)
  PROVE  SI!Commit(t) \/ UNCHANGED SI!vars
<1>1. \A u \in Txn : /\ u \notin gone => undo'[u] = undo[u]
                     /\ phase'[u] = IF u = t THEN "ended" ELSE phase[u]
  BY Forgotten
<1>2. t \notin Reading' /\ \A u \in Txn : u # t => (u \in Reading' <=> u \in Reading)
  BY <1>1 DEF Reading
<1>3. \A u \in Reading \ {t} : u \in Running \ {t} /\ u \in Txn /\ u \notin gone
  <2>1. Running' = Running \ {t} /\ \A u \in Running' : u \notin gone
    BY Forgotten
  <2> QED
    BY <2>1 DEF Reading, Running
<1>4. \A u \in Reading \ {t} : ViewKept(u) /\ undo'[u] = undo[u]
  BY <1>1, <1>3, RemovedOthers
<1>5. \A u \in Reading \ {t} : Unseen(u)' = Unseen(u) \cup (IF committed THEN KeysIn(undo[t]) ELSE {})
  BY <1>3, RemovedMissed
<1>6. \A u \in Txn : u # t => View'[u] = View[u] /\ Dirty'[u] = Dirty[u]
  <2> SUFFICES ASSUME NEW u \in Txn, u # t PROVE View'[u] = View[u] /\ Dirty'[u] = Dirty[u]
    OBVIOUS
  <2>1. CASE u \in Reading
    <3>1. Seen(Seers(u)) = [key \in Key |-> Outcome(SeenIn(map'[key], Seers(u)'))]
      BY <1>4, <2>1 DEF Seen, ViewKept
    <3> QED
      BY <1>2, <1>4, <2>1, <3>1, Shapes, ShapesNext
  <2>2. CASE u \notin Reading
    BY <1>2, <2>2, Shapes, ShapesNext
  <2> QED
    BY <2>1, <2>2
<1>7. View'[t] = <<>> /\ Dirty'[t] = {} /\ Missed'[t] = {}
  BY <1>2, ShapesNext
<1>8. CASE committed
  <2>1. t \in Reading /\ Reading' = Reading \ {t}
    BY <1>2, <1>8, LeavesFacts DEF Reading
  <2>2. View' = [View EXCEPT ![t] = <<>>]
    BY <1>6, <1>7, ChangedAt, Shapes, ShapesNext
  <2>3. Dirty' = [Dirty EXCEPT ![t] = {}]
    BY <1>6, <1>7, ChangedAt, Shapes, ShapesNext
  <2>4. View[t] = Seen(Seers(t)) /\ Dirty[t] = KeysIn(undo[t])
    BY <2>1, Shapes
  <2>5. Store' = [k \in Key |-> IF k \in Dirty[t] THEN View[t][k] ELSE Store[k]]
    <3>1. Store' = [key \in Key |-> Outcome(SeenIn(map'[key], Ended'))]
      BY DEF Mapped, Seen
    <3>2. \A k \in Key : Outcome(SeenIn(map'[k], Ended')) = IF k \in Dirty[t] THEN View[t][k] ELSE Store[k]
      <4> SUFFICES ASSUME NEW k \in Key
                   PROVE Outcome(SeenIn(map'[k], Ended')) = IF k \in Dirty[t] THEN View[t][k] ELSE Store[k]
        OBVIOUS
      <4>1. View[t][k] = Outcome(SeenIn(map[k], Seers(t))) /\ Store[k] = Outcome(SeenIn(map[k], Ended))
        BY <2>4 DEF Mapped, Seen
      <4>2. SeenIn(map'[k], Ended') =
              IF committed /\ k \in KeysIn(undo[t]) THEN SeenIn(map[k], Seers(t)) ELSE SeenIn(map[k], Ended)
        BY RemovedStore
      <4> QED
        BY <1>8, <2>4, <4>1, <4>2
    <3> QED
      BY <3>1, <3>2
  <2>6. Missed' = [u \in Txn |-> IF u = t THEN {}
                                 ELSE IF u \in Reading THEN Missed[u] \cup Dirty[t] ELSE Missed[u]]
    <3>1. \A u \in Txn : Missed'[u] = IF u = t THEN {}
                                      ELSE IF u \in Reading THEN Missed[u] \cup Dirty[t] ELSE Missed[u]
      <4> SUFFICES ASSUME NEW u \in Txn, u # t
                   PROVE Missed'[u] = IF u \in Reading THEN Missed[u] \cup Dirty[t] ELSE Missed[u]
        BY <1>7
      <4>1. CASE u \in Reading
        <5>1. Unseen(u)' = Unseen(u) \cup KeysIn(undo[t])
          BY <1>5, <1>8, <4>1
        <5> QED
          BY <1>2, <2>4, <4>1, <5>1, Shapes, ShapesNext
      <4>2. CASE u \notin Reading
        BY <1>2, <4>2, Shapes, ShapesNext
      <4> QED
        BY <4>1, <4>2
    <3> QED
      BY <3>1, ShapesNext
  <2> QED
    BY <2>1, <2>2, <2>3, <2>5, <2>6, AbstractCommit
<1>9. CASE ~ committed
  <2>1. t \notin Reading
    BY <1>9, LeavesFacts DEF Reading
  <2>2. Reading' = Reading
    BY <1>2, <2>1 DEF Reading
  <2>3. StoreKept
    BY <1>9, RemovedStore DEF StoreKept
  <2>4. \A u \in Txn : View'[u] = View[u] /\ Dirty'[u] = Dirty[u] /\ Missed'[u] = Missed[u]
    <3> SUFFICES ASSUME NEW u \in Txn PROVE View'[u] = View[u] /\ Dirty'[u] = Dirty[u] /\ Missed'[u] = Missed[u]
      OBVIOUS
    <3>1. u \in Reading => u # t /\ Unseen(u)' = Unseen(u)
      BY <1>5, <1>9, <2>1
    <3> QED
      BY <1>4, <2>2, <3>1, NotConcerned
  <2> QED
    BY <2>2, <2>3, <2>4, StoreSame, StutterRefines
<1> QED
  BY <1>8, <1>9

\* The first state is that of the abstract specification.
LEMMA InitRefines ==
  ASSUME Init, CInv, Mapped
  PROVE  SI!Init
<1>1. /\ phase = [t \in Txn |-> "idle"]
      /\ map = [key \in Key |-> IF key \in InitialKeys THEN <<InitialEntry(key)>> ELSE <<>>]
  BY DEF Init
<1>2. Reading = {}
  BY <1>1 DEF Reading
<1>3. ASSUME NEW key \in Key
      PROVE  Outcome(SeenIn(map[key], Ended)) = IF key \in InitialKeys THEN <<"initial">> ELSE NoEntry
  <2>1. CASE key \in InitialKeys
    <3> DEFINE e == InitialEntry(key)
    <3>1. map[key] = <<e>> /\ Len(map[key]) = 1 /\ map[key][1] = e /\ 1 \in 1..Len(map[key])
      BY <1>1, <2>1
    <3>2. map[key] \in Chains
      BY DEF CInv, Types
    <3>3. e.type = "ENTRY" /\ e.id = <<"initial">>
      BY DEF InitialEntry, Entry
    <3> HIDE DEF e
    <3>4. 1..1 - 1 = {}
      OBVIOUS
    <3>5. IsFirst(map[key], Ended, 1)
      BY <3>1, <3>4 DEF IsFirst, Sees
    <3>6. SeenIn(map[key], Ended) = Value(e)
      BY <3>1, <3>2, <3>5, SeenInIs
    <3>7. Value(e) = <<e.id>>
      BY <3>3 DEF Value, Deleted
    <3>8. Outcome(<<e.id>>) = e.id
      BY DEF Outcome
    <3> QED
      BY <2>1, <3>3, <3>6, <3>7, <3>8
  <2>2. CASE key \notin InitialKeys
    <3>1. SeenIn(map[key], Ended) = <<>>
      BY <1>1, <2>2 DEF SeenIn
    <3> QED
      BY <2>2, <3>1 DEF Outcome
  <2> QED
    BY <2>1, <2>2
<1>4. Store = [key \in Key |-> IF key \in InitialKeys THEN <<"initial">> ELSE NoEntry]
  BY <1>3 DEF Mapped, Seen
<1>5. View = [t \in Txn |-> <<>>] /\ Dirty = [t \in Txn |-> {}] /\ Missed = [t \in Txn |-> {}]
  BY <1>2 DEF View, Dirty, Missed
<1> QED
  BY <1>2, <1>4, <1>5 DEF SI!Init, SI!NoView, Store, View, Dirty, Missed

\* Every step is one of the abstract specification, or changes none of its variables.
LEMMA StepRefines ==
  ASSUME CInv, CInv', SInv, Mapped, Mapped', [Next]_vars
  PROVE  [SI!Next]_(SI!vars)
<1>1. CASE Next
  <2>1. PICK t \in Txn :
            \/ StartTransaction(t)
            \/ Operated(t)
            \/ Moved(t)
            \/ \E committed, r, n, gone : Leaves(t, committed) /\ Removes(t, committed, r, n, gone)
    BY <1>1, StepKinds
  <2>2. SI!Begin(t) \/ SI!Write(t) \/ SI!Commit(t) \/ SI!Abort(t) \/ UNCHANGED SI!vars
    BY <2>1, StartRefines, OperatedRefines, MovedRefines, RemovedRefines
  <2> QED
    BY <2>2 DEF SI!Next
<1>2. CASE UNCHANGED vars
  <2>1. /\ phase' = phase /\ start_time' = start_time /\ transaction_id' = transaction_id
        /\ commit_id' = commit_id /\ current_start_timestamp' = current_start_timestamp
        /\ transaction_lock' = transaction_lock /\ map' = map /\ undo' = undo
    BY <1>2 DEF vars
  <2>2. Ended' = Ended /\ Reading' = Reading /\ Before' = Before
    BY <2>1 DEF Ended, Reading, Before
  <2>3. StoreKept
    BY <2>1, <2>2 DEF StoreKept
  <2>4. \A u \in Txn : ViewKept(u) /\ Unseen(u)' = Unseen(u)
    BY <2>1, <2>2 DEF ViewKept, Unseen, Seers
  <2>5. \A u \in Txn : View'[u] = View[u] /\ Dirty'[u] = Dirty[u] /\ Missed'[u] = Missed[u]
    BY <2>1, <2>2, <2>4, NotConcerned
  <2> QED
    BY <2>2, <2>3, <2>5, StoreSame, StutterRefines
<1> QED
  BY <1>1, <1>2
-----------------------------------------------------------------------------
(* An ALTER finds its entry again.                                         *)

\* Who sees the same still finds the entry.
LEMMA StillFound ==
  ASSUME CInv, Mapped, Mapped', AlterFound, NEW u \in Txn, phase'[u] = phase[u], todo'[u] = todo[u], ViewKept(u),
         Next_(u, "alter")'
  PROVE  Finds(u, Object(Head(todo[u]).name))'
<1>1. Next_(u, "alter")
  BY DEF Next_
<1>2. phase[u] = "active" /\ Head(todo[u]) \in AlterOps
  BY <1>1, NextAlter
<1> DEFINE key == Object(Head(todo[u]).name)
<1>3. key \in Key
  BY <1>2 DEF AlterOps, Key
<1>4. Finds(u, key)
  BY <1>1 DEF AlterFound
<1> HIDE DEF key
<1>5. SeenIn(map[key], Seers(u)) # <<>>
  BY <1>2, <1>3, <1>4 DEF Mapped
<1>6. SeenIn(map'[key], Seers(u)') # <<>>
  BY <1>3, <1>5 DEF ViewKept
<1>7. \A k \in Key : phase'[u] = "active" => (Finds(u, k)' <=> SeenIn(map'[k], Seers(u)') # <<>>)
  BY DEF Mapped
<1>8. Found(map'[key], Data(u)')
  BY <1>2, <1>3, <1>6, <1>7 DEF Finds
<1> QED
  BY <1>8 DEF Finds, key

\* Nothing takes the entry away in the meantime.
LEMMA StepAlterFound ==
  ASSUME CInv, CInv', SInv, Mapped, Mapped', AlterFound, [Next]_vars
  PROVE  AlterFound'
<1> SUFFICES ASSUME NEW u \in Txn, Next_(u, "alter")' PROVE Finds(u, Object(Head(todo[u]).name))'
  BY DEF AlterFound
<1>0. phase'[u] = "active" /\ todo'[u] # <<>> /\ Head(todo'[u]).op = "alter"
  BY DEF Next_
<1>1. CASE Next
  <2>1. PICK t \in Txn :
            \/ StartTransaction(t)
            \/ Operated(t)
            \/ Moved(t)
            \/ \E committed, r, n, gone : Leaves(t, committed) /\ Removes(t, committed, r, n, gone)
    BY <1>1, StepKinds
  <2>2. CASE StartTransaction(t)
    <3>1. phase[t] = "idle" /\ todo' = todo /\ phase' = [phase EXCEPT ![t] = "active"]
      BY <2>2 DEF StartTransaction
    <3>2. u # t
      BY <1>0, <3>1 DEF SInv
    <3>3. phase'[u] = phase[u]
      BY <3>1, <3>2 DEF CInv, Types
    <3>4. ViewKept(u)
      BY <2>2, <3>2, StartViews
    <3> QED
      BY <3>1, <3>3, <3>4, StillFound
  <2>3. CASE Operated(t)
    <3>1. CASE u # t
      <4>1. ViewKept(u) /\ phase'[u] = phase[u] /\ todo'[u] = todo[u]
        BY <2>3, <3>1, OperatedViews DEF Operated
      <4> QED
        BY <4>1, StillFound
    <3>2. CASE u = t
      <4>1. todo'[t] \notin Seq(OtherOps)
        BY <1>0, <3>2, HeadTailProperties, OpFields
      <4>2. map' = map /\ \E a \in AlterOps : todo'[t] = <<a>> /\ Finds(t, Object(a.name))
        BY <2>3, <4>1 DEF Operated
      <4>3. Data(t)' = Data(t)
        BY <2>3 DEF Operated, PhasesKept, clocks, Data
      <4>4. PICK a \in AlterOps : todo'[t] = <<a>> /\ Finds(t, Object(a.name))
        BY <4>2
      <4>5. Head(todo'[t]) = a
        BY <4>4
      <4> QED
        BY <3>2, <4>2, <4>3, <4>4, <4>5 DEF Finds
    <3> QED
      BY <3>1, <3>2
  <2>4. CASE Moved(t)
    <3>1. u # t
      BY <1>0, <2>4 DEF Moved
    <3>2. ViewKept(u) /\ phase'[u] = phase[u] /\ todo' = todo
      BY <2>4, <3>1, MovedViews, MovedKeeps DEF Moved
    <3> QED
      BY <3>2, StillFound
  <2>5. ASSUME NEW committed, NEW r, NEW n, NEW gone, Leaves(t, committed), Removes(t, committed, r, n, gone)
        PROVE  Finds(u, Object(Head(todo[u]).name))'
    <3>1. phase'[u] = IF u = t THEN "ended" ELSE phase[u]
      BY <2>5, Forgotten
    <3>2. u # t /\ phase'[u] = phase[u] /\ u \in Running \ {t}
      BY <1>0, <3>1 DEF Running
    <3>3. ViewKept(u)
      BY <2>5, <3>2, RemovedOthers
    <3>4. todo' = todo
      BY <2>5 DEF Removes
    <3> QED
      BY <3>2, <3>3, <3>4, StillFound
  <2> QED
    BY <2>1, <2>2, <2>3, <2>4, <2>5
<1>2. CASE UNCHANGED vars
  <2>1. map' = map /\ todo' = todo /\ start_time' = start_time /\ transaction_id' = transaction_id /\ phase' = phase
    BY <1>2 DEF vars
  <2>2. Next_(u, "alter")
    BY <2>1 DEF Next_
  <2> QED
    BY <2>1, <2>2 DEF AlterFound, Finds, Data
<1> QED
  BY <1>1, <1>2

\* Without a conflict what is on top of the chain is what the transaction sees.
LEMMA TopIsSeen ==
  ASSUME CInv, NEW t \in Txn, phase[t] = "active", NEW key \in Key, map[key] # <<>>, Clear(map[key], t)
  PROVE  GetEntryForTransaction(map[key], Data(t)) = map[key][1]
<1> DEFINE c == map[key]
           sets == Unchanged(t)
<1>1. c \in Chains /\ Len(c) \in Nat /\ Len(c) # 0
  BY ChainElements DEF CInv, Types
<1>2. 1 \in 1..Len(c) /\ 1..1 - 1 = {}
  BY <1>1
<1>3. CASE Len(c) = 1
  BY <1>1, <1>2, <1>3, SeenIs
<1>4. CASE Len(c) > 1
  <2>1. SetsOK(sets, t) /\ sets.map = map
    BY UnchangedOK DEF Unchanged
  <2>2. ~ HasConflict(Data(t), c[1].timestamp)
    BY DEF Clear
  <2>3. Older(c[1].id, NextId(BufferOf(t, sets.undo), t), Before)
    BY <1>4, <2>1, <2>2, HeadIsOlder
  <2>4. NextId(BufferOf(t, sets.undo), t)[1] = t
    BY DEF NextId
  <2>5. 1 \in 1..Len(c) - 1
    BY <1>1, <1>4
  <2>6. c[1].id[1] \in Seers(t)
    <3>1. c[1].id[1] \in Txn
      BY <2>5, Covered DEF Ended, Running
    <3> QED
      BY <2>3, <2>4, <3>1 DEF Older, Seers
  <2>7. UseTimestamp(Data(t), c[1].timestamp)
    BY <2>5, <2>6, Covered, UseActive
  <2> QED
    BY <1>1, <1>2, <2>7, SeenIs
<1>5. Len(c) = 1 \/ Len(c) > 1
  <2>1. \A n \in Nat : n # 0 => n = 1 \/ n > 1
    OBVIOUS
  <2> HIDE DEF c
  <2> QED
    BY <1>1, <2>1
<1> QED
  BY <1>3, <1>4, <1>5

\* So the ALTER changes what it found.
LEMMA FoundAgain == CInv /\ AlterFound => AlterFindsItsEntry
<1> SUFFICES ASSUME CInv, AlterFound, NEW t \in Txn, Next_(t, "alter")
             PROVE  LET chain == map[Object(Head(todo[t]).name)] IN
                    \/ GetEntryInternal(chain, Data(t)) = "conflict"
                    \/ /\ GetEntryInternal(chain, Data(t)) = "ok"
                       /\ Head(chain) = GetEntryForTransaction(chain, Data(t))
  BY Zenon DEF AlterFindsItsEntry
<1> DEFINE key == Object(Head(todo[t]).name)
           c == map[key]
<1>1. phase[t] = "active" /\ Head(todo[t]) \in AlterOps
  BY NextAlter
<1>2. key \in Key
  BY <1>1 DEF AlterOps, Key
<1>3. Finds(t, key)
  BY DEF AlterFound
<1> HIDE DEF key
<1>4. c # <<>> /\ ~ Deleted(GetEntryForTransaction(c, Data(t)))
  BY <1>3 DEF Finds, Found
<1>5. c \in Chains /\ Head(c) = c[1]
  BY <1>2, <1>4 DEF CInv, Types
<1>6. CASE HasConflict(Data(t), c[1].timestamp)
  BY <1>4, <1>5, <1>6 DEF GetEntryInternal, key
<1>7. CASE ~ HasConflict(Data(t), c[1].timestamp)
  <2>1. GetEntryForTransaction(c, Data(t)) = c[1]
    BY <1>1, <1>2, <1>4, <1>7, TopIsSeen DEF Clear
  <2>2. GetEntryInternal(c, Data(t)) = "ok"
    BY <1>4, <1>5, <1>7, <2>1 DEF GetEntryInternal
  <2> QED
    BY <1>5, <2>1, <2>2 DEF key
<1> QED
  BY <1>6, <1>7
-----------------------------------------------------------------------------
\* The clocks and the oldest entries.
LEMMA SightInvariant == Spec => []SInv
<1>1. Init => SInv
  BY InitSInv
<1>2. CInv /\ CInv' /\ SInv /\ [Next]_vars => SInv'
  BY StepSInv
<1> QED
  BY <1>1, <1>2, CatalogInvariant, PTL DEF Spec

\* An ALTER has found its entry.
LEMMA AlterInvariant == Spec => []AlterFound
<1>1. Init => AlterFound
  BY DEF Init, AlterFound, Next_
<1>2. CInv /\ CInv' /\ SInv /\ Mapped /\ Mapped' /\ AlterFound /\ [Next]_vars => AlterFound'
  BY StepAlterFound
<1> QED
  BY <1>1, <1>2, CatalogInvariant, SightInvariant, InvMapped, PTL DEF Spec

\* If no conflict is found when an ALTER has taken the locks, the entry on top of the
\* chain is the one that it has found before: it never alters another version, nor none.
THEOREM AlterFindsIt == Spec => []AlterFindsItsEntry
  BY CatalogInvariant, AlterInvariant, FoundAgain, PTL

\* The version chains implement snapshot isolation: whatever statements, commits,
\* rollbacks and cleanups do to them in between, every transaction reads the catalog of
\* its beginning with its own changes on top, a commit appears all at once, and of two
\* concurrent writers of an entry the second meets a conflict.
THEOREM CatalogIsSnapshotIsolated == Spec => ImplementsSnapshotIsolation
<1>1. Init /\ CInv /\ Mapped => SI!Init
  BY InitRefines
<1>2. CInv /\ CInv' /\ SInv /\ Mapped /\ Mapped' /\ [Next]_vars => [SI!Next]_(SI!vars)
  BY StepRefines
<1> QED
  BY <1>1, <1>2, CatalogInvariant, SightInvariant, InvMapped, PTL
  DEF Spec, ImplementsSnapshotIsolation, SI!Spec
-----------------------------------------------------------------------------
(* What that means for concurrent writers.                                 *)

\* The abstract specification and what each of its steps preserves.
SIP == INSTANCE SnapshotIsolationProofs WITH
        InitialStore <- [key \in Key |-> IF key \in InitialKeys THEN <<"initial">> ELSE NoEntry],
        store  <- Reads(NewTransaction),
        active <- Reading,
        view   <- [t \in Txn |-> IF t \in Reading THEN Reads(Data(t)) ELSE <<>>],
        dirty  <- [t \in Txn |-> IF t \in Reading THEN Writes(t) ELSE {}],
        missed <- [t \in Txn |-> IF t \in Reading THEN Misses(t) ELSE {}]

\* No update of the catalog is lost: no two running transactions have changed the same
\* entry, none has changed one that was committed after it began, and elsewhere it
\* finds what is committed now.
THEOREM CatalogLosesNoUpdate == Spec => []NoLostUpdate
<1>1. SI!Init => SIP!IInv
  <2>1. SI!Init => SIP!Init
    BY DEF SI!Init, SIP!Init, SI!NoView, SIP!NoView
  <2> QED
    BY <2>1, SIP!InitIInv
<1>2. SIP!IInv /\ [SI!Next]_(SI!vars) => SIP!IInv'
  <2>1. ASSUME NEW t \in Txn, SI!Begin(t) PROVE SIP!Begin(t)
    BY <2>1, Zenon DEF SI!Begin, SIP!Begin
  <2>2. ASSUME NEW t \in Txn, SI!Write(t) PROVE SIP!Write(t)
    BY <2>2, Zenon DEF SI!Write, SIP!Write
  <2>3. ASSUME NEW t \in Txn, SI!Commit(t) PROVE SIP!Commit(t)
    BY <2>3, Zenon DEF SI!Commit, SIP!Commit, SI!Leave, SIP!Leave, SI!NoView, SIP!NoView
  <2>4. ASSUME NEW t \in Txn, SI!Abort(t) PROVE SIP!Abort(t)
    BY <2>4, Zenon DEF SI!Abort, SIP!Abort, SI!Leave, SIP!Leave, SI!NoView, SIP!NoView
  <2>5. SI!Next => SIP!Next
    BY <2>1, <2>2, <2>3, <2>4 DEF SI!Next, SIP!Next
  <2>6. UNCHANGED SI!vars => UNCHANGED SIP!vars
    BY DEF SI!vars, SIP!vars
  <2> QED
    BY <2>5, <2>6, SIP!StepIInv
<1>3. SIP!IInv => NoLostUpdate
  BY DEF SIP!IInv, SIP!FirstWriterWins, SIP!ViewCurrent, NoLostUpdate, Reading
<1> QED
  BY <1>1, <1>2, <1>3, CatalogIsSnapshotIsolated, PTL DEF ImplementsSnapshotIsolation, SI!Spec
=============================================================================
