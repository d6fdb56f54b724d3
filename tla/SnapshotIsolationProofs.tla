---------------------- MODULE SnapshotIsolationProofs ----------------------
(***************************************************************************)
(* What every step of the abstract specification preserves, for any sets   *)
(* of transactions and keys.  CatalogProofs draws from it, by way of the   *)
(* refinement, what it means for the version chains of the catalog.        *)
(***************************************************************************)
EXTENDS SnapshotIsolation, TLAPS

\* First writer wins: no two active transactions have written the same key, and
\* none has written a key that was committed after it began.
FirstWriterWins ==
    /\ \A t, u \in active : t # u => dirty[t] \cap dirty[u] = {}
    /\ \A t \in active : dirty[t] \cap missed[t] = {}

\* A key that an active transaction neither wrote nor missed still has the
\* value in the store that the transaction reads.
ViewCurrent ==
    \A t \in active : \A k \in Key \ (dirty[t] \cup missed[t]) : view[t][k] = store[k]

\* The variables are functions on the transactions, and nothing is remembered of
\* a transaction that is not active.
Clean ==
    /\ active \subseteq Txn
    /\ view = [t \in Txn |-> view[t]]
    /\ dirty = [t \in Txn |-> dirty[t]]
    /\ missed = [t \in Txn |-> missed[t]]
    /\ \A t \in Txn \ active : dirty[t] = {} /\ missed[t] = {}

IInv == Clean /\ FirstWriterWins /\ ViewCurrent

\* The first state: no transaction is active.
LEMMA InitIInv == Init => IInv
  BY DEF Init, IInv, Clean, FirstWriterWins, ViewCurrent
-----------------------------------------------------------------------------
\* A transaction begins with the store as its view, and has missed nothing.
LEMMA BeginIInv ==
  ASSUME IInv, NEW t \in Txn, Begin(t)
  PROVE  IInv'
<1>1. /\ active' = active \cup {t} /\ dirty' = dirty /\ missed' = missed /\ store' = store
      /\ \A u \in Txn : view'[u] = IF u = t THEN store ELSE view[u]
      /\ view' = [u \in Txn |-> view'[u]]
  BY DEF Begin, IInv, Clean
<1>2. dirty[t] = {} /\ missed[t] = {} /\ t \notin active
  BY DEF Begin, IInv, Clean
<1>3. Clean'
  BY <1>1, <1>2 DEF IInv, Clean
<1>4. FirstWriterWins'
  BY <1>1, <1>2 DEF IInv, FirstWriterWins
<1>5. ViewCurrent'
  BY <1>1, <1>2 DEF IInv, Clean, ViewCurrent
<1> QED
  BY <1>3, <1>4, <1>5 DEF IInv

\* A write touches only keys that nobody else has written.
LEMMA WriteIInv ==
  ASSUME IInv, NEW t \in Txn, Write(t)
  PROVE  IInv'
<1> DEFINE K == (dirty'[t] \ dirty[t]) \cup {k \in Key : view'[t][k] # view[t][k]}
<1>1. /\ t \in active /\ active' = active /\ missed' = missed /\ store' = store
      /\ \A u \in Txn : u # t => view'[u] = view[u] /\ dirty'[u] = dirty[u]
      /\ view' = [u \in Txn |-> view'[u]] /\ dirty' = [u \in Txn |-> dirty'[u]]
  BY DEF Write, IInv, Clean
<1>2. dirty'[t] = dirty[t] \cup K
  BY DEF Write, IInv, Clean
<1>3. K \cap missed[t] = {} /\ \A u \in active \ {t} : K \cap dirty[u] = {}
  BY DEF Write
<1> HIDE DEF K
<1>4. Clean'
  BY <1>1 DEF IInv, Clean
<1>5. FirstWriterWins'
  <2>1. \A u \in active \ {t} : dirty'[t] \cap dirty'[u] = {}
    BY <1>1, <1>2, <1>3 DEF IInv, Clean, FirstWriterWins
  <2>2. dirty'[t] \cap missed'[t] = {}
    BY <1>1, <1>2, <1>3 DEF IInv, FirstWriterWins
  <2> QED
    BY <1>1, <2>1, <2>2 DEF IInv, Clean, FirstWriterWins
<1>6. ViewCurrent'
  <2>1. \A k \in Key \ dirty'[t] : view'[t][k] = view[t][k]
    BY <1>2 DEF K
  <2>2. dirty[t] \subseteq dirty'[t]
    BY <1>2
  <2> QED
    BY <1>1, <2>1, <2>2 DEF IInv, Clean, ViewCurrent
<1> QED
  BY <1>4, <1>5, <1>6 DEF IInv
-----------------------------------------------------------------------------
\* What a transaction that leaves does to the records of the others.
LEMMA LeaveClears ==
  ASSUME IInv, NEW t \in Txn, Leave(t)
  PROVE  /\ t \in active /\ active' = active \ {t}
         /\ \A u \in Txn : u # t => view'[u] = view[u] /\ dirty'[u] = dirty[u]
         /\ dirty'[t] = {}
         /\ view' = [u \in Txn |-> view'[u]] /\ dirty' = [u \in Txn |-> dirty'[u]]
  BY DEF Leave, IInv, Clean

\* The keys of a commit are missed by all others that are active.
LEMMA CommitIInv ==
  ASSUME IInv, NEW t \in Txn, Commit(t)
  PROVE  IInv'
<1>1. /\ t \in active /\ active' = active \ {t}
      /\ \A u \in Txn : u # t => view'[u] = view[u] /\ dirty'[u] = dirty[u]
      /\ dirty'[t] = {}
      /\ view' = [u \in Txn |-> view'[u]] /\ dirty' = [u \in Txn |-> dirty'[u]]
  BY LeaveClears DEF Commit
<1>2. /\ missed' = [u \in Txn |-> missed'[u]]
      /\ missed'[t] = {}
      /\ \A u \in active \ {t} : missed'[u] = missed[u] \cup dirty[t]
      /\ \A u \in Txn \ active : missed'[u] = missed[u]
  BY <1>1 DEF Commit, IInv, Clean
<1>3. \A k \in Key \ dirty[t] : store'[k] = store[k]
  BY DEF Commit
<1>4. Clean'
  BY <1>1, <1>2 DEF IInv, Clean
<1>5. FirstWriterWins'
  BY <1>1, <1>2 DEF IInv, Clean, FirstWriterWins
<1>6. ViewCurrent'
  <2> SUFFICES ASSUME NEW u \in active', NEW k \in Key, k \notin dirty'[u] \cup missed'[u]
               PROVE  view'[u][k] = store'[k]
    BY DEF ViewCurrent
  <2>1. u \in active \ {t} /\ u \in Txn
    BY <1>1 DEF IInv, Clean
  <2>2. view'[u] = view[u] /\ dirty'[u] = dirty[u] /\ missed'[u] = missed[u] \cup dirty[t]
    BY <2>1, <1>1, <1>2
  <2>3. store'[k] = store[k]
    BY <2>2, <1>3
  <2> QED
    BY <2>1, <2>2, <2>3 DEF IInv, ViewCurrent
<1> QED
  BY <1>4, <1>5, <1>6 DEF IInv

\* An abort leaves no trace.
LEMMA AbortIInv ==
  ASSUME IInv, NEW t \in Txn, Abort(t)
  PROVE  IInv'
<1>1. /\ t \in active /\ active' = active \ {t}
      /\ \A u \in Txn : u # t => view'[u] = view[u] /\ dirty'[u] = dirty[u]
      /\ dirty'[t] = {}
      /\ view' = [u \in Txn |-> view'[u]] /\ dirty' = [u \in Txn |-> dirty'[u]]
  BY LeaveClears DEF Abort
<1>2. /\ missed' = [u \in Txn |-> missed'[u]]
      /\ missed'[t] = {}
      /\ \A u \in Txn : u # t => missed'[u] = missed[u]
      /\ store' = store
  BY DEF Abort, IInv, Clean
<1>3. Clean'
  BY <1>1, <1>2 DEF IInv, Clean
<1>4. FirstWriterWins'
  BY <1>1, <1>2 DEF IInv, Clean, FirstWriterWins
<1>5. ViewCurrent'
  BY <1>1, <1>2 DEF IInv, Clean, ViewCurrent
<1> QED
  BY <1>3, <1>4, <1>5 DEF IInv
-----------------------------------------------------------------------------
\* Every step preserves the three.
LEMMA StepIInv ==
  ASSUME IInv, [Next]_vars
  PROVE  IInv'
<1>1. CASE Next
  BY <1>1, BeginIInv, WriteIInv, CommitIInv, AbortIInv DEF Next
<1>2. CASE UNCHANGED vars
  BY <1>2 DEF vars, IInv, Clean, FirstWriterWins, ViewCurrent
<1> QED
  BY <1>1, <1>2
=============================================================================
