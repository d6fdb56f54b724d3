----------------------------- MODULE CatalogSet -----------------------------
(***************************************************************************)
(* The version chains of a catalog set (catalog_set.cpp).  The chain of a  *)
(* name is the sequence of its entries, the newest first; the child of an  *)
(* entry is the next one, the parent the one before it.  Operators return  *)
(* new chains; what a transaction does with them is in module Catalog.     *)
(***************************************************************************)
EXTENDS Naturals, Sequences, SequencesExt

CONSTANT TRANSACTION_ID_START

\* An entry; id stands for its address.  requires: the names it refers to.
Entry(id, type, timestamp, requires) ==
    [id |-> id, type |-> type, timestamp |-> timestamp, requires |-> requires]

Deleted(entry) == entry.type \in {"INVALID", "DELETED_ENTRY"}

\* The entry that StartChain puts below the first one of a name.
DummyNode == Entry(<<>>, "INVALID", 0, {})

\* The position in the chain of the entry at this address.
IndexOf(chain, id) == CHOOSE i \in DOMAIN chain : chain[i].id = id
-----------------------------------------------------------------------------
(* Which version a transaction sees, and which it may replace.  txn is a   *)
(* CatalogTransaction: a start time and a transaction id.                  *)

\* Mutation of HasConflict: commits since the beginning are not looked for.
HasConflict_ActiveOnly(txn, timestamp) ==
    timestamp >= TRANSACTION_ID_START /\ timestamp # txn.transaction_id

HasConflict(txn, timestamp) ==
    \/ timestamp >= TRANSACTION_ID_START /\ timestamp # txn.transaction_id
    \/ timestamp < TRANSACTION_ID_START /\ timestamp > txn.start_time

UseTimestamp(txn, timestamp) ==
    timestamp = txn.transaction_id \/ timestamp < txn.start_time

\* The newest usable entry; the last one is taken unseen.
GetEntryForTransaction(chain, txn) ==
    chain[CHOOSE i \in DOMAIN chain :
            /\ i = Len(chain) \/ UseTimestamp(txn, chain[i].timestamp)
            /\ \A j \in 1..i - 1 : ~ UseTimestamp(txn, chain[j].timestamp)]

\* GetEntry returns an entry.
Found(chain, txn) == chain # <<>> /\ ~ Deleted(GetEntryForTransaction(chain, txn))

\* GetEntryInternal: the newest entry, a conflict, or no entry.
GetEntryInternal(chain, txn) ==
    IF chain = <<>> THEN "missing"
    ELSE IF HasConflict(txn, Head(chain).timestamp) THEN "conflict"
    ELSE IF Deleted(Head(chain)) THEN "missing"
    ELSE "ok"

\* Whether a name whose chain begins with this entry can be taken.
VerifyVacancy(entry, txn) ==
    IF HasConflict(txn, entry.timestamp) THEN "conflict"
    ELSE IF ~ Deleted(entry) THEN "exists"
    ELSE "ok"

\* CreateEntryInternal up to the new entry.
Vacancy(chain, txn) == IF chain = <<>> THEN "ok" ELSE VerifyVacancy(Head(chain), txn)

\* CatalogEntryMap::UpdateEntry, after StartChain if the name is new.
UpdateEntry(chain, entry) ==
    <<entry>> \o (IF chain = <<>> THEN <<DummyNode>> ELSE chain)
-----------------------------------------------------------------------------
(* What becomes of the entry above "id", which an undo buffer points to.   *)

\* UpdateTimestamp of the parent, at commit and when a commit is reverted.
UpdateTimestamp(chain, id, timestamp) ==
    [chain EXCEPT ![IndexOf(chain, id) - 1].timestamp = timestamp]

\* Mutation of Undo: the dummy node stays.
Undo_KeepsDummy(chain, id) == RemoveAt(chain, IndexOf(chain, id) - 1)

\* Mutation of Undo: a tombstone goes with the entry above it, like a dummy node.
Undo_TakesTombstone(chain, id) ==
    LET i    == IndexOf(chain, id)
        rest == RemoveAt(chain, i - 1)
    IN  IF Deleted(chain[i]) THEN RemoveAt(rest, i - 1) ELSE rest

\* Undo: the parent is taken out, and a dummy node with it.
Undo(chain, id) ==
    LET i    == IndexOf(chain, id)
        rest == RemoveAt(chain, i - 1)
    IN  IF chain[i].type = "INVALID" THEN RemoveAt(rest, i - 1) ELSE rest

\* CleanupEntry: the entry itself goes, and its parent if that is a tombstone
\* with nothing above or below.
CleanupEntry(chain, id) ==
    LET i    == IndexOf(chain, id)
        rest == RemoveAt(chain, i)
    IN  IF Deleted(chain[i - 1]) /\ Len(rest) = 1 THEN <<>> ELSE rest
=============================================================================
