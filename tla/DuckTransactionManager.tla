----------------------- MODULE DuckTransactionManager -----------------------
(***************************************************************************)
(* The transaction manager of an attached database                         *)
(* (duck_transaction_manager.cpp, duck_transaction.cpp,                    *)
(* meta_transaction.cpp): timestamps, the three lists a transaction object *)
(* lives in, and the garbage collection of its undo buffer.                *)
(*                                                                         *)
(* An element of Txn is one DuckTransaction object with the client that    *)
(* owns it; it is started at most once.  What a transaction writes is      *)
(* reduced to the kinds of change the manager tells apart, kept in         *)
(* changes[t].  Every handler runs under transaction_lock.  It is split    *)
(* where other threads look in or step in without the lock: the atomics    *)
(* last_commit and lowest_active_start are read by checkpoints, and queries*)
(* begin and end, changing active_query and the query number, while        *)
(* RemoveTransaction is under way.                                         *)
(***************************************************************************)
EXTENDS Naturals, Sequences, SequencesExt, TLC

CONSTANTS
    Txn, NoTxn,
    Kind,                   \* the kinds of change that transactions make
    TRANSACTION_ID_START,   \* 2^62: above every timestamp
    MAXIMUM_QUERY_ID,       \* 2^64 - 1: above every query number
    MaxQuery                \* bound: query numbers handed out

\* "append" is data in the transaction-local storage, the others are entries
\* of the undo buffer; "drop" is a catalog change with a dropped entry.
AllKinds == {"append", "delete", "update", "create", "drop", "sequence"}

\* 2^64 - 1 in the code: any number no transaction id reaches.
MAX_TRANSACTION_ID == 2 * TRANSACTION_ID_START

ASSUME ConstantsAssumption ==
    /\ NoTxn \notin Txn
    /\ Kind \subseteq AllKinds
    /\ TRANSACTION_ID_START \in Nat
    /\ MaxQuery \in Nat
    /\ MAXIMUM_QUERY_ID \in Nat /\ MAXIMUM_QUERY_ID > MaxQuery

VARIABLES
    current_start_timestamp, current_transaction_id,
    last_commit,
    lowest_active_start, lowest_active_id,
    transaction_lock,                  \* the committing transaction, or NoTxn
    active_transactions,               \* a set: only minima are taken over it
    recently_committed_transactions,
    old_transactions,
    current_query_number,              \* of the DatabaseManager
    phase,                             \* where each transaction is in its life
    start_time, transaction_id, commit_id,
    active_query, highest_active_query,
    changes,                           \* kinds of change made by each transaction
    write_lock,                        \* transactions that own a shared checkpoint lock
    query,                             \* the query the client runs now, 0 for none
    reading,                           \* undo buffers the running query may be walking
    store_transaction,                 \* locals of the RemoveTransaction under way:
    lowest_active_query, current_query,   \* 0 before they are computed
    late                               \* history: the transactions whose running query was
                                       \* announced while RemoveTransaction was under way

counters == <<current_start_timestamp, current_transaction_id, last_commit>>
lowest   == <<lowest_active_start, lowest_active_id>>
lists    == <<active_transactions, recently_committed_transactions, old_transactions>>
fields   == <<start_time, transaction_id, commit_id>>
queries  == <<current_query_number, query, reading, late>>
removal  == <<store_transaction, lowest_active_query, current_query>>
vars     == <<counters, lowest, transaction_lock, lists, phase, fields, active_query,
              highest_active_query, changes, write_lock, queries, removal>>

Phase == {"none", "starting", "running", "committing", "committed", "aborted"}

\* last_commit has no initializer: its first value is arbitrary.
Init ==
    /\ current_start_timestamp = 2
    /\ current_transaction_id = TRANSACTION_ID_START
    /\ last_commit \in {0, TRANSACTION_ID_START}
    /\ lowest_active_start = MAX_TRANSACTION_ID
    /\ lowest_active_id = TRANSACTION_ID_START
    /\ transaction_lock = NoTxn
    /\ active_transactions = {}
    /\ recently_committed_transactions = <<>>
    /\ old_transactions = <<>>
    /\ current_query_number = 1
    /\ phase = [t \in Txn |-> "none"]
    /\ start_time = [t \in Txn |-> 0]
    /\ transaction_id = [t \in Txn |-> 0]
    /\ commit_id = [t \in Txn |-> 0]
    /\ active_query = [t \in Txn |-> MAXIMUM_QUERY_ID]
    /\ highest_active_query = [t \in Txn |-> 0]
    /\ changes = [t \in Txn |-> {}]
    /\ write_lock = {}
    /\ query = [t \in Txn |-> 0]
    /\ reading = [t \in Txn |-> {}]
    /\ store_transaction = FALSE
    /\ lowest_active_query = 0
    /\ current_query = 0
    /\ late = {}

Recent == ToSet(recently_committed_transactions)
Old    == ToSet(old_transactions)

\* The undo information other transactions can be led to through pointers:
\* update chains and catalog version chains.  Cleanup and Rollback unlink it.
Versions == {"update", "create", "drop"}
Linked(t) ==
    /\ changes[t] \cap Versions # {}
    /\ phase[t] # "aborted"
    /\ t \in active_transactions \cup Recent

RemovalUnderWay == lowest_active_query # 0

\* t's query has become visible in active_query.
Announce(t) ==
    late' = IF RemovalUnderWay /\ phase[t] # "none" THEN late \cup {t} ELSE late
-----------------------------------------------------------------------------
(* Queries.                                                                *)

\* ClientContext::BeginQueryInternal: SetActiveQuery(GetNewQueryNumber()),
\* which reaches the transaction if it has been started.  No lock is needed.
BeginQuery(t) ==
    /\ query[t] = 0
    /\ phase[t] \in {"none", "running"}
    /\ current_query_number <= MaxQuery
    /\ current_query_number' = current_query_number + 1
    /\ query' = [query EXCEPT ![t] = current_query_number]
    /\ active_query' = IF phase[t] = "running"
                       THEN [active_query EXCEPT ![t] = current_query_number]
                       ELSE active_query
    /\ Announce(t)
    /\ UNCHANGED <<counters, lowest, transaction_lock, lists, phase, fields,
                   highest_active_query, changes, write_lock, reading, removal>>

\* A scan of t's query follows a version chain into the undo buffer of u.
ReadVersion(t, u) ==
    /\ phase[t] = "running"
    /\ query[t] # 0
    /\ Linked(u)
    /\ reading' = [reading EXCEPT ![t] = @ \cup {u}]
    /\ UNCHANGED <<counters, lowest, transaction_lock, lists, phase, fields, active_query,
                   highest_active_query, changes, write_lock, current_query_number, query,
                   late, removal>>

\* Mutation of EndQuery: the transaction's query number is reset to zero.
EndQuery_Clears(t) ==
    /\ phase[t] = "running"
    /\ query[t] # 0
    /\ query' = [query EXCEPT ![t] = 0]
    /\ reading' = [reading EXCEPT ![t] = {}]
    /\ late' = late \ {t}
    /\ active_query' = [active_query EXCEPT ![t] = 0]
    /\ UNCHANGED <<counters, lowest, transaction_lock, lists, phase, fields,
                   highest_active_query, changes, write_lock, current_query_number, removal>>

\* ClientContext::EndQueryInternal up to ResetActiveQuery; the commit or rollback
\* that follows in autocommit mode is an action of its own.  (A query that ends
\* without having started a transaction here is of no interest.)
EndQuery(t) ==
    /\ phase[t] = "running"
    /\ query[t] # 0
    /\ query' = [query EXCEPT ![t] = 0]
    /\ reading' = [reading EXCEPT ![t] = {}]
    /\ late' = late \ {t}
    /\ active_query' = [active_query EXCEPT ![t] = MAXIMUM_QUERY_ID]
    /\ UNCHANGED <<counters, lowest, transaction_lock, lists, phase, fields,
                   highest_active_query, changes, write_lock, current_query_number, removal>>
-----------------------------------------------------------------------------
(* Starting and changing.                                                  *)

\* Mutation of StartTransaction: every new transaction is taken for the lowest.
StartTransaction_AlwaysLowest(t) ==
    /\ phase[t] = "none"
    /\ query[t] # 0
    /\ transaction_lock = NoTxn
    /\ current_start_timestamp < TRANSACTION_ID_START
    /\ phase' = [phase EXCEPT ![t] = "starting"]
    /\ start_time' = [start_time EXCEPT ![t] = current_start_timestamp]
    /\ transaction_id' = [transaction_id EXCEPT ![t] = current_transaction_id]
    /\ current_start_timestamp' = current_start_timestamp + 1
    /\ current_transaction_id' = current_transaction_id + 1
    /\ lowest_active_start' = current_start_timestamp
    /\ lowest_active_id' = current_transaction_id
    /\ active_transactions' = active_transactions \cup {t}
    /\ UNCHANGED <<last_commit, transaction_lock, recently_committed_transactions,
                   old_transactions, commit_id, active_query, highest_active_query,
                   changes, write_lock, queries, removal>>

\* MetaTransaction::GetTransaction calls StartTransaction ...
StartTransaction(t) ==
    /\ phase[t] = "none"
    /\ query[t] # 0
    /\ transaction_lock = NoTxn
    /\ current_start_timestamp < TRANSACTION_ID_START
    /\ phase' = [phase EXCEPT ![t] = "starting"]
    /\ start_time' = [start_time EXCEPT ![t] = current_start_timestamp]
    /\ transaction_id' = [transaction_id EXCEPT ![t] = current_transaction_id]
    /\ current_start_timestamp' = current_start_timestamp + 1
    /\ current_transaction_id' = current_transaction_id + 1
    /\ IF active_transactions = {}
       THEN /\ lowest_active_start' = current_start_timestamp
            /\ lowest_active_id' = current_transaction_id
       ELSE UNCHANGED lowest
    /\ active_transactions' = active_transactions \cup {t}
    /\ UNCHANGED <<last_commit, transaction_lock, recently_committed_transactions,
                   old_transactions, commit_id, active_query, highest_active_query,
                   changes, write_lock, queries, removal>>

\* ... and stores the query number into the transaction only afterwards.
GetTransaction(t) ==
    /\ phase[t] = "starting"
    /\ phase' = [phase EXCEPT ![t] = "running"]
    /\ active_query' = [active_query EXCEPT ![t] = query[t]]
    /\ Announce(t)
    /\ UNCHANGED <<counters, lowest, transaction_lock, lists, fields, highest_active_query,
                   changes, write_lock, current_query_number, query, reading, removal>>

\* MetaTransaction::ModifyDatabase: the shared checkpoint lock is taken once.
SetReadWrite(t) ==
    /\ phase[t] = "running"
    /\ query[t] # 0
    /\ t \notin write_lock
    /\ write_lock' = write_lock \cup {t}
    /\ UNCHANGED <<counters, lowest, transaction_lock, lists, phase, fields, active_query,
                   highest_active_query, changes, queries, removal>>

\* Local storage or an undo entry of the given kind.
MakeChange(t, k) ==
    /\ phase[t] = "running"
    /\ query[t] # 0
    /\ t \in write_lock
    /\ k \notin changes[t]
    /\ changes' = [changes EXCEPT ![t] = @ \cup {k}]
    /\ UNCHANGED <<counters, lowest, transaction_lock, lists, phase, fields, active_query,
                   highest_active_query, write_lock, queries, removal>>
-----------------------------------------------------------------------------
(* Ending.                                                                 *)

\* The elements of 1..n before the first one in stops.
PrefixBefore(n, stops) == IF stops = {} THEN n ELSE Min(stops) - 1

\* Mutation of LowestStart: the transaction that ends still counts.
LowestStart_CountsSelf(others) ==
    Min({TRANSACTION_ID_START} \cup {start_time[u] : u \in active_transactions})

LowestStart(others) == Min({TRANSACTION_ID_START} \cup {start_time[u] : u \in others})
LowestId(others) == Min({MAX_TRANSACTION_ID} \cup {transaction_id[u] : u \in others})
LowestQuery(others) == Min({MAXIMUM_QUERY_ID} \cup {active_query[u] : u \in others})

\* Mutation of Cleanable: start times are compared instead of commit ids.
Cleanable_ByStart(s, lowest_start_time) ==
    PrefixBefore(Len(s), {i \in 1..Len(s) : ~ (start_time[s[i]] < lowest_start_time)})

\* How many of the recently committed transactions s can be cleaned up: the
\* loop stops at the first one that some active transaction still depends on.
Cleanable(s, lowest_start_time) ==
    PrefixBefore(Len(s), {i \in 1..Len(s) : ~ (commit_id[s[i]] < lowest_start_time)})

\* How many of the old transactions s can be freed.
Freeable(s, highest, others) ==
    IF others = {} THEN Len(s)
    ELSE PrefixBefore(Len(s), {i \in 1..Len(s) : highest[s[i]] >= lowest_active_query})

\* Mutation of HighestActiveQuery: the stamp is forgotten.
HighestActiveQuery_Missing(moved) == highest_active_query

\* Mutation of HighestActiveQuery: stamped with the transaction's start time.
HighestActiveQuery_StartTime(moved) ==
    [u \in Txn |-> IF u \in moved THEN start_time[u] ELSE highest_active_query[u]]

\* Transactions moved to old_transactions remember the query number that
\* RemoveTransaction has read.
HighestActiveQuery(moved) ==
    [u \in Txn |-> IF u \in moved THEN current_query ELSE highest_active_query[u]]

\* RemoveTransaction(transaction, store_transaction): the minima over the other
\* active transactions ...
ScanActive(t, store) ==
    LET others == active_transactions \ {t} IN
    /\ lowest_active_start' = LowestStart(others)
    /\ lowest_active_id' = LowestId(others)
    /\ lowest_active_query' = LowestQuery(others)
    /\ store_transaction' = store
    /\ UNCHANGED <<lists, highest_active_query, write_lock, current_query>>

\* ... the query number ...
ReadQueryNumber(t) ==
    /\ transaction_lock = t
    /\ RemovalUnderWay
    /\ current_query = 0
    /\ current_query' = current_query_number
    /\ UNCHANGED <<counters, lowest, transaction_lock, lists, phase, fields, active_query,
                   highest_active_query, changes, write_lock, queries, store_transaction,
                   lowest_active_query>>

\* ... and the lists.  Dropping the last reference to a transaction object
\* releases its shared checkpoint lock.
RemoveTransaction(t) ==
    LET others  == active_transactions \ {t}
        recent  == IF store_transaction /\ commit_id[t] # 0
                   THEN Append(recently_committed_transactions, t)
                   ELSE recently_committed_transactions
        aborted == IF store_transaction /\ commit_id[t] = 0 THEN <<t>> ELSE <<>>
        n       == Cleanable(recent, lowest_active_start)
        cleaned == SubSeq(recent, 1, n)
        old     == old_transactions \o aborted \o cleaned
        highest == HighestActiveQuery(ToSet(aborted) \cup ToSet(cleaned))
        m       == Freeable(old, highest, others)
    IN  /\ transaction_lock = t
        /\ current_query # 0
        /\ transaction_lock' = NoTxn
        /\ active_transactions' = others
        /\ recently_committed_transactions' = SubSeq(recent, n + 1, Len(recent))
        /\ old_transactions' = SubSeq(old, m + 1, Len(old))
        /\ highest_active_query' = highest
        /\ write_lock' = write_lock \cap (active_transactions' \cup Recent' \cup Old')
        /\ store_transaction' = FALSE
        /\ lowest_active_query' = 0
        /\ current_query' = 0
        /\ UNCHANGED <<counters, lowest, phase, fields, active_query, changes, queries>>

\* Mutation of CommitTimestamp: the start time serves as commit id.
CommitTimestamp_ReusesStart(t) ==
    /\ phase[t] = "running"
    /\ query[t] = 0
    /\ transaction_lock = NoTxn
    /\ transaction_lock' = t
    /\ phase' = [phase EXCEPT ![t] = "committing"]
    /\ commit_id' = [commit_id EXCEPT ![t] = start_time[t]]
    /\ last_commit' = start_time[t]
    /\ UNCHANGED <<current_start_timestamp, current_transaction_id, lowest, lists, start_time,
                   transaction_id, active_query, highest_active_query, changes, write_lock,
                   queries, removal>>

\* CommitTransaction up to the commit timestamp.
CommitTimestamp(t) ==
    /\ phase[t] = "running"
    /\ query[t] = 0
    /\ transaction_lock = NoTxn
    /\ transaction_lock' = t
    /\ phase' = [phase EXCEPT ![t] = "committing"]
    /\ commit_id' = [commit_id EXCEPT ![t] = current_start_timestamp]
    /\ last_commit' = current_start_timestamp
    /\ current_start_timestamp' = current_start_timestamp + 1
    /\ UNCHANGED <<current_transaction_id, lowest, lists, start_time, transaction_id,
                   active_query, highest_active_query, changes, write_lock, queries, removal>>

\* DuckTransaction::Commit succeeds.
CommitSucceeds(t) ==
    /\ phase[t] = "committing"
    /\ phase' = [phase EXCEPT ![t] = "committed"]
    /\ ScanActive(t, changes[t] \cap Versions # {})
    /\ UNCHANGED <<counters, transaction_lock, fields, active_query, changes, queries>>

\* It fails while flushing, committing or writing the log: the transaction is
\* rolled back instead and loses its commit id.
CommitFails(t) ==
    /\ phase[t] = "committing"
    /\ changes[t] # {}
    /\ phase' = [phase EXCEPT ![t] = "aborted"]
    /\ commit_id' = [commit_id EXCEPT ![t] = 0]
    /\ ScanActive(t, TRUE)
    /\ UNCHANGED <<counters, transaction_lock, start_time, transaction_id, active_query,
                   changes, queries>>

\* Rollback discards the local storage, so ChangesMade() is then about the
\* undo buffer only.
RollbackTransaction(t) ==
    /\ phase[t] = "running"
    /\ query[t] = 0
    /\ transaction_lock = NoTxn
    /\ transaction_lock' = t
    /\ phase' = [phase EXCEPT ![t] = "aborted"]
    /\ ScanActive(t, changes[t] \ {"append"} # {})
    /\ UNCHANGED <<counters, fields, active_query, changes, queries>>
-----------------------------------------------------------------------------
Next == \E t \in Txn :
    \/ BeginQuery(t)
    \/ \E u \in Txn : ReadVersion(t, u)
    \/ EndQuery(t)
    \/ StartTransaction(t)
    \/ GetTransaction(t)
    \/ SetReadWrite(t)
    \/ \E k \in Kind : MakeChange(t, k)
    \/ CommitTimestamp(t)
    \/ CommitSucceeds(t)
    \/ CommitFails(t)
    \/ RollbackTransaction(t)
    \/ ReadQueryNumber(t)
    \/ RemoveTransaction(t)

Spec == Init /\ [][Next]_vars
-----------------------------------------------------------------------------
(* Properties.                                                             *)

\* Every variable holds a value of its type.
TypeOK ==
    /\ current_start_timestamp \in Nat /\ current_transaction_id \in Nat
    /\ last_commit \in Nat
    /\ lowest_active_start \in Nat /\ lowest_active_id \in Nat
    /\ transaction_lock \in Txn \cup {NoTxn}
    /\ active_transactions \subseteq Txn
    /\ recently_committed_transactions \in Seq(Txn)
    /\ old_transactions \in Seq(Txn)
    /\ current_query_number \in 1..MaxQuery + 1
    /\ phase \in [Txn -> Phase]
    /\ start_time \in [Txn -> Nat] /\ transaction_id \in [Txn -> Nat]
    /\ commit_id \in [Txn -> Nat]
    /\ active_query \in [Txn -> 1..MAXIMUM_QUERY_ID]
    /\ highest_active_query \in [Txn -> Nat]
    /\ changes \in [Txn -> SUBSET AllKinds]
    /\ write_lock \subseteq Txn
    /\ query \in [Txn -> 0..MaxQuery]
    /\ reading \in [Txn -> SUBSET Txn]
    /\ store_transaction \in BOOLEAN
    /\ lowest_active_query \in 0..MAXIMUM_QUERY_ID
    /\ current_query \in 0..MaxQuery + 1
    /\ late \subseteq Txn

\* "recently_committed_transactions is ordered on commit_id implicitly": the
\* early exit of the loop in RemoveTransaction relies on it, although nothing
\* sorts the list and failed commits leave gaps in it.
RecentlyCommittedOrdered ==
    \A i, j \in 1..Len(recently_committed_transactions) :
        i < j => commit_id[recently_committed_transactions[i]]
                     < commit_id[recently_committed_transactions[j]]

\* The loop that frees old_transactions stops at the first one in use and so
\* relies on that list being ordered on highest_active_query, whether its
\* members committed or aborted.
OldTransactionsOrdered ==
    \A i, j \in 1..Len(old_transactions) :
        i < j => highest_active_query[old_transactions[i]]
                     <= highest_active_query[old_transactions[j]]

\* Condition (2) of UndoBuffer::Cleanup for updates and catalog changes: as
\* long as an active transaction began before a commit, that commit's undo
\* buffer is still linked and not cleaned up.
UndoKeptWhileNeeded ==
    \A u \in active_transactions, t \in Txn :
        phase[t] = "committed" /\ changes[t] \cap Versions # {} /\ start_time[u] < commit_id[t]
            => Linked(t)

\* "we can only safely do the actual memory cleanup when all the currently
\* active queries have finished running": no query walks a freed undo buffer,
\* even one it reached before the buffer was unlinked, provided that the query
\* was not announced in the middle of a RemoveTransaction.
UndoMemorySafe ==
    \A t \in Txn \ late : reading[t] \subseteq active_transactions \cup Recent \cup Old

\* When no transaction is active nothing is left to collect and the checkpoint
\* lock has no shared owner, whatever order the transactions ended in.
NothingAwaitsWhenIdle ==
    active_transactions = {} =>
        /\ recently_committed_transactions = <<>>
        /\ old_transactions = <<>>
        /\ write_lock = {}

\* The transactions that have not ended yet.
Live == {t \in active_transactions : phase[t] \notin {"committed", "aborted"}}

\* The atomic lowest_active_start, which checkpoints and committed scans read
\* without the lock, is the start time of the oldest live transaction, also
\* while RemoveTransaction is under way.
LowestActiveStartExact ==
    Live # {} =>
        /\ \E t \in Live : start_time[t] = lowest_active_start
        /\ \A t \in Live : lowest_active_start <= start_time[t]
=============================================================================
