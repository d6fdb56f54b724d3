------------------------------ MODULE Catalog ------------------------------
(***************************************************************************)
(* Transactions that create, drop, alter and rename the entries of a       *)
(* catalog (catalog_set.cpp) and the dependency manager that keeps, in two *)
(* catalog sets of its own, who depends on whom (dependency_manager.cpp).  *)
(* A statement is a list of operations, each of which takes the write lock *)
(* of the catalog anew; other transactions come in between.  Commit,       *)
(* rollback and cleanup go through the undo buffers entry by entry.        *)
(***************************************************************************)
EXTENDS CatalogSet

CONSTANTS
    Txn,
    Name,               \* names of schemas, sequences, tables, indexes, ...
    Index,              \* those that are dropped along with what they depend on
    DependsOn,          \* what an entry of each name may refer to
    Creates,            \* the CREATEs: a name, what the entry refers to, OR REPLACE or not
    Drops,              \* the DROPs: a name, CASCADE or not
    Alters,             \* the ALTERs: of a name, to this or a new name, additive or not
    InitialCatalog,     \* the first entries: a function from names to names
    NoTxn, NoEntry,
    MaxStatements,      \* bound: statements of all transactions
    MaxFaults           \* bound: commits that fail, each in place of a statement

ASSUME CatalogConstants ==
    /\ TRANSACTION_ID_START \in Nat /\ 2 < TRANSACTION_ID_START
    /\ IsFiniteSet(Name) /\ Index \subseteq Name /\ DOMAIN InitialCatalog \subseteq Name
    /\ \A n \in Name : DependsOn[n] \subseteq Name \ {n}
    /\ \A n \in DOMAIN InitialCatalog : InitialCatalog[n] \subseteq DependsOn[n] \cap DOMAIN InitialCatalog
    /\ Creates \subseteq [name : Name, requires : SUBSET Name, replace : BOOLEAN]
    /\ \A c \in Creates : c.requires \subseteq DependsOn[c.name]
    /\ Drops \subseteq [name : Name, cascade : BOOLEAN]
    /\ Alters \subseteq [name : Name, new : Name, additive : BOOLEAN]
    /\ \A a \in Alters : /\ a.additive => a.new = a.name
                       /\ DependsOn[a.name] \subseteq DependsOn[a.new]
    /\ NoTxn \notin Txn

VARIABLES
    phase, start_time, transaction_id, commit_id,
    current_start_timestamp, current_transaction_id,
    transaction_lock,   \* the transaction that commits or rolls back
    map,                \* the chains of all the catalog sets
    undo,               \* pairs of a key and the entry that was covered
    at,                 \* the entries that the commit or rollback has done
    todo,               \* what is left of the statement of each transaction
    statements,
    recently_committed, \* whose undo buffers await their cleanup
    faults

vars == <<phase, start_time, transaction_id, commit_id, current_start_timestamp,
          current_transaction_id, transaction_lock, map, undo, at, todo, statements,
          recently_committed, faults>>
clocks == <<start_time, transaction_id, commit_id, current_start_timestamp, current_transaction_id>>

\* The keys of the entries themselves, and of the two sets in which a dependency
\* is registered: under its subject and under its dependent.
Object(n)        == <<"object", n>>
Dependents(s, d) == <<"dependents", s, d>>
Subjects(d, s)   == <<"subjects", d, s>>

Dependency == {p \in Name \X Name : p[1] \in DependsOn[p[2]]}
Key == {Object(n) : n \in Name}
        \cup {Dependents(p[1], p[2]) : p \in Dependency}
        \cup {Subjects(p[2], p[1]) : p \in Dependency}

\* The CatalogTransaction of t, and what it finds.
Data(t) == [start_time |-> start_time[t], transaction_id |-> transaction_id[t]]
Finds(t, key) == Found(map[key], Data(t))

\* The entries that are there when the database is opened.
InitialKeys ==
    UNION {{Object(n)} \cup UNION {{Dependents(s, n), Subjects(n, s)} : s \in InitialCatalog[n]}
               : n \in DOMAIN InitialCatalog}
InitialEntry(key) ==
    Entry(<<"initial">>, "ENTRY", 1, IF key[1] = "object" THEN InitialCatalog[key[2]] ELSE {})

Running == {t \in Txn : phase[t] \notin {"idle", "ended"}}

Init ==
    /\ phase = [t \in Txn |-> "idle"]
    /\ start_time = [t \in Txn |-> 0] /\ transaction_id = [t \in Txn |-> 0]
    /\ commit_id = [t \in Txn |-> 0]
    /\ current_start_timestamp = 2 /\ current_transaction_id = TRANSACTION_ID_START
    /\ transaction_lock = NoTxn
    /\ map = [key \in Key |-> IF key \in InitialKeys THEN <<InitialEntry(key)>> ELSE <<>>]
    /\ undo = [t \in Txn |-> <<>>] /\ at = 0
    /\ todo = [t \in Txn |-> <<>>]
    /\ statements = 0
    /\ recently_committed = <<>>
    /\ faults = 0
-----------------------------------------------------------------------------
(* The operations of which statements consist.                             *)

CreateOp(key, requires) == [op |-> "create", key |-> key, requires |-> requires]
DropOp(key)             == [op |-> "drop", key |-> key]
UnlinkOp(key)           == [op |-> "unlink", key |-> key]
LinkOp(s, d)            == [op |-> "link", subject |-> s, dependent |-> d]
DropEntryOp(n, cascade) == [op |-> "DropEntry", name |-> n, cascade |-> cascade]
AlterOp(n, m, additive) ==
    [op |-> "alter", name |-> n, new |-> m, additive |-> additive]
AlterObjectOp(n, m, additive) ==
    [op |-> "AlterObject", name |-> n, new |-> m, additive |-> additive]

\* The lists of operations, one after the other in some order.
ForEach(ops) ==
    LET order == SetToSeq(DOMAIN ops)
        list[n \in 0..Len(order)] == IF n = 0 THEN <<>> ELSE list[n - 1] \o ops[order[n]]
    IN  list[Len(order)]

\* Mutation of RemoveDependency: the subject side stays.
RemoveDependency_OneSide(s, d) == <<UnlinkOp(Dependents(s, d))>>

\* DependencyManager::RemoveDependency.
RemoveDependency(s, d) == <<UnlinkOp(Dependents(s, d)), UnlinkOp(Subjects(d, s))>>

\* ScanSubjects and ScanDependents.
SubjectsOf(t, n)   == {s \in DependsOn[n] : Finds(t, Subjects(n, s))}
DependentsOf(t, n) == {d \in Name : n \in DependsOn[d] /\ Finds(t, Dependents(n, d))}

CleanupDependencies(t, n) ==
    ForEach([s \in SubjectsOf(t, n) |-> RemoveDependency(s, n)])
        \o ForEach([d \in DependentsOf(t, n) |-> RemoveDependency(n, d)])
-----------------------------------------------------------------------------
(* A transaction begins; it executes one statement after the other.        *)

StartTransaction(t) ==
    /\ phase[t] = "idle" /\ transaction_lock = NoTxn
    /\ current_start_timestamp < TRANSACTION_ID_START
    /\ phase' = [phase EXCEPT ![t] = "active"]
    /\ start_time' = [start_time EXCEPT ![t] = current_start_timestamp]
    /\ transaction_id' = [transaction_id EXCEPT ![t] = current_transaction_id]
    /\ current_start_timestamp' = current_start_timestamp + 1
    /\ current_transaction_id' = current_transaction_id + 1
    /\ UNCHANGED <<commit_id, transaction_lock, map, undo, at, todo, statements, recently_committed, faults>>

Statement(t, ops) ==
    /\ phase[t] = "active" /\ todo[t] = <<>>
    /\ statements + faults < MaxStatements
    /\ statements' = statements + 1
    /\ todo' = [todo EXCEPT ![t] = ops]
    /\ UNCHANGED <<phase, clocks, transaction_lock, map, undo, at, recently_committed, faults>>

\* DuckSchemaEntry::AddEntryInternal, of an entry that refers to S.  The binder
\* has found what the entry refers to.  OR REPLACE drops an entry that exists.
Create(t, n, S, replace) ==
    /\ \A s \in S : Finds(t, Object(s))
    /\ Statement(t, (IF replace /\ Finds(t, Object(n)) THEN <<DropEntryOp(n, FALSE)>> ELSE <<>>)
                        \o ForEach([s \in S |-> <<LinkOp(s, n)>>])
                        \o <<CreateOp(Object(n), S)>>)

\* DuckSchemaEntry::DropEntry.
Drop(t, n, cascade) ==
    /\ Finds(t, Object(n))
    /\ Statement(t, <<DropEntryOp(n, cascade)>>)

\* CatalogSet::AlterEntry until the locks are taken.  "additive": the kinds of
\* change (a new column, a comment) that AlterObject allows in spite of dependents.
Alter(t, n, m, additive) ==
    /\ Finds(t, Object(n))
    /\ Statement(t, <<AlterOp(n, m, additive)>>)
-----------------------------------------------------------------------------
(* The steps of a statement.                                               *)

\* The sets as the statement of t leaves them, and whether it may go on.
Unchanged(t) == [map |-> map, undo |-> undo[t], status |-> "ok"]

\* A new entry on top of a chain, and the entry below it in the undo buffer.
Put(sets, t, key, status, type, requires) ==
    IF sets.status # "ok" THEN sets
    ELSE IF status # "ok" THEN [sets EXCEPT !.status = status]
    ELSE LET entry == Entry(<<t, Len(sets.undo) + 1>>, type, transaction_id[t], requires)
             chain == UpdateEntry(sets.map[key], entry)
         IN  [map    |-> [sets.map EXCEPT ![key] = chain],
              undo   |-> Append(sets.undo, [key |-> key, child |-> chain[2].id]),
              status |-> "ok"]

PutCreate(sets, t, key, type, requires) ==
    Put(sets, t, key, Vacancy(sets.map[key], Data(t)), type, requires)
PutDrop(sets, t, key) ==
    Put(sets, t, key, GetEntryInternal(sets.map[key], Data(t)), "DELETED_ENTRY", {})

\* The operation of t ends with these sets.  A conflict makes the transaction
\* invalid; that an entry exists, or not, ends the statement or is ignored.
EndOperation(t, sets, rest) ==
    /\ map' = sets.map
    /\ undo' = [undo EXCEPT ![t] = sets.undo]
    /\ phase' = [phase EXCEPT ![t] = IF sets.status = "conflict" THEN "invalid" ELSE @]
    /\ todo' = [todo EXCEPT ![t] = IF sets.status = "conflict" THEN <<>> ELSE rest]
    /\ UNCHANGED <<clocks, transaction_lock, at, statements, recently_committed, faults>>

Next_(t, op) == phase[t] = "active" /\ todo[t] # <<>> /\ Head(todo[t]).op = op

\* CatalogSet::CreateEntry, for an object or for half of a link.
CreateEntry(t) ==
    LET op == Head(todo[t]) IN
    /\ Next_(t, "create")
    /\ EndOperation(t, PutCreate(Unchanged(t), t, op.key, "ENTRY", op.requires), Tail(todo[t]))

\* DropEntryInternal, after the dependencies of an object have been dropped.
DropEntry(t) ==
    /\ Next_(t, "drop")
    /\ EndOperation(t, PutDrop(Unchanged(t), t, Head(todo[t]).key), Tail(todo[t]))

\* Half of a link is dropped if the transaction finds it.
Unlink(t) ==
    LET key == Head(todo[t]).key IN
    /\ Next_(t, "unlink")
    /\ EndOperation(t, IF Finds(t, key) THEN PutDrop(Unchanged(t), t, key) ELSE Unchanged(t),
                    Tail(todo[t]))

DropIfFound(t, key) == IF Finds(t, key) THEN <<DropOp(key)>> ELSE <<>>

\* DependencyManager::CreateDependency: a link that is found is replaced.
CreateDependency(t) ==
    LET s == Head(todo[t]).subject
        d == Head(todo[t]).dependent
    IN  /\ Next_(t, "link")
        /\ EndOperation(t, Unchanged(t),
                DropIfFound(t, Subjects(d, s)) \o DropIfFound(t, Dependents(s, d))
                    \o <<CreateOp(Dependents(s, d), {}), CreateOp(Subjects(d, s), {})>>
                    \o Tail(todo[t]))

\* The transaction becomes invalid; its statement ends.
Fail(t) ==
    /\ phase' = [phase EXCEPT ![t] = "invalid"]
    /\ todo' = [todo EXCEPT ![t] = <<>>]
    /\ UNCHANGED <<clocks, transaction_lock, map, undo, at, statements, recently_committed, faults>>

\* CatalogSet::DropDependencies and DependencyManager::DropObject: dependents
\* block the drop or are dropped too, and all links are removed.
DropDependencies(t) ==
    LET n          == Head(todo[t]).name
        dependents == {d \in DependentsOf(t, n) : Finds(t, Object(d))}
        cascaded   == IF Head(todo[t]).cascade THEN dependents ELSE dependents \cap Index
        ops        == IF ~ Finds(t, Object(n)) THEN <<>>
                      ELSE CleanupDependencies(t, n)
                              \o ForEach([d \in cascaded |-> <<DropEntryOp(d, Head(todo[t]).cascade)>>])
                              \o <<DropOp(Object(n))>>
    IN  /\ Next_(t, "DropEntry")
        /\ \/ dependents # cascaded /\ Fail(t)
           \/ dependents = cascaded /\ EndOperation(t, Unchanged(t), ops \o Tail(todo[t]))

\* The locked part of AlterEntry.  The entry is looked up again; a rename leaves
\* a RENAMED_ENTRY and a tombstone under the old name, and begins the new one with
\* a RENAMED_ENTRY.  If the new name is taken the statement ends with an error.
AlterEntry(t) ==
    LET op       == Head(todo[t])
        n        == Object(op.name)
        m        == Object(op.new)
        found    == GetEntryInternal(map[n], Data(t))
        requires == GetEntryForTransaction(map[n], Data(t)).requires
        renamed  == PutCreate(PutDrop(Put(Unchanged(t), t, n, found, "RENAMED_ENTRY", {}), t, n),
                              t, m, "RENAMED_ENTRY", {})
        moved    == IF m = n THEN [Unchanged(t) EXCEPT !.status = found] ELSE renamed
    IN  /\ Next_(t, "alter")
        /\ IF found = "ok" /\ m # n /\ Finds(t, m)
           THEN EndOperation(t, Unchanged(t), <<>>)
           ELSE EndOperation(t, Put(moved, t, m, "ok", "ENTRY", requires),
                             <<AlterObjectOp(op.name, op.new, op.additive)>>)

\* Mutation of AlterObject: the links to the subjects are not made anew.
AlterObject_LosesSubjects(t) ==
    LET op       == Head(todo[t])
        cleanup  == IF op.new = op.name THEN <<>> ELSE CleanupDependencies(t, op.name)
    IN  /\ Next_(t, "AlterObject")
        /\ \/ DependentsOf(t, op.name) # {} /\ ~ op.additive /\ Fail(t)
           \/ /\ DependentsOf(t, op.name) = {} \/ op.additive
              /\ EndOperation(t, Unchanged(t),
                    cleanup \o ForEach([d \in DependentsOf(t, op.name) |-> <<LinkOp(op.new, d)>>]))

\* DependencyManager::AlterObject: dependents forbid the change or their links are
\* made anew, as are those to the subjects, under the new name.
AlterObject(t) ==
    LET op       == Head(todo[t])
        cleanup  == IF op.new = op.name THEN <<>> ELSE CleanupDependencies(t, op.name)
        subjects == {s \in SubjectsOf(t, op.name) : Finds(t, Object(s))}
    IN  /\ Next_(t, "AlterObject")
        /\ \/ DependentsOf(t, op.name) # {} /\ ~ op.additive /\ Fail(t)
           \/ /\ DependentsOf(t, op.name) = {} \/ op.additive
              /\ EndOperation(t, Unchanged(t),
                    cleanup \o ForEach([d \in DependentsOf(t, op.name) |-> <<LinkOp(op.new, d)>>])
                            \o ForEach([s \in subjects |-> <<LinkOp(s, op.new)>>]))
-----------------------------------------------------------------------------
(* The end of a transaction.                                               *)

\* The last conjunct of the guard is a bound: the code looks at the limit of the
\* timestamps when a transaction starts, and never gets near it.
BeginCommit(t) ==
    /\ phase[t] = "active" /\ todo[t] = <<>> /\ transaction_lock = NoTxn
    /\ current_start_timestamp < TRANSACTION_ID_START
    /\ transaction_lock' = t
    /\ phase' = [phase EXCEPT ![t] = "committing"]
    /\ commit_id' = [commit_id EXCEPT ![t] = current_start_timestamp]
    /\ current_start_timestamp' = current_start_timestamp + 1
    /\ at' = 0
    /\ UNCHANGED <<start_time, transaction_id, current_transaction_id, map, undo, todo, statements,
                   recently_committed, faults>>

Stamp(m, e, timestamp) == [m EXCEPT ![e.key] = UpdateTimestamp(m[e.key], e.child, timestamp)]

\* CommitState::CommitEntry: the entry that was put on top gets its timestamp.
CommitEntry(t) ==
    /\ phase[t] = "committing" /\ at < Len(undo[t])
    /\ map' = Stamp(map, undo[t][at + 1], commit_id[t])
    /\ at' = at + 1
    /\ UNCHANGED <<phase, clocks, transaction_lock, undo, todo, statements, recently_committed, faults>>

\* Writing an entry to the log, or flushing it, fails; the entries so far and the
\* one that failed are given back the id of the transaction.
CommitFails(t) ==
    LET reverted[n \in 0..Len(undo[t])] ==
            IF n = 0 THEN map ELSE Stamp(reverted[n - 1], undo[t][n], transaction_id[t]) IN
    /\ phase[t] = "committing" /\ undo[t] # <<>>
    /\ faults < MaxFaults /\ statements + faults < MaxStatements
    /\ map' = reverted[Min({at + 1, Len(undo[t])})]
    /\ phase' = [phase EXCEPT ![t] = "rolling_back"]
    /\ commit_id' = [commit_id EXCEPT ![t] = 0]
    /\ at' = Len(undo[t])
    /\ faults' = faults + 1
    /\ UNCHANGED <<start_time, transaction_id, current_start_timestamp, current_transaction_id,
                   transaction_lock, undo, todo, statements, recently_committed>>

\* Mutation of RollbackTransaction: the transaction lock is not waited for.
RollbackTransaction_Unlocked(t) ==
    /\ phase[t] \in {"active", "invalid"} /\ todo[t] = <<>>
    /\ transaction_lock' = t
    /\ phase' = [phase EXCEPT ![t] = "rolling_back"]
    /\ at' = Len(undo[t])
    /\ UNCHANGED <<clocks, map, undo, todo, statements, recently_committed, faults>>

RollbackTransaction(t) ==
    /\ phase[t] \in {"active", "invalid"} /\ todo[t] = <<>> /\ transaction_lock = NoTxn
    /\ transaction_lock' = t
    /\ phase' = [phase EXCEPT ![t] = "rolling_back"]
    /\ at' = Len(undo[t])
    /\ UNCHANGED <<clocks, map, undo, todo, statements, recently_committed, faults>>

\* UndoBuffer::Rollback, the last entry first.
RollbackEntry(t) ==
    LET e == undo[t][at] IN
    /\ phase[t] = "rolling_back" /\ at > 0
    /\ map' = [map EXCEPT ![e.key] = Undo(@, e.child)]
    /\ at' = at - 1
    /\ UNCHANGED <<phase, clocks, transaction_lock, undo, todo, statements, recently_committed, faults>>

\* Mutation of LowestStart: nobody else is looked at.
LowestStart_None(t) == TRANSACTION_ID_START

LowestStart(t) == Min({start_time[u] : u \in Running \ {t}} \cup {TRANSACTION_ID_START})

\* How many of the committed transactions nobody can miss any more.
Cleanable(recent, lowest) ==
    LET kept == {n \in DOMAIN recent : commit_id[recent[n]] >= lowest}
    IN  Min(kept \cup {Len(recent) + 1}) - 1

CleanupOf(m, e) == [m EXCEPT ![e.key] = CleanupEntry(m[e.key], e.child)]

\* UndoBuffer::Cleanup, the first entry first.
CleanupBuffer(m, buffer) ==
    LET cleaned[n \in 0..Len(buffer)] == IF n = 0 THEN m ELSE CleanupOf(cleaned[n - 1], buffer[n])
    IN  cleaned[Len(buffer)]

\* DuckTransaction::Cleanup of these transactions, in the order of their commits.
Cleanup(done) ==
    LET cleaned[n \in 0..Len(done)] ==
            IF n = 0 THEN map ELSE CleanupBuffer(cleaned[n - 1], undo[done[n]])
    IN  cleaned[Len(done)]

Forget(T, f, nothing) == [u \in Txn |-> IF u \in T THEN nothing ELSE f[u]]

\* RemoveTransaction: a commit with changes is kept until nobody needs its undo
\* buffer.
RemoveTransaction(t, committed) ==
    LET store  == committed /\ undo[t] # <<>>
        recent == IF store THEN Append(recently_committed, t) ELSE recently_committed
        n      == Cleanable(recent, LowestStart(t))
        done   == SubSeq(recent, 1, n)
        gone   == ToSet(done) \cup (IF store THEN {} ELSE {t})
    IN  /\ map' = Cleanup(done)
        /\ recently_committed' = SubSeq(recent, n + 1, Len(recent))
        /\ phase' = [phase EXCEPT ![t] = "ended"]
        /\ transaction_lock' = NoTxn
        /\ at' = 0
        /\ undo' = Forget(gone, undo, <<>>)
        /\ start_time' = Forget(gone, start_time, 0)
        /\ transaction_id' = Forget(gone, transaction_id, 0)
        /\ commit_id' = Forget(gone, commit_id, 0)
        /\ UNCHANGED <<current_start_timestamp, current_transaction_id, todo, statements, faults>>

FinishCommit(t) ==
    /\ phase[t] = "committing" /\ at = Len(undo[t])
    /\ RemoveTransaction(t, TRUE)

EndRollback(t) ==
    /\ phase[t] = "rolling_back" /\ at = 0
    /\ RemoveTransaction(t, FALSE)

Next ==
    \E t \in Txn :
        \/ StartTransaction(t)
        \/ \E c \in Creates : Create(t, c.name, c.requires, c.replace)
        \/ \E d \in Drops : Drop(t, d.name, d.cascade)
        \/ \E a \in Alters : Alter(t, a.name, a.new, a.additive)
        \/ CreateEntry(t) \/ DropEntry(t) \/ Unlink(t) \/ CreateDependency(t) \/ DropDependencies(t)
        \/ AlterEntry(t) \/ AlterObject(t)
        \/ BeginCommit(t) \/ CommitEntry(t) \/ CommitFails(t) \/ FinishCommit(t)
        \/ RollbackTransaction(t) \/ RollbackEntry(t) \/ EndRollback(t)

Spec == Init /\ [][Next]_vars
-----------------------------------------------------------------------------
(* What the transactions find, as the abstract specification sees it.      *)

Reading == {t \in Txn : phase[t] \in {"active", "committing"}}

\* A commit in progress still counts as its transaction.
Committing == transaction_lock # NoTxn /\ phase[transaction_lock] = "committing"
PendingTimestamp(timestamp) ==
    IF Committing /\ timestamp = commit_id[transaction_lock]
    THEN transaction_id[transaction_lock] ELSE timestamp
Pending(chain) ==
    IF Committing THEN [i \in DOMAIN chain |-> [chain[i] EXCEPT !.timestamp = PendingTimestamp(@)]]
    ELSE chain

\* Whoever begins now.
NewTransaction == [start_time |-> current_start_timestamp, transaction_id |-> 2 * TRANSACTION_ID_START]

Reads(txn) ==
    [key \in Key |-> LET chain == Pending(map[key])
                         entry == GetEntryForTransaction(chain, txn)
                     IN  IF chain = <<>> \/ Deleted(entry) THEN NoEntry ELSE entry.id]

Writes(t) == {undo[t][n].key : n \in DOMAIN undo[t]}

Misses(t) ==
    {key \in Key : \E i \in DOMAIN map[key] :
        LET timestamp == PendingTimestamp(map[key][i].timestamp)
        IN  start_time[t] < timestamp /\ timestamp < TRANSACTION_ID_START}

SI == INSTANCE SnapshotIsolation WITH
        InitialStore <- [key \in Key |-> IF key \in InitialKeys THEN <<"initial">> ELSE NoEntry],
        store  <- Reads(NewTransaction),
        active <- Reading,
        view   <- [t \in Txn |-> IF t \in Reading THEN Reads(Data(t)) ELSE <<>>],
        dirty  <- [t \in Txn |-> IF t \in Reading THEN Writes(t) ELSE {}],
        missed <- [t \in Txn |-> IF t \in Reading THEN Misses(t) ELSE {}]
-----------------------------------------------------------------------------
(* Properties.                                                             *)

\* Every variable holds a value of its type; one transaction at a time commits or
\* rolls back; the address of an entry occurs once in its chain.
TypeOK ==
    /\ phase \in [Txn -> {"idle", "active", "invalid", "committing", "rolling_back", "ended"}]
    /\ transaction_lock \in Txn \cup {NoTxn}
    /\ \A t \in Txn : phase[t] \in {"committing", "rolling_back"} <=> transaction_lock = t
    /\ transaction_lock # NoTxn => at \in 0..Len(undo[transaction_lock])
    /\ DOMAIN map = Key
    /\ \A key \in Key : \A i, j \in DOMAIN map[key] : map[key][i].id = map[key][j].id => i = j

\* The version chains, with all the steps in which statements, commits, rollbacks
\* and cleanups change them, give every transaction the catalog of its beginning
\* with its own changes on top, and the first writer of an entry its way.
ImplementsSnapshotIsolation == SI!Spec

\* No lost update, which is what HasConflict is for: an entry that a transaction has
\* changed no other running one has changed, and nobody has committed a change of it
\* since the transaction began, although that change may be far down the chain by
\* then; and what it finds elsewhere is what a new transaction finds, unless a commit
\* has changed it since.
NoLostUpdate ==
    \A t \in Reading : \A key \in Key :
        IF key \in Writes(t)
        THEN key \notin Misses(t) /\ \A u \in Reading \ {t} : key \notin Writes(u)
        ELSE key \in Misses(t) \/ Reads(Data(t))[key] = Reads(NewTransaction)[key]

\* The entries of an undo buffer that its commit, rollback or cleanup has yet to
\* look at.
Left(t) == IF phase[t] = "rolling_back" THEN SubSeq(undo[t], 1, at) ELSE undo[t]

\* "D_ASSERT(catalog_entry->HasParent())": the entry that an undo buffer points to
\* is still in its chain, below the one that its transaction has put there; no
\* rollback or cleanup of another transaction frees either.
UndoPointersValid ==
    \A t \in Txn : \A n \in DOMAIN Left(t) :
        LET e == Left(t)[n] IN
        \E i \in DOMAIN map[e.key] :
            /\ i > 1 /\ map[e.key][i].id = e.child
            /\ map[e.key][i - 1].id = <<t, n>>

\* "fetch the entry again before doing the modification": if that finds no conflict
\* it finds the entry that was altered outside the locks, and never none.
AlterFindsItsEntry ==
    \A t \in Txn : Next_(t, "alter") =>
        LET chain == map[Object(Head(todo[t]).name)] IN
        \/ GetEntryInternal(chain, Data(t)) = "conflict"
        \/ /\ GetEntryInternal(chain, Data(t)) = "ok"
           /\ Head(chain) = GetEntryForTransaction(chain, Data(t))

\* "Every dependency should have a matching dependent in the other set": whoever is
\* between two statements, or begins now, finds both halves of a link or neither.
LinksMatch ==
    \A p \in Dependency :
        /\ \A t \in Txn : phase[t] = "active" /\ todo[t] = <<>> =>
            (Finds(t, Dependents(p[1], p[2])) <=> Finds(t, Subjects(p[2], p[1])))
        /\ transaction_lock = NoTxn =>
            (Found(map[Dependents(p[1], p[2])], NewTransaction)
                <=> Found(map[Subjects(p[2], p[1])], NewTransaction))

\* What a committed entry refers to is registered, so that a later DROP meets it.
DependenciesRegistered ==
    transaction_lock = NoTxn => \A n \in Name :
        Found(map[Object(n)], NewTransaction) =>
            \A s \in GetEntryForTransaction(map[Object(n)], NewTransaction).requires :
                Found(map[Dependents(s, n)], NewTransaction)

\* When no transaction is running at most one entry of each name is left, and that
\* is not a dummy node: every version was cleaned up by a commit, a rollback, or by
\* whoever came last.
NoVersionsWhenIdle ==
    Running = {} => \A key \in Key :
        Len(map[key]) <= 1 /\ \A i \in DOMAIN map[key] : map[key][i].type # "INVALID"

\* "check for each object in the sources if they were not deleted yet": no entry is
\* committed that refers to an entry that is not there.
NoDanglingReference ==
    transaction_lock = NoTxn => \A n \in Name :
        Found(map[Object(n)], NewTransaction) =>
            \A s \in GetEntryForTransaction(map[Object(n)], NewTransaction).requires :
                Found(map[Object(s)], NewTransaction)
=============================================================================
