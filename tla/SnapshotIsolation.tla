------------------------- MODULE SnapshotIsolation -------------------------
(***************************************************************************)
(* What the versions of a table promise to transactions: every transaction *)
(* reads the store as it was when the transaction began, with its own      *)
(* writes on top; it may write a key only if no concurrent transaction has *)
(* written it; its writes reach the store all at once.                     *)
(***************************************************************************)
CONSTANTS Txn, Key, InitialStore

VARIABLES
    store,      \* the committed value of each key
    active,     \* the transactions that are running
    view,       \* what each active transaction reads
    dirty,      \* the keys that each active transaction has written
    missed      \* the keys that others have committed since it began

vars == <<store, active, view, dirty, missed>>

\* The record of a transaction that is not active.
NoView == <<>>

Init ==
    /\ store = InitialStore
    /\ active = {}
    /\ view = [t \in Txn |-> NoView]
    /\ dirty = [t \in Txn |-> {}]
    /\ missed = [t \in Txn |-> {}]

Begin(t) ==
    /\ t \notin active
    /\ active' = active \cup {t}
    /\ view' = [view EXCEPT ![t] = store]
    /\ UNCHANGED <<store, dirty, missed>>

\* t writes: the keys that it had not written before and the ones whose value
\* changes.
Write(t) ==
    /\ t \in active
    /\ UNCHANGED active
    /\ LET old == view[t]
           new == view'[t]
           K   == (dirty'[t] \ dirty[t]) \cup {k \in Key : new[k] # old[k]}
       IN  /\ DOMAIN new = Key
           /\ K # {}
           /\ view' = [view EXCEPT ![t] = new]
           /\ dirty' = [dirty EXCEPT ![t] = @ \cup K]
           /\ \A u \in active \ {t} : K \cap dirty[u] = {}
           /\ K \cap missed[t] = {}
    /\ UNCHANGED <<store, missed>>

Leave(t) ==
    /\ t \in active
    /\ active' = active \ {t}
    /\ view' = [view EXCEPT ![t] = NoView]
    /\ dirty' = [dirty EXCEPT ![t] = {}]

Commit(t) ==
    /\ Leave(t)
    /\ store' = [k \in Key |-> IF k \in dirty[t] THEN view[t][k] ELSE store[k]]
    /\ missed' = [u \in Txn |-> IF u = t THEN {}
                                ELSE IF u \in active THEN missed[u] \cup dirty[t] ELSE missed[u]]

Abort(t) ==
    /\ Leave(t)
    /\ missed' = [missed EXCEPT ![t] = {}]
    /\ UNCHANGED store

Next == \E t \in Txn : Begin(t) \/ Write(t) \/ Commit(t) \/ Abort(t)

Spec == Init /\ [][Next]_vars
=============================================================================
