--------------------------- MODULE UpdateSegment ---------------------------
(***************************************************************************)
(* The updates of one vector of a column (update_segment.cpp).  The newest *)
(* values are kept in the base info; behind it hangs a chain with one node *)
(* per transaction that holds the values it replaced.  A reader takes the  *)
(* newest values and puts back what it must not see, along the chain.      *)
(***************************************************************************)
EXTENDS Naturals, Sequences, FiniteSetsExt, Functions

CONSTANT NoUpdates      \* the vector has never been updated

\* A node of the chain; owner says whose undo buffer holds it.
Node(t, version, old) == [owner |-> t, version_number |-> version, old |-> old]

\* f with the entries of g in place of its own.
Over(f, g) == [x \in DOMAIN f \cup DOMAIN g |-> IF x \in DOMAIN g THEN g[x] ELSE f[x]]

\* UpdatesForTransaction: a node that txn must not see, so its old values count.
Applies(node, txn) ==
    /\ node.version_number > txn.start_time
    /\ node.version_number # txn.transaction_id

\* FetchUpdates: the value of row i for txn, where raw is the value in the
\* segment.  The base info always applies; along the chain the oldest node wins.
FetchUpdates(seg, i, txn, raw) ==
    IF seg = NoUpdates THEN raw
    ELSE LET nodes == {n \in DOMAIN seg.chain :
                          Applies(seg.chain[n], txn) /\ i \in DOMAIN seg.chain[n].old}
         IN  IF nodes # {} THEN seg.chain[Max(nodes)].old[i]
             ELSE IF i \in DOMAIN seg.base THEN seg.base[i]
             ELSE raw

\* FetchCommitted: the base info alone.
FetchCommitted(seg, i, raw) ==
    IF seg # NoUpdates /\ i \in DOMAIN seg.base THEN seg.base[i] ELSE raw

\* Mutation of CheckForConflicts: only the newest node is looked at.
CheckForConflicts_Newest(seg, rows, txn) ==
    seg # NoUpdates /\ seg.chain # <<>> /\ Applies(seg.chain[1], txn)
                    /\ rows \cap DOMAIN seg.chain[1].old # {}

\* CheckForConflicts: a node that txn does not see has one of the rows.
CheckForConflicts(seg, rows, txn) ==
    seg # NoUpdates /\ \E n \in DOMAIN seg.chain :
        Applies(seg.chain[n], txn) /\ rows \cap DOMAIN seg.chain[n].old # {}

\* Update of the rows to value, without conflicts; raw are the segment's
\* values.  The transaction's own node is reused or a new one put in front.
UpdateRows(seg, t, txn, rows, value, raw) ==
    LET new   == [i \in rows |-> value]
        own   == {n \in DOMAIN seg.chain : seg.chain[n].owner = t}
        kept  == [i \in rows |-> FetchCommitted(seg, i, raw[i])]
        chain == IF own # {}
                 THEN [n \in DOMAIN seg.chain |->
                          IF n \in own THEN [seg.chain[n] EXCEPT !.old = Over(kept, @)]
                          ELSE seg.chain[n]]
                 ELSE <<Node(t, txn.transaction_id, kept)>> \o seg.chain
    IN  IF seg = NoUpdates
        THEN [base |-> new, chain |-> <<Node(t, txn.transaction_id, [i \in rows |-> raw[i]])>>]
        ELSE [base |-> Over(seg.base, new), chain |-> chain]

OwnNode(seg, t) == CHOOSE n \in DOMAIN seg.chain : seg.chain[n].owner = t

\* The node of t gets the version number id (CommitEntry and RevertCommit).
SetVersion(seg, t, id) == [seg EXCEPT !.chain[OwnNode(seg, t)].version_number = id]

\* CleanupUpdate: the node of t is taken out of the chain.
CleanupUpdate(seg, t) == [seg EXCEPT !.chain = SelectSeq(@, LAMBDA node : node.owner # t)]

\* RollbackUpdate: its values go back to the base info, then it is taken out.
RollbackUpdate(seg, t) ==
    CleanupUpdate([seg EXCEPT !.base = Over(@, seg.chain[OwnNode(seg, t)].old)], t)
=============================================================================
