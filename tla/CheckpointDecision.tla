------------------------- MODULE CheckpointDecision -------------------------
(***************************************************************************)
(* Checkpoints and transactions: DuckTransactionManager composed with its  *)
(* checkpoint_lock, the start_transaction_lock and the three ways to begin *)
(* a checkpoint (duck_transaction_manager.cpp): CHECKPOINT, FORCE          *)
(* CHECKPOINT, and the automatic checkpoint of a committing transaction.   *)
(* The lock is the abstract SharedExclusiveLock that StorageLock           *)
(* implements: its shared owners are write_lock, its exclusive owner is    *)
(* checkpoint_owner.                                                       *)
(*                                                                         *)
(* What matters of a checkpoint is its type: a FULL_CHECKPOINT vacuums     *)
(* deleted rows (RowGroupCollection::InitializeVacuumState), a             *)
(* CONCURRENT_CHECKPOINT keeps them.                                       *)
(***************************************************************************)
EXTENDS DuckTransactionManager

CONSTANTS Checkpointer,  \* the thread that runs CHECKPOINT statements
          Automatic      \* whether the log grows enough for automatic checkpoints

ASSUME CheckpointerAssumption ==
    Checkpointer \notin Txn \cup {NoTxn} /\ Automatic \in BOOLEAN

VARIABLES
    checkpoint_owner,        \* who owns the exclusive checkpoint lock
    start_transaction_lock,  \* held by a waiting FORCE CHECKPOINT
    decision,                \* CheckpointDecision of each committing transaction
    checkpoint,              \* where the checkpointer is
    loaded                   \* the atomics it has read so far

cvars == <<checkpoint_owner, start_transaction_lock, decision, checkpoint, loaded>>
allvars == <<vars, cvars>>

Unread == [operand \in {} |-> 0]

CInit ==
    /\ Init
    /\ checkpoint_owner = NoTxn
    /\ start_transaction_lock = FALSE
    /\ decision = [t \in Txn |-> "undecided"]
    /\ checkpoint = "idle"
    /\ loaded = Unread
-----------------------------------------------------------------------------
(* Transactions.                                                           *)

CStartTransaction(t) ==
    /\ ~ start_transaction_lock
    /\ StartTransaction(t)
    /\ UNCHANGED cvars

\* Mutation of CSetReadWrite: the exclusive owner is not waited for.
CSetReadWrite_NoWait(t) ==
    /\ SetReadWrite(t)
    /\ UNCHANGED cvars

\* GetSharedLock waits for the owner of the exclusive lock.
CSetReadWrite(t) ==
    /\ checkpoint_owner = NoTxn
    /\ SetReadWrite(t)
    /\ UNCHANGED cvars

\* The type CanCheckpoint arrives at once it has the lock: only what this
\* transaction itself has changed counts.
CheckpointType(t) ==
    LET others == active_transactions \ {t} IN
    IF others = {} \/ changes[t] \cap {"update", "delete", "drop"} = {} THEN "full"
    ELSE IF changes[t] \cap {"update", "drop"} # {} THEN "no"
    ELSE "concurrent"

\* CanCheckpoint finds a reason to checkpoint and upgrades the shared lock.
CanCheckpoint(t) ==
    /\ Automatic
    /\ phase[t] = "committing"
    /\ decision[t] = "undecided"
    /\ changes[t] # {}
    /\ checkpoint_owner = NoTxn
    /\ write_lock = {t}
    /\ checkpoint_owner' = t
    /\ decision' = [decision EXCEPT ![t] = CheckpointType(t)]
    /\ UNCHANGED <<vars, start_transaction_lock, checkpoint, loaded>>

\* There is no reason to checkpoint, or the lock cannot be upgraded.
CannotCheckpoint(t) ==
    /\ phase[t] = "committing"
    /\ decision[t] = "undecided"
    /\ decision' = [decision EXCEPT ![t] = "no"]
    /\ UNCHANGED <<vars, checkpoint_owner, start_transaction_lock, checkpoint, loaded>>

\* The exclusive lock is given back if there will be no checkpoint after all,
\* before the transaction is removed.
ReleaseIf(t, none) ==
    checkpoint_owner' = IF none /\ checkpoint_owner = t THEN NoTxn ELSE checkpoint_owner

CCommitSucceeds(t) ==
    /\ decision[t] # "undecided"
    /\ CommitSucceeds(t)
    /\ ReleaseIf(t, decision[t] = "no")
    /\ UNCHANGED <<start_transaction_lock, decision, checkpoint, loaded>>

CCommitFails(t) ==
    /\ decision[t] # "undecided"
    /\ CommitFails(t)
    /\ decision' = [decision EXCEPT ![t] = "no"]
    /\ ReleaseIf(t, TRUE)
    /\ UNCHANGED <<start_transaction_lock, checkpoint, loaded>>

\* The checkpoint that follows the commit of t, once transaction_lock is free,
\* is running, and is over.
Checkpointing(t) ==
    /\ phase[t] = "committed"
    /\ t \notin active_transactions
    /\ decision[t] \in {"full", "concurrent"}

AutomaticCheckpointEnds(t) ==
    /\ Checkpointing(t)
    /\ decision' = [decision EXCEPT ![t] = "no"]
    /\ checkpoint_owner' = NoTxn
    /\ UNCHANGED <<vars, start_transaction_lock, checkpoint, loaded>>
-----------------------------------------------------------------------------
(* Checkpoint(context, force).                                             *)

\* TryGetExclusiveLock; a failure raises an exception and changes nothing.
LockFree == checkpoint_owner = NoTxn /\ write_lock = {}

TryCheckpoint ==
    /\ checkpoint = "idle"
    /\ LockFree
    /\ checkpoint_owner' = Checkpointer
    /\ checkpoint' = "loading"
    /\ UNCHANGED <<vars, start_transaction_lock, decision, loaded>>

ForceCheckpoint ==
    /\ checkpoint = "idle"
    /\ start_transaction_lock' = TRUE
    /\ checkpoint' = "forcing"
    /\ UNCHANGED <<vars, checkpoint_owner, decision, loaded>>

ForceLocks ==
    /\ checkpoint = "forcing"
    /\ LockFree
    /\ checkpoint_owner' = Checkpointer
    /\ start_transaction_lock' = FALSE
    /\ checkpoint' = "loading"
    /\ UNCHANGED <<vars, decision, loaded>>

\* Mutation of ForceInterrupted: new transactions stay locked out.
ForceInterrupted_KeepsLock ==
    /\ checkpoint = "forcing"
    /\ checkpoint' = "idle"
    /\ UNCHANGED <<vars, checkpoint_owner, start_transaction_lock, decision, loaded>>

ForceInterrupted ==
    /\ checkpoint = "forcing"
    /\ start_transaction_lock' = FALSE
    /\ checkpoint' = "idle"
    /\ UNCHANGED <<vars, checkpoint_owner, decision, loaded>>

\* The operands of GetLastCommit() > LowestActiveStart() are two atomic loads
\* in either order, without any lock that committing transactions need.
LoadOperand ==
    /\ checkpoint = "loading"
    /\ \E next \in {"last", "low"} \ DOMAIN loaded :
          loaded' = [operand \in DOMAIN loaded \cup {next} |->
                        IF operand # next THEN loaded[operand]
                        ELSE IF next = "last" THEN last_commit ELSE lowest_active_start]
    /\ UNCHANGED <<vars, checkpoint_owner, start_transaction_lock, decision, checkpoint>>

\* Mutation of ChooseType: the active transactions are not considered.
ChooseType_AlwaysFull ==
    /\ checkpoint = "loading"
    /\ DOMAIN loaded = {"last", "low"}
    /\ checkpoint' = "full"
    /\ loaded' = Unread
    /\ UNCHANGED <<vars, checkpoint_owner, start_transaction_lock, decision>>

ChooseType ==
    /\ checkpoint = "loading"
    /\ DOMAIN loaded = {"last", "low"}
    /\ checkpoint' = IF loaded.last > loaded.low THEN "concurrent" ELSE "full"
    /\ loaded' = Unread
    /\ UNCHANGED <<vars, checkpoint_owner, start_transaction_lock, decision>>

CheckpointEnds ==
    /\ checkpoint \in {"full", "concurrent"}
    /\ checkpoint' = "idle"
    /\ checkpoint_owner' = NoTxn
    /\ UNCHANGED <<vars, start_transaction_lock, decision, loaded>>
-----------------------------------------------------------------------------
\* Reading version chains (ReadVersion) does not touch any of this state.
TxnNext(t) ==
    \/ BeginQuery(t) /\ UNCHANGED cvars
    \/ EndQuery(t) /\ UNCHANGED cvars
    \/ CStartTransaction(t)
    \/ GetTransaction(t) /\ UNCHANGED cvars
    \/ CSetReadWrite(t)
    \/ \E k \in Kind : MakeChange(t, k) /\ UNCHANGED cvars
    \/ CommitTimestamp(t) /\ UNCHANGED cvars
    \/ CanCheckpoint(t)
    \/ CannotCheckpoint(t)
    \/ CCommitSucceeds(t)
    \/ CCommitFails(t)
    \/ RollbackTransaction(t) /\ UNCHANGED cvars
    \/ ReadQueryNumber(t) /\ UNCHANGED cvars
    \/ RemoveTransaction(t) /\ UNCHANGED cvars
    \/ AutomaticCheckpointEnds(t)

CheckpointerNext ==
    \/ TryCheckpoint
    \/ ForceCheckpoint
    \/ ForceLocks
    \/ ForceInterrupted
    \/ LoadOperand
    \/ ChooseType
    \/ CheckpointEnds

CNext == (\E t \in Txn : TxnNext(t)) \/ CheckpointerNext

CSpec == CInit /\ [][CNext]_allvars

\* What a thread inside the manager does it finishes, and every query and
\* every transaction ends, although other queries may come in between.
CFairness ==
    /\ WF_allvars(ForceLocks) /\ WF_allvars(LoadOperand)
    /\ WF_allvars(ChooseType) /\ WF_allvars(CheckpointEnds)
    /\ \A t \in Txn :
        /\ WF_allvars(GetTransaction(t) /\ UNCHANGED cvars)
        /\ WF_allvars(EndQuery(t) /\ UNCHANGED cvars)
        /\ SF_allvars((CommitTimestamp(t) \/ RollbackTransaction(t)) /\ UNCHANGED cvars)
        /\ WF_allvars(CannotCheckpoint(t)) /\ WF_allvars(CCommitSucceeds(t))
        /\ WF_allvars(ReadQueryNumber(t) /\ UNCHANGED cvars)
        /\ WF_allvars(RemoveTransaction(t) /\ UNCHANGED cvars)
        /\ WF_allvars(AutomaticCheckpointEnds(t))

CFairSpec == CSpec /\ CFairness
-----------------------------------------------------------------------------
(* Properties.                                                             *)

\* Every variable holds a value of its type, and start_transaction_lock is
\* held exactly while a FORCE CHECKPOINT waits.
CTypeOK ==
    /\ checkpoint_owner \in Txn \cup {NoTxn, Checkpointer}
    /\ start_transaction_lock \in BOOLEAN
    /\ decision \in [Txn -> {"undecided", "no", "full", "concurrent"}]
    /\ checkpoint \in {"idle", "forcing", "loading", "full", "concurrent"}
    /\ start_transaction_lock <=> checkpoint = "forcing"
    /\ DOMAIN loaded \subseteq {"last", "low"}

\* No live transaction still reads rows that a committed one has deleted.
NoOldReader ==
    \A u \in Live, t \in Txn :
        phase[t] = "committed" /\ "delete" \in changes[t] => commit_id[t] < start_time[u]

\* "we cannot do a full checkpoint if any transaction needs to read old data",
\* for CHECKPOINT and FORCE CHECKPOINT: the two unlocked loads never lead to
\* a vacuum of rows that an active transaction can still see, whatever starts
\* or commits around them and whatever last_commit held at first.
FullCheckpointSafe == checkpoint = "full" => NoOldReader

\* While a checkpoint runs no other transaction has uncommitted changes: the
\* shared lock lives as long as the transaction object does, through commit,
\* rollback and the garbage collection lists.
CheckpointExcludesWriters ==
    \A t \in Live :
        checkpoint_owner \notin {NoTxn, t} => changes[t] = {}

\* FORCE CHECKPOINT gets its lock, or is interrupted: no transaction can start
\* while it waits, so the shared owners it waits for only become fewer, and
\* the undo buffers that keep the lock go when the last transaction ends.
ForceCheckpointProceeds == checkpoint = "forcing" ~> checkpoint # "forcing"
=============================================================================
