---------------------------- MODULE StorageLock ----------------------------
(***************************************************************************)
(* StorageLockInternals (storage_lock.cpp): a mutex and an atomic counter  *)
(* of SHARED keys.  One action per access to the mutex or to the counter,  *)
(* so every interleaving of the threads inside the four methods and the    *)
(* destructor of a key is a behaviour.                                     *)
(*                                                                         *)
(* A thread owns at most one SHARED key: the lock does not record owners,  *)
(* so a thread with two keys is the same to it as two threads.  A thread   *)
(* that owns a key does not call the blocking GetExclusiveLock, nor        *)
(* GetSharedLock on top of an EXCLUSIVE key; both would wait for itself,   *)
(* and no caller in the repository does it.                                *)
(***************************************************************************)
EXTENDS Naturals, FiniteSets

CONSTANTS Thread, NoThread

ASSUME ThreadAssumption == IsFiniteSet(Thread) /\ NoThread \notin Thread

VARIABLES
    exclusive_lock,  \* the thread that holds the mutex, or NoThread
    read_count,      \* the atomic counter
    pc,              \* where each thread is inside the lock's methods
    shared,          \* the threads that own a StorageLockKey of type SHARED
    exclusive        \* the threads that own a StorageLockKey of type EXCLUSIVE

vars == <<exclusive_lock, read_count, pc, shared, exclusive>>

\* Places inside a method where the calling thread holds the mutex.
Locked == {"shared_inc", "shared_unlock", "exclusive_spin",
           "try_check", "try_fail", "upgrade_check", "upgrade_fail"}

Place == {"idle", "shared_lock", "exclusive_lock"} \cup Locked

Init ==
    /\ exclusive_lock = NoThread
    /\ read_count = 0
    /\ pc = [t \in Thread |-> "idle"]
    /\ shared = {}
    /\ exclusive = {}

Goto(t, from, to) == pc[t] = from /\ pc' = [pc EXCEPT ![t] = to]

Lock(t)    == exclusive_lock = NoThread /\ exclusive_lock' = t
Unlock     == exclusive_lock' = NoThread
-----------------------------------------------------------------------------
(* GetSharedLock: lock(); read_count++; unlock(); return a SHARED key.     *)

GetSharedLock(t) ==
    /\ t \notin shared \cup exclusive
    /\ Goto(t, "idle", "shared_lock")
    /\ UNCHANGED <<exclusive_lock, read_count, shared, exclusive>>

SharedLock(t) ==
    /\ Goto(t, "shared_lock", "shared_inc")
    /\ Lock(t)
    /\ UNCHANGED <<read_count, shared, exclusive>>

\* Mutation of SharedIncrement: the key is not counted.
SharedIncrement_Forgotten(t) ==
    /\ Goto(t, "shared_inc", "shared_unlock")
    /\ UNCHANGED <<exclusive_lock, read_count, shared, exclusive>>

SharedIncrement(t) ==
    /\ Goto(t, "shared_inc", "shared_unlock")
    /\ read_count' = read_count + 1
    /\ UNCHANGED <<exclusive_lock, shared, exclusive>>

SharedUnlock(t) ==
    /\ Goto(t, "shared_unlock", "idle")
    /\ Unlock
    /\ shared' = shared \cup {t}
    /\ UNCHANGED <<read_count, exclusive>>
-----------------------------------------------------------------------------
(* GetExclusiveLock: lock(); while (read_count != 0) {}; return an         *)
(* EXCLUSIVE key, which keeps the mutex locked.                            *)

GetExclusiveLock(t) ==
    /\ t \notin shared \cup exclusive
    /\ Goto(t, "idle", "exclusive_lock")
    /\ UNCHANGED <<exclusive_lock, read_count, shared, exclusive>>

ExclusiveLock(t) ==
    /\ Goto(t, "exclusive_lock", "exclusive_spin")
    /\ Lock(t)
    /\ UNCHANGED <<read_count, shared, exclusive>>

\* Mutation of ExclusiveSpin: the loop is left while one reader remains.
ExclusiveSpin_OneReader(t) ==
    /\ Goto(t, "exclusive_spin", "idle")
    /\ read_count <= 1
    /\ exclusive' = exclusive \cup {t}
    /\ UNCHANGED <<exclusive_lock, read_count, shared>>

\* The iteration of the loop that reads 0; the others change nothing.
ExclusiveSpin(t) ==
    /\ Goto(t, "exclusive_spin", "idle")
    /\ read_count = 0
    /\ exclusive' = exclusive \cup {t}
    /\ UNCHANGED <<exclusive_lock, read_count, shared>>
-----------------------------------------------------------------------------
(* TryGetExclusiveLock and TryUpgradeCheckpointLock.  A failed try_lock    *)
(* returns nullptr and changes nothing.                                    *)

TryGetExclusiveLock(t) ==
    /\ t \notin exclusive
    /\ Goto(t, "idle", "try_check")
    /\ Lock(t)
    /\ UNCHANGED <<read_count, shared, exclusive>>

TryCheckSucceeds(t) ==
    /\ Goto(t, "try_check", "idle")
    /\ read_count = 0
    /\ exclusive' = exclusive \cup {t}
    /\ UNCHANGED <<exclusive_lock, read_count, shared>>

TryCheckFails(t) ==
    /\ Goto(t, "try_check", "try_fail")
    /\ read_count # 0
    /\ UNCHANGED <<exclusive_lock, read_count, shared, exclusive>>

\* Mutation of TryUpgradeCheckpointLock: the SHARED key is given up first.
TryUpgradeCheckpointLock_Consumes(t) ==
    /\ t \in shared
    /\ t \notin exclusive
    /\ Goto(t, "idle", "upgrade_check")
    /\ Lock(t)
    /\ shared' = shared \ {t}
    /\ read_count' = read_count - 1
    /\ UNCHANGED exclusive

TryUpgradeCheckpointLock(t) ==
    /\ t \in shared
    /\ t \notin exclusive
    /\ Goto(t, "idle", "upgrade_check")
    /\ Lock(t)
    /\ UNCHANGED <<read_count, shared, exclusive>>

\* Mutation of UpgradeCheckSucceeds: any number of SHARED keys will do.
UpgradeCheckSucceeds_AnyCount(t) ==
    /\ Goto(t, "upgrade_check", "idle")
    /\ exclusive' = exclusive \cup {t}
    /\ UNCHANGED <<exclusive_lock, read_count, shared>>

UpgradeCheckSucceeds(t) ==
    /\ Goto(t, "upgrade_check", "idle")
    /\ read_count = 1
    /\ exclusive' = exclusive \cup {t}
    /\ UNCHANGED <<exclusive_lock, read_count, shared>>

UpgradeCheckFails(t) ==
    /\ Goto(t, "upgrade_check", "upgrade_fail")
    /\ read_count # 1
    /\ UNCHANGED <<exclusive_lock, read_count, shared, exclusive>>

\* exclusive_lock.unlock(); return nullptr;
FailUnlock(t) ==
    /\ Goto(t, "try_fail", "idle") \/ Goto(t, "upgrade_fail", "idle")
    /\ Unlock
    /\ UNCHANGED <<read_count, shared, exclusive>>

TryLockFails(t) ==
    /\ t \notin exclusive
    /\ pc[t] = "idle"
    /\ exclusive_lock # NoThread
    /\ UNCHANGED vars
-----------------------------------------------------------------------------
(* ~StorageLockKey.  After an upgrade the two keys may go in either order. *)

\* Mutation of ReleaseSharedLock: the counter is not decremented.
ReleaseSharedLock_Leaks(t) ==
    /\ pc[t] = "idle"
    /\ t \in shared
    /\ shared' = shared \ {t}
    /\ UNCHANGED <<exclusive_lock, read_count, pc, exclusive>>

ReleaseSharedLock(t) ==
    /\ pc[t] = "idle"
    /\ t \in shared
    /\ read_count' = read_count - 1
    /\ shared' = shared \ {t}
    /\ UNCHANGED <<exclusive_lock, pc, exclusive>>

ReleaseExclusiveLock(t) ==
    /\ pc[t] = "idle"
    /\ t \in exclusive
    /\ Unlock
    /\ exclusive' = exclusive \ {t}
    /\ UNCHANGED <<read_count, pc, shared>>
-----------------------------------------------------------------------------
Call(t) ==
    \/ GetSharedLock(t)
    \/ GetExclusiveLock(t)
    \/ TryGetExclusiveLock(t)
    \/ TryUpgradeCheckpointLock(t)
    \/ TryLockFails(t)

\* The steps of a thread that is inside a method.
Step(t) ==
    \/ SharedLock(t)
    \/ SharedIncrement(t)
    \/ SharedUnlock(t)
    \/ ExclusiveLock(t)
    \/ ExclusiveSpin(t)
    \/ TryCheckSucceeds(t)
    \/ TryCheckFails(t)
    \/ UpgradeCheckSucceeds(t)
    \/ UpgradeCheckFails(t)
    \/ FailUnlock(t)

Release(t) == ReleaseSharedLock(t) \/ ReleaseExclusiveLock(t)

Next == \E t \in Thread : Call(t) \/ Step(t) \/ Release(t)

Spec == Init /\ [][Next]_vars

\* Threads inside a method keep running, and a key is a scoped object whose
\* owner destroys it in the end.  Nothing obliges a thread to call a method.
Fairness == \A t \in Thread : WF_vars(Step(t)) /\ WF_vars(Release(t))

FairSpec == Spec /\ Fairness
-----------------------------------------------------------------------------
(* Properties.                                                             *)

\* Every variable holds a value of its C++ type; the counter never goes
\* below zero, where an idx_t would wrap.
TypeOK ==
    /\ exclusive_lock \in Thread \cup {NoThread}
    /\ read_count \in Nat
    /\ pc \in [Thread -> Place]
    /\ shared \subseteq Thread
    /\ exclusive \subseteq Thread

\* The threads read_count stands for: the owners of a SHARED key and a
\* thread of GetSharedLock between read_count++ and unlock().
Readers == shared \cup {t \in Thread : pc[t] = "shared_unlock"}

\* An EXCLUSIVE key excludes every other EXCLUSIVE key and every SHARED key
\* of another thread, however the unlocked decrement of ReleaseSharedLock
\* interleaves with the checks of read_count; only an upgraded thread owns
\* both (storage_lock.hpp: "both a shared and exclusive lock active").
Exclusion ==
    \A t \in exclusive : exclusive = {t} /\ Readers \subseteq {t}

\* D_ASSERT(read_count != 0) in the failure path of TryUpgradeCheckpointLock:
\* the caller's own SHARED key is still counted when the assertion reads the
\* counter a second time.
UpgradeAssertion ==
    \A t \in Thread : pc[t] = "upgrade_fail" => read_count # 0

\* A thread in the spin loop of GetExclusiveLock gets its EXCLUSIVE key: it
\* keeps the mutex, so no new reader enters and the present ones drain.
SpinTerminates ==
    \A t \in Thread : pc[t] = "exclusive_spin" ~> t \in exclusive

\* What the callers see is the abstract lock: a SHARED key counts from
\* read_count++, an EXCLUSIVE key from the check that succeeded.
Abstract == INSTANCE SharedExclusiveLock WITH
    readers <- Readers,
    writer  <- IF exclusive = {} THEN NoThread ELSE CHOOSE t \in exclusive : TRUE

ImplementsSharedExclusiveLock == Abstract!Spec
=============================================================================
