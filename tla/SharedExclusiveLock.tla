------------------------ MODULE SharedExclusiveLock ------------------------
(***************************************************************************)
(* What a StorageLock promises its callers (storage_lock.hpp): any number  *)
(* of SHARED keys, or one EXCLUSIVE key and no SHARED key, with the single *)
(* exception made for checkpointing, where the owner of the only SHARED    *)
(* key may obtain the EXCLUSIVE key on top of it.                          *)
(***************************************************************************)

CONSTANTS Thread, NoThread

VARIABLES readers,   \* the threads that own a SHARED key
          writer     \* the thread that owns the EXCLUSIVE key, or NoThread

vars == <<readers, writer>>

Init == readers = {} /\ writer = NoThread

AcquireShared(t) ==
    /\ writer = NoThread
    /\ t \notin readers
    /\ readers' = readers \cup {t}
    /\ UNCHANGED writer

AcquireExclusive(t) ==
    /\ writer = NoThread
    /\ readers = {}
    /\ writer' = t
    /\ UNCHANGED readers

\* TryUpgradeCheckpointLock: the SHARED key is kept.
Upgrade(t) ==
    /\ writer = NoThread
    /\ readers = {t}
    /\ writer' = t
    /\ UNCHANGED readers

ReleaseShared(t) ==
    /\ t \in readers
    /\ readers' = readers \ {t}
    /\ UNCHANGED writer

ReleaseExclusive(t) ==
    /\ writer = t
    /\ writer' = NoThread
    /\ UNCHANGED readers

Next == \E t \in Thread :
    \/ AcquireShared(t)
    \/ AcquireExclusive(t)
    \/ Upgrade(t)
    \/ ReleaseShared(t)
    \/ ReleaseExclusive(t)

Spec == Init /\ [][Next]_vars
=============================================================================
