------------------------- MODULE StorageLockProofs -------------------------
(***************************************************************************)
(* Proofs about StorageLock for every finite set of threads.               *)
(*                                                                         *)
(* Exclusion is not inductive: that a check of read_count means what it    *)
(* says needs the counter to be the number of readers (Counted), that no   *)
(* reader enters behind it needs the mutex to be held exactly by the       *)
(* threads between lock() and unlock() (MutexHeld), and both need to know  *)
(* which keys a thread can own at each place of a method (KeysAtPlace).    *)
(***************************************************************************)
EXTENDS StorageLock, FiniteSetTheorems, TLAPS

Counted == read_count = Cardinality(Readers)

MutexHeld ==
    \A t \in Thread : exclusive_lock = t <=> (pc[t] \in Locked \/ t \in exclusive)

KeysAtPlace ==
    \A t \in Thread :
        /\ pc[t] \in {"shared_lock", "shared_inc", "shared_unlock",
                      "exclusive_lock", "exclusive_spin"} => t \notin shared
        /\ pc[t] \in {"upgrade_check", "upgrade_fail"} => t \in shared
        /\ pc[t] # "idle" => t \notin exclusive

NoOtherReader == \A t \in exclusive : Readers \subseteq {t}

IInv == TypeOK /\ Counted /\ MutexHeld /\ KeysAtPlace /\ NoOtherReader
-----------------------------------------------------------------------------
\* The readers are finitely many, so read_count can be compared with their
\* number.
LEMMA ReadersFinite == TypeOK => Readers \subseteq Thread /\ IsFiniteSet(Readers)
<1>1. TypeOK => Readers \subseteq Thread
  BY DEF TypeOK, Readers
<1> QED
  BY <1>1, ThreadAssumption, FS_Subset

\* A counter of 0 means there is no reader.
LEMMA NoReader == TypeOK /\ Counted /\ read_count = 0 => Readers = {}
  BY ReadersFinite, FS_EmptySet DEF Counted

\* A counter of 1 leaves room for no reader but the one that is known.
LEMMA OnlyReader ==
  ASSUME TypeOK, Counted, read_count = 1, NEW t \in Readers
  PROVE  Readers = {t}
<1>1. IsFiniteSet(Readers) /\ Cardinality(Readers) = 1
  BY ReadersFinite DEF Counted
<1>2. IsFiniteSet(Readers \ {t}) /\ Cardinality(Readers \ {t}) = 0
  BY <1>1, FS_RemoveElement
<1>3. Readers \ {t} = {}
  BY <1>2, FS_EmptySet
<1> QED
  BY <1>3

\* The new lock satisfies the inductive invariant.
LEMMA InitEstablishesIInv == Init => IInv
<1> SUFFICES ASSUME Init PROVE IInv
  OBVIOUS
<1>1. TypeOK
  BY DEF Init, TypeOK, Place
<1>2. Readers = {}
  BY DEF Init, Readers
<1>3. Counted
  BY <1>2, FS_EmptySet DEF Init, Counted
<1>4. MutexHeld
  BY ThreadAssumption DEF Init, MutexHeld, Locked
<1>5. KeysAtPlace /\ NoOtherReader
  BY DEF Init, KeysAtPlace, NoOtherReader
<1> QED
  BY <1>1, <1>3, <1>4, <1>5 DEF IInv
-----------------------------------------------------------------------------
(* One lemma per way of changing the readers.                              *)

\* Steps after which the same threads are counted.
LEMMA SameReaders ==
  ASSUME Counted, Readers' = Readers, UNCHANGED read_count
  PROVE  Counted'
  BY DEF Counted

\* read_count++ adds the caller to the readers.
LEMMA OneMoreReader ==
  ASSUME IInv, NEW t \in Thread, SharedIncrement(t)
  PROVE  Readers' = Readers \cup {t} /\ t \notin Readers /\ Counted'
<1>1. Readers' = Readers \cup {t} /\ t \notin Readers
  BY DEF IInv, TypeOK, KeysAtPlace, SharedIncrement, Goto, Readers
<1>2. Cardinality(Readers') = Cardinality(Readers) + 1
  BY <1>1, ReadersFinite, FS_AddElement DEF IInv
<1> QED
  BY <1>1, <1>2 DEF IInv, Counted, SharedIncrement

\* read_count-- removes the owner of the key from the readers.
LEMMA OneReaderLess ==
  ASSUME IInv, NEW t \in Thread, ReleaseSharedLock(t)
  PROVE  Readers' = Readers \ {t} /\ read_count' \in Nat /\ Counted'
<1>1. Readers' = Readers \ {t} /\ t \in Readers
  BY DEF IInv, TypeOK, ReleaseSharedLock, Readers
<1>2. Cardinality(Readers') = Cardinality(Readers) - 1
  BY <1>1, ReadersFinite, FS_RemoveElement DEF IInv
<1>3. Cardinality(Readers') \in Nat
  BY <1>1, ReadersFinite, FS_RemoveElement, FS_CardinalityType DEF IInv
<1> QED
  BY <1>1, <1>2, <1>3 DEF IInv, Counted, ReleaseSharedLock

\* Every access to the mutex or the counter preserves the inductive invariant.
LEMMA NextPreservesIInv == IInv /\ [Next]_vars => IInv'
<1> SUFFICES ASSUME IInv, [Next]_vars PROVE IInv'
  OBVIOUS
<1> USE ThreadAssumption
<1>1. CASE UNCHANGED vars
  BY <1>1 DEF IInv, TypeOK, Counted, MutexHeld, KeysAtPlace, NoOtherReader, Readers, vars
<1>2. ASSUME NEW t \in Thread, GetSharedLock(t) PROVE IInv'
  <2>1. Readers' = Readers
    BY <1>2 DEF IInv, TypeOK, GetSharedLock, Goto, Readers
  <2>2. TypeOK' /\ MutexHeld' /\ KeysAtPlace'
    BY <1>2 DEF IInv, TypeOK, MutexHeld, KeysAtPlace, GetSharedLock, Goto, Place, Locked
  <2> QED
    BY <1>2, <2>1, <2>2, SameReaders DEF IInv, NoOtherReader, GetSharedLock
<1>3. ASSUME NEW t \in Thread, SharedLock(t) PROVE IInv'
  <2>1. Readers' = Readers
    BY <1>3 DEF IInv, TypeOK, SharedLock, Goto, Readers
  <2>2. TypeOK' /\ MutexHeld' /\ KeysAtPlace'
    BY <1>3 DEF IInv, TypeOK, MutexHeld, KeysAtPlace, SharedLock, Goto, Lock, Place, Locked
  <2> QED
    BY <1>3, <2>1, <2>2, SameReaders DEF IInv, NoOtherReader, SharedLock
<1>4. ASSUME NEW t \in Thread, SharedIncrement(t) PROVE IInv'
  <2>1. TypeOK' /\ MutexHeld' /\ KeysAtPlace'
    BY <1>4 DEF IInv, TypeOK, MutexHeld, KeysAtPlace, SharedIncrement, Goto, Place, Locked
  <2>2. exclusive' = {}
    BY <1>4 DEF IInv, TypeOK, MutexHeld, KeysAtPlace, SharedIncrement, Goto, Locked
  <2> QED
    BY <1>4, <2>1, <2>2, OneMoreReader DEF IInv, NoOtherReader
<1>5. ASSUME NEW t \in Thread, SharedUnlock(t) PROVE IInv'
  <2>1. Readers' = Readers
    BY <1>5 DEF IInv, TypeOK, SharedUnlock, Goto, Readers
  <2>2. TypeOK' /\ MutexHeld' /\ KeysAtPlace'
    BY <1>5 DEF IInv, TypeOK, MutexHeld, KeysAtPlace, SharedUnlock, Goto, Unlock, Place, Locked
  <2> QED
    BY <1>5, <2>1, <2>2, SameReaders DEF IInv, NoOtherReader, SharedUnlock
<1>6. ASSUME NEW t \in Thread, GetExclusiveLock(t) PROVE IInv'
  <2>1. Readers' = Readers
    BY <1>6 DEF IInv, TypeOK, GetExclusiveLock, Goto, Readers
  <2>2. TypeOK' /\ MutexHeld' /\ KeysAtPlace'
    BY <1>6 DEF IInv, TypeOK, MutexHeld, KeysAtPlace, GetExclusiveLock, Goto, Place, Locked
  <2> QED
    BY <1>6, <2>1, <2>2, SameReaders DEF IInv, NoOtherReader, GetExclusiveLock
<1>7. ASSUME NEW t \in Thread, ExclusiveLock(t) PROVE IInv'
  <2>1. Readers' = Readers
    BY <1>7 DEF IInv, TypeOK, ExclusiveLock, Goto, Readers
  <2>2. TypeOK' /\ MutexHeld' /\ KeysAtPlace'
    BY <1>7 DEF IInv, TypeOK, MutexHeld, KeysAtPlace, ExclusiveLock, Goto, Lock, Place, Locked
  <2> QED
    BY <1>7, <2>1, <2>2, SameReaders DEF IInv, NoOtherReader, ExclusiveLock
<1>8. ASSUME NEW t \in Thread, ExclusiveSpin(t) \/ TryCheckSucceeds(t) PROVE IInv'
  <2>1. Readers' = Readers
    BY <1>8 DEF IInv, TypeOK, ExclusiveSpin, TryCheckSucceeds, Goto, Readers
  <2>2. TypeOK' /\ MutexHeld' /\ KeysAtPlace'
    BY <1>8 DEF IInv, TypeOK, MutexHeld, KeysAtPlace, ExclusiveSpin, TryCheckSucceeds,
                Goto, Place, Locked
  <2>3. Readers = {}
    BY <1>8, NoReader DEF IInv, ExclusiveSpin, TryCheckSucceeds
  <2> QED
    BY <1>8, <2>1, <2>2, <2>3, SameReaders
    DEF IInv, NoOtherReader, ExclusiveSpin, TryCheckSucceeds
<1>9. ASSUME NEW t \in Thread, TryGetExclusiveLock(t) PROVE IInv'
  <2>1. Readers' = Readers
    BY <1>9 DEF IInv, TypeOK, TryGetExclusiveLock, Goto, Readers
  <2>2. TypeOK' /\ MutexHeld' /\ KeysAtPlace'
    BY <1>9 DEF IInv, TypeOK, MutexHeld, KeysAtPlace, TryGetExclusiveLock, Goto, Lock,
                Place, Locked
  <2> QED
    BY <1>9, <2>1, <2>2, SameReaders DEF IInv, NoOtherReader, TryGetExclusiveLock
<1>10. ASSUME NEW t \in Thread, TryCheckFails(t) \/ UpgradeCheckFails(t) PROVE IInv'
  <2>1. Readers' = Readers
    BY <1>10 DEF IInv, TypeOK, TryCheckFails, UpgradeCheckFails, Goto, Readers
  <2>2. TypeOK' /\ MutexHeld' /\ KeysAtPlace'
    BY <1>10 DEF IInv, TypeOK, MutexHeld, KeysAtPlace, TryCheckFails, UpgradeCheckFails,
                 Goto, Place, Locked
  <2> QED
    BY <1>10, <2>1, <2>2, SameReaders
    DEF IInv, NoOtherReader, TryCheckFails, UpgradeCheckFails
<1>11. ASSUME NEW t \in Thread, TryUpgradeCheckpointLock(t) PROVE IInv'
  <2>1. Readers' = Readers
    BY <1>11 DEF IInv, TypeOK, TryUpgradeCheckpointLock, Goto, Readers
  <2>2. TypeOK' /\ MutexHeld' /\ KeysAtPlace'
    BY <1>11 DEF IInv, TypeOK, MutexHeld, KeysAtPlace, TryUpgradeCheckpointLock, Goto, Lock,
                 Place, Locked
  <2> QED
    BY <1>11, <2>1, <2>2, SameReaders DEF IInv, NoOtherReader, TryUpgradeCheckpointLock
<1>12. ASSUME NEW t \in Thread, UpgradeCheckSucceeds(t) PROVE IInv'
  <2>1. Readers' = Readers
    BY <1>12 DEF IInv, TypeOK, UpgradeCheckSucceeds, Goto, Readers
  <2>2. TypeOK' /\ MutexHeld' /\ KeysAtPlace'
    BY <1>12 DEF IInv, TypeOK, MutexHeld, KeysAtPlace, UpgradeCheckSucceeds, Goto, Place, Locked
  <2>3. t \in Readers
    BY <1>12 DEF IInv, KeysAtPlace, UpgradeCheckSucceeds, Goto, Readers
  <2>4. Readers = {t}
    BY <1>12, <2>3, OnlyReader DEF IInv, UpgradeCheckSucceeds
  <2>5. exclusive = {}
    BY <1>12 DEF IInv, TypeOK, MutexHeld, KeysAtPlace, UpgradeCheckSucceeds, Goto, Locked
  <2> QED
    BY <1>12, <2>1, <2>2, <2>4, <2>5, SameReaders
    DEF IInv, NoOtherReader, UpgradeCheckSucceeds
<1>13. ASSUME NEW t \in Thread, FailUnlock(t) PROVE IInv'
  <2>1. Readers' = Readers
    BY <1>13 DEF IInv, TypeOK, FailUnlock, Goto, Readers
  <2>2. TypeOK' /\ MutexHeld' /\ KeysAtPlace'
    BY <1>13 DEF IInv, TypeOK, MutexHeld, KeysAtPlace, FailUnlock, Goto, Unlock, Place, Locked
  <2> QED
    BY <1>13, <2>1, <2>2, SameReaders DEF IInv, NoOtherReader, FailUnlock
<1>14. ASSUME NEW t \in Thread, ReleaseSharedLock(t) PROVE IInv'
  <2>1. Readers' = Readers \ {t} /\ read_count' \in Nat /\ Counted'
    BY <1>14, OneReaderLess
  <2>2. TypeOK' /\ MutexHeld' /\ KeysAtPlace'
    BY <1>14, <2>1 DEF IInv, TypeOK, MutexHeld, KeysAtPlace, ReleaseSharedLock
  <2>3. exclusive' = exclusive
    BY <1>14 DEF ReleaseSharedLock
  <2> QED
    BY <2>1, <2>2, <2>3 DEF IInv, NoOtherReader
<1>15. ASSUME NEW t \in Thread, ReleaseExclusiveLock(t) PROVE IInv'
  <2>1. Readers' = Readers
    BY <1>15 DEF ReleaseExclusiveLock, Readers
  <2>2. TypeOK' /\ MutexHeld' /\ KeysAtPlace'
    BY <1>15 DEF IInv, TypeOK, MutexHeld, KeysAtPlace, ReleaseExclusiveLock, Unlock, Locked
  <2> QED
    BY <1>15, <2>1, <2>2, SameReaders DEF IInv, NoOtherReader, ReleaseExclusiveLock
<1>16. ASSUME NEW t \in Thread, TryLockFails(t) PROVE IInv'
  BY <1>1, <1>16 DEF TryLockFails
<1> QED
  BY <1>1, <1>2, <1>3, <1>4, <1>5, <1>6, <1>7, <1>8, <1>9, <1>10, <1>11, <1>12, <1>13,
     <1>14, <1>15, <1>16
  DEF Next, Call, Step, Release

\* The inductive invariant holds in every state of the lock.
LEMMA AlwaysIInv == Spec => []IInv
  BY InitEstablishesIInv, NextPreservesIInv, PTL DEF Spec
-----------------------------------------------------------------------------
\* Type correctness; in particular read_count never wraps below zero.
THEOREM TypeCorrect == Spec => []TypeOK
  BY AlwaysIInv, PTL DEF IInv

\* GetExclusiveLock, TryGetExclusiveLock and TryUpgradeCheckpointLock exclude
\* every other thread's key, for any number of threads.
THEOREM MutualExclusion == Spec => []Exclusion
<1>1. IInv => Exclusion
  BY DEF IInv, TypeOK, MutexHeld, NoOtherReader, Exclusion
<1> QED
  BY <1>1, AlwaysIInv, PTL

\* The assertion in TryUpgradeCheckpointLock never fires.
THEOREM UpgradeAssertionHolds == Spec => []UpgradeAssertion
<1>1. IInv => UpgradeAssertion
  <2> SUFFICES ASSUME IInv, NEW t \in Thread, pc[t] = "upgrade_fail", read_count = 0
               PROVE  FALSE
    BY DEF UpgradeAssertion
  <2>1. t \in Readers
    BY DEF IInv, KeysAtPlace, Readers
  <2> QED
    BY <2>1, NoReader DEF IInv
<1> QED
  BY <1>1, AlwaysIInv, PTL
-----------------------------------------------------------------------------
(* The refinement of SharedExclusiveLock.                                  *)

\* The abstract writer, from the owners of the EXCLUSIVE key.
Writer == IF exclusive = {} THEN NoThread ELSE CHOOSE t \in exclusive : TRUE

\* The abstract writer is the one owner of an EXCLUSIVE key.
LEMMA WriterIs ==
  ASSUME IInv
  PROVE  /\ exclusive = {} => Writer = NoThread
         /\ \A t \in Thread : exclusive = {t} => Writer = t
         /\ \A t \in exclusive : exclusive = {t}
  BY DEF IInv, TypeOK, MutexHeld, Writer

\* A thread that holds the mutex inside a method has locked every EXCLUSIVE
\* key out.
LEMMA LockedOut ==
  ASSUME IInv, NEW t \in Thread, pc[t] \in Locked
  PROVE  exclusive = {}
<1>1. exclusive_lock = t /\ t \notin exclusive
  BY DEF IInv, MutexHeld, KeysAtPlace, Locked
<1> QED
  BY <1>1 DEF IInv, TypeOK, MutexHeld

\* Each step of a method or destructor is an abstract step or a stutter.
LEMMA StepRefines ==
  ASSUME IInv, IInv', [Next]_vars
  PROVE  [Abstract!Next]_<<Readers, Writer>>
<1> DEFINE Same == UNCHANGED <<Readers, Writer>>
<1>1. CASE UNCHANGED vars
  BY <1>1 DEF vars, Readers, Writer
<1>2. ASSUME NEW t \in Thread,
             \/ GetSharedLock(t) \/ SharedLock(t) \/ SharedUnlock(t)
             \/ GetExclusiveLock(t) \/ ExclusiveLock(t)
             \/ TryGetExclusiveLock(t) \/ TryUpgradeCheckpointLock(t)
             \/ TryCheckFails(t) \/ UpgradeCheckFails(t) \/ FailUnlock(t)
             \/ TryLockFails(t)
      PROVE  Same
  <2>1. UNCHANGED exclusive
    BY <1>2 DEF GetSharedLock, SharedLock, SharedUnlock, GetExclusiveLock, ExclusiveLock,
                TryGetExclusiveLock, TryUpgradeCheckpointLock, TryCheckFails,
                UpgradeCheckFails, FailUnlock, TryLockFails, vars
  <2>2. UNCHANGED Readers
    BY <1>2 DEF IInv, TypeOK, Goto, Readers, GetSharedLock, SharedLock, SharedUnlock,
                GetExclusiveLock, ExclusiveLock, TryGetExclusiveLock,
                TryUpgradeCheckpointLock, TryCheckFails, UpgradeCheckFails, FailUnlock,
                TryLockFails, vars
  <2> QED
    BY <2>1, <2>2 DEF Writer
<1>3. ASSUME NEW t \in Thread, SharedIncrement(t) PROVE Abstract!AcquireShared(t)
  <2>1. exclusive = {} /\ UNCHANGED exclusive
    BY <1>3, LockedOut DEF SharedIncrement, Goto, Locked
  <2> QED
    BY <1>3, <2>1, OneMoreReader DEF Abstract!AcquireShared
<1>4. ASSUME NEW t \in Thread, ExclusiveSpin(t) \/ TryCheckSucceeds(t)
      PROVE  Abstract!AcquireExclusive(t)
  <2>1. exclusive = {} /\ exclusive' = {t}
    BY <1>4, LockedOut DEF ExclusiveSpin, TryCheckSucceeds, Goto, Locked
  <2>2. Readers = {}
    BY <1>4, NoReader DEF IInv, ExclusiveSpin, TryCheckSucceeds
  <2>3. UNCHANGED Readers
    BY <1>4 DEF IInv, TypeOK, ExclusiveSpin, TryCheckSucceeds, Goto, Readers
  <2> QED
    BY <2>1, <2>2, <2>3 DEF Abstract!AcquireExclusive
<1>5. ASSUME NEW t \in Thread, UpgradeCheckSucceeds(t) PROVE Abstract!Upgrade(t)
  <2>1. exclusive = {} /\ exclusive' = {t}
    BY <1>5, LockedOut DEF UpgradeCheckSucceeds, Goto, Locked
  <2>2. t \in Readers
    BY <1>5 DEF IInv, KeysAtPlace, UpgradeCheckSucceeds, Goto, Readers
  <2>3. Readers = {t}
    BY <1>5, <2>2, OnlyReader DEF IInv, UpgradeCheckSucceeds
  <2>4. UNCHANGED Readers
    BY <1>5 DEF IInv, TypeOK, UpgradeCheckSucceeds, Goto, Readers
  <2> QED
    BY <2>1, <2>3, <2>4 DEF Abstract!Upgrade
<1>6. ASSUME NEW t \in Thread, ReleaseSharedLock(t) PROVE Abstract!ReleaseShared(t)
  <2>1. UNCHANGED exclusive /\ t \in Readers
    BY <1>6 DEF ReleaseSharedLock, Readers
  <2> QED
    BY <1>6, <2>1, OneReaderLess DEF Abstract!ReleaseShared
<1>7. ASSUME NEW t \in Thread, ReleaseExclusiveLock(t) PROVE Abstract!ReleaseExclusive(t)
  <2>1. exclusive = {t} /\ exclusive' = {}
    BY <1>7, WriterIs DEF ReleaseExclusiveLock
  <2>2. UNCHANGED Readers
    BY <1>7 DEF ReleaseExclusiveLock, Readers
  <2> QED
    BY <2>1, <2>2 DEF Abstract!ReleaseExclusive
<1> QED
  BY <1>1, <1>2, <1>3, <1>4, <1>5, <1>6, <1>7
  DEF Next, Call, Step, Release, Abstract!Next

\* Every step of the lock's methods is a step of the abstract lock or leaves
\* it alone: callers may reason with SharedExclusiveLock.
THEOREM Implementation == Spec => ImplementsSharedExclusiveLock
<1>1. Init => Abstract!Init
  BY DEF Init, Readers, Abstract!Init
<1>2. IInv /\ IInv' /\ [Next]_vars => [Abstract!Next]_(Abstract!vars)
  BY StepRefines DEF Abstract!vars, Writer
<1> QED
  BY <1>1, <1>2, AlwaysIInv, PTL DEF Spec, ImplementsSharedExclusiveLock, Abstract!Spec
=============================================================================
