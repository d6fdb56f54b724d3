\* Safety, refinement, and progress of the spinning writer.
SPECIFICATION FairSpec
CONSTANTS
    Thread = {t1, t2, t3, t4}
    NoThread = NoThread
INVARIANTS
    TypeOK
    Exclusion
    UpgradeAssertion
PROPERTIES
    ImplementsSharedExclusiveLock
    SpinTerminates
