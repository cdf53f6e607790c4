\* Three processes, all through the lock with a fresh read, one death.
SPECIFICATION FairSpec
CONSTANTS
    w1 = w1
    w2 = w2
    w3 = w3
    Writers <- ThreeWriters
    EarlyReaders <- Nobody
    Backend = "fcntl"
    MaxOps = 2
    MaxCrashes = 1
INVARIANTS
    StoreIsGuarded
PROPERTIES
    ImplementsAtomicStore
    LockReleased
CHECK_DEADLOCK FALSE
