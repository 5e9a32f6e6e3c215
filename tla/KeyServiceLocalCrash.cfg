\* rotateKey over LocalKeyStore without I/O errors but with one crash of
\* the process: is the old key retired whenever its successor is stored?
CONSTANTS
    t1 = t1
    t2 = t2
    u1 = u1
    u2 = u2
    u3 = u3
    None = None
    Threads <- MCThreads
    Uuids <- MCUuids
    StoreKind = "Local"
    VersionModulus = 4
    CacheCapacity = 2
    MaxIoFailures = 0
    MaxCrashes = 1
SYMMETRY Symmetry
SPECIFICATION Spec
INVARIANTS
    PredecessorRetired
CHECK_DEADLOCK FALSE
