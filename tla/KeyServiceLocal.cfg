\* The key service over LocalKeyStore with two I/O errors and one crash.
\* updateMetadata blocks for good on its own store mutex, so the service
\* really stops: deadlock is not checked.
CONSTANTS
    t1 = t1
    t2 = t2
    u1 = u1
    u2 = u2
    u3 = u3
    None = None
    Threads <- MCThreads
    Uuids <- MCUuids
    StoreKind = "Local"
    VersionModulus = 4
    CacheCapacity = 2
    MaxIoFailures = 2
    MaxCrashes = 1
SYMMETRY Symmetry
SPECIFICATION Spec
INVARIANTS
    TypeOK
    CacheCoherent
    CoherenceInv
CHECK_DEADLOCK FALSE
