\* rotateKey over LocalKeyStore, no failures: does every call return?
CONSTANTS
    t1 = t1
    t2 = t2
    u1 = u1
    u2 = u2
    u3 = u3
    None = None
    Threads <- MCThreads
    Uuids <- MCUuids
    StoreKind = "Local"
    VersionModulus = 4
    CacheCapacity = 2
    MaxIoFailures = 0
    MaxCrashes = 0
SPECIFICATION Spec
PROPERTIES
    OperationsReturn
CHECK_DEADLOCK FALSE
