\* Two client threads, batches of 2 in a buffer of 3, 6 log() calls: the
\* buffer overflows, batches are partial and full, and flushes race.  The
\* client stops for good once destroyed: deadlock is not checked.
CONSTANTS
    c1 = c1
    c2 = c2
    ft = ft
    dt = dt
    Clients <- MCClients
    FlushThread <- ft
    Destructor <- dt
    MaxEntries = 6
    BatchSize = 2
    BufferSize = 3
    FallbackEnabled = TRUE
SPECIFICATION Spec
INVARIANTS
    TypeOK
    Accounted
PROPERTIES
    ImplementsLogDelivery
    Drained
CHECK_DEADLOCK FALSE
