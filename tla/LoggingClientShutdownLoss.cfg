\* The destructor against its header: three buffered entries, batches of 2.
CONSTANTS
    c1 = c1
    c2 = c2
    ft = ft
    dt = dt
    Clients <- MCClients
    FlushThread <- ft
    Destructor <- dt
    MaxEntries = 4
    BatchSize = 2
    BufferSize = 3
    FallbackEnabled = TRUE
SPECIFICATION Spec
INVARIANT ShutdownFlushesAll
CHECK_DEADLOCK FALSE
