\* Two workers, two components, the signal handler on a thread of its own.
\* The process ends after shutdown: deadlock is not checked.
CONSTANTS
    Main = Main
    Requester = Requester
    Owner = Owner
    None = None
    w1 = w1
    w2 = w2
    k1 = k1
    k2 = k2
    Workers <- MCWorkers
    Comps <- MCComps
    SignalOnMain = FALSE
SPECIFICATION Spec
INVARIANTS
    TypeOK
    StoppedOnceInReverse
    StopInv
PROPERTIES
    WaiterWakes
    ShutdownCompletes
CHECK_DEADLOCK FALSE
