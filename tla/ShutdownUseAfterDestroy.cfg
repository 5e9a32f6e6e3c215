\* The callback registered by GracefulShutdown outlives the object.
CONSTANTS
    Main = Main
    Requester = Requester
    Owner = Owner
    None = None
    w1 = w1
    w2 = w2
    k1 = k1
    k2 = k2
    Workers <- MCWorkers
    Comps <- MCComps
    SignalOnMain = FALSE
SPECIFICATION Spec
INVARIANT NoUseAfterDestroy
CHECK_DEADLOCK FALSE
