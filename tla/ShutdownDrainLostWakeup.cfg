\* waitForDrain against spec 4.9: ~InFlightGuard notifies drain_cv_ without drain_mutex_.
CONSTANTS
    Main = Main
    Requester = Requester
    Owner = Owner
    None = None
    w1 = w1
    w2 = w2
    k1 = k1
    k2 = k2
    Workers <- MCWorkers
    Comps <- MCComps
    SignalOnMain = FALSE
SPECIFICATION Spec
INVARIANT DrainWaitJustified
CHECK_DEADLOCK FALSE
