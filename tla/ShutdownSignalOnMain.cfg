\* requestShutdown as a signal handler on the thread that holds mutex_.
CONSTANTS
    Main = Main
    Requester = Requester
    Owner = Owner
    None = None
    w1 = w1
    w2 = w2
    k1 = k1
    k2 = k2
    Workers <- MCWorkers
    Comps <- MCComps
    SignalOnMain = TRUE
SPECIFICATION Spec
PROPERTY ShutdownCompletes
CHECK_DEADLOCK FALSE
