SPECIFICATION Spec
CONSTANTS
    TimerFd = timerFd
    WakeupFd = wakeupFd
    Listener = listener
    ServerLink = {s1, s2}
    Connector = connector
    ClientLink = {k1, k2}
    Fd = {d1, d2, d3, d4, d5, d6}
    NoFd = noFd
    NoHandler = noHandler
    Program = {"server", "client", "destroyLoop", "destroyUnstarted", "destroyClient"}
CHECK_DEADLOCK FALSE
SYMMETRY Symmetry
INVARIANTS TypeOK ViewsAgree DescriptorsOwned FailuresAreKnown
