SPECIFICATION ThreadSpec
CONSTANTS
    LoopThread = child
    Owner = owner
    Caller = {owner}
    Functor = {f1}
    IoFd = {sock}
    WakeupFd = wakeupFd
    NoFunctor = noFunctor
    MaxPending = 1
    MaxDepth = 1
    NDebug = TRUE
CHECK_DEADLOCK FALSE
PROPERTIES DestructorReturns
