SPECIFICATION ThreadSpec
CONSTANTS
    LoopThread = child
    Owner = owner
    Caller = {owner, other}
    Functor = {f1}
    IoFd = {sock}
    WakeupFd = wakeupFd
    NoFunctor = noFunctor
    MaxPending = 2
    MaxDepth = 2
    NDebug = TRUE
CHECK_DEADLOCK FALSE
INVARIANTS ThreadTypeOK OnlyLateWakeIsUndefined
PROPERTIES StartLoopReturns DestructorReturnsIfLooping
