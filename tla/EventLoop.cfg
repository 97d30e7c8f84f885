SPECIFICATION Spec
CONSTANTS
    LoopThread = loop
    Caller = {c1, c2}
    Functor = {f1, f2}
    IoFd = {sock}
    WakeupFd = wakeupFd
    NoFunctor = noFunctor
    MaxPending = 3
    MaxDepth = 2
INVARIANTS TypeOK NoLostWakeup NoLostQuit
PROPERTIES ExecutorSafety ExecutorProgress LoopPolls
