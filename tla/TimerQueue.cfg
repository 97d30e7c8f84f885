SPECIFICATION Spec
CONSTANTS
    LoopThread = loop
    Caller = {c1}
    Addr = {1, 2}
    NoAddr = noAddr
    Interval = {0, 1}
    MaxTime = 2
    MaxCreated = 2
    MaxQueue = 2
CHECK_DEADLOCK FALSE
INVARIANTS TypeOK SetsAgree OwnedOnce ArmedForEarliest CancelSticks
PROPERTY TimersRun
