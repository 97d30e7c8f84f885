SPECIFICATION Safety
CONSTANTS
    LoopThread = loop
    Caller = {c1}
    Addr = {1}
    NoAddr = noAddr
    Interval = {0}
    MaxTime = 1
    MaxCreated = 2
    MaxQueue = 1
CHECK_DEADLOCK FALSE
INVARIANT SequenceOfLiveTimer
