SPECIFICATION Safety
CONSTANTS
    LoopThread = loop
    Caller = {c1}
    Keeper = {}
    Msg = {m1}
    NoMsg = noMsg
    HighWater = FALSE
CHECK_DEADLOCK FALSE
INVARIANT ModifiedIsAdded
