SPECIFICATION Safety
CONSTANTS
    LoopThread = loop
    Caller = {c1,c2}
    Keeper = {c1}
    Msg = {m1}
    NoMsg = noMsg
    HighWater = TRUE
CHECK_DEADLOCK FALSE
INVARIANTS TypeOK WriteInterest ClosedOnce KeptIsSafe
