SPECIFICATION Spec
CONSTANTS
    LoopThread = loop
    Caller = {c1}
    Keeper = {loop,c1}
    Msg = {m1,m2}
    NoMsg = noMsg
    HighWater = FALSE
CHECK_DEADLOCK FALSE
INVARIANTS SentInOrder
PROPERTIES StreamSafety ShutdownEnds
