SPECIFICATION Spec
CONSTANTS
    LoopThread = loop
    Caller = {c1, c2}
    MaxConnects = 3
    MaxQueue = 3
INVARIANTS TypeOK OneConnection NeverGivesUp OneChainPerCall
PROPERTY KeepsTrying
CHECK_DEADLOCK FALSE
