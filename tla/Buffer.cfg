SPECIFICATION Safety
CONSTANTS
    Byte = {x, y}
    Zero = x
    kCheapPrepend = 2
    InitialSize = 1
    ExtraSize = 2
    MaxChunk = 3
    MaxContent = 4
INVARIANTS TypeOK HoldsQueue GrowthIsBounded
