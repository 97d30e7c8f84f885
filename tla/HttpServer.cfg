SPECIFICATION Spec
CONSTANTS
    MaxThreads = 1
    MaxLinks = 2
    Talker = {1}
    Written = {"request", "field", "malformed"}
    MaxLines = 4
INVARIANTS TypeOK OpenLinksAreOwned HttpFailuresAreKnown ParsedAsWritten
PROPERTY WaitingClientIsAnswered
CHECK_DEADLOCK FALSE
