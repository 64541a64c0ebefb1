SPECIFICATION FairSpec
CONSTANTS
    Conn = {1, 2}
    Sender = {1}
    Buffer = {1, 2}
    maxQueueSize = 1
    MaxMessages = 2
    Troubled = {1}
    NoBuffer = NoBuffer
INVARIANTS RefCounts
PROPERTIES ImplementsOutbox Delivered Ends
CHECK_DEADLOCK FALSE
