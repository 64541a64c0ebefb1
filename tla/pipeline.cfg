SPECIFICATION FairSpec
CONSTANTS
    Caller = {a}
    BusSession = {k}
    Faked = {f}
    MaxDocs = 2
    MaxIn = 1
    Leaving = {a}
    None = None
    Cleaner = Cleaner
INVARIANTS ReceiverHasSession SinkMissesNothing
PROPERTIES HandlersEnd ReceiversEnd
CHECK_DEADLOCK FALSE
