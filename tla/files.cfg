SPECIFICATION FairSpec
CONSTANTS
    Chunks = 5
    Fragments = 2
    Concurrent = 2
    Xfer = {1, 2}
    MaxStarts = 1
    MaxTrouble = 1
    NoXfer = NoXfer
    NoJob = NoJob
    Bye = Bye
INVARIANTS EachChunkOnce WholeFile
PROPERTIES Completes XfersClosed
CHECK_DEADLOCK FALSE
