SPECIFICATION FairSpec
CONSTANTS
    Peer = {1, 2}
    Nobody = Nobody
    Dials <- AllDials
    Crashers = {2}
    MaxCalls <- TwoEach
    MaxActs = 4
    MaxTrouble = 1
INVARIANTS CameraOffWhenIdle
PROPERTIES StrandedCallsEnd
CHECK_DEADLOCK FALSE
