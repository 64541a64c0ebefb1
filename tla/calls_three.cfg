SPECIFICATION Spec
CONSTANTS
    Peer = {1, 2, 3}
    Nobody = Nobody
    Dials <- ChainDials
    Crashers = {}
    MaxCalls <- ChainCalls
    MaxActs = 5
    MaxTrouble = 1
INVARIANTS CameraByConsent PickupSparesAnswered
CHECK_DEADLOCK FALSE
