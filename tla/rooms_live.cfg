SPECIFICATION FairSpec
CONSTANTS
    a = a
    b = b
    Session = {a, b}
    Room = {r1, r2}
    Worker = {w1, w2}
    PIN = {p}
    NoCredentials = NoCredentials
    EmptyPIN = EmptyPIN
    NoRoom = NoRoom
    NoWorker = NoWorker
    NoReply = NoReply
    DisabledRooms = {r2}
    Account = {a}
    AuthorizeRoomJoin = FALSE
    AuthorizeRoomCreation = TRUE
    Rehello = FALSE
    roomMaxWorkers = 6
    MaxMessages <- ThreeOfA
CHECK_DEADLOCK FALSE
INVARIANT IInv
INVARIANT BuddiesComplete
INVARIANT AccessControl
PROPERTY ImplementsDirectory
PROPERTY PINChangedByMember
PROPERTY Answers
PROPERTY RoomsReclaimed
