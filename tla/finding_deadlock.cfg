SPECIFICATION FairSpec
CONSTANTS
    a = a
    b = b
    Session = {a, b}
    Room = {r1}
    Worker = {w1, w2}
    PIN = {p}
    NoCredentials = NoCredentials
    EmptyPIN = EmptyPIN
    NoRoom = NoRoom
    NoWorker = NoWorker
    NoReply = NoReply
    DisabledRooms = {}
    Account = {a}
    AuthorizeRoomJoin = FALSE
    AuthorizeRoomCreation = TRUE
    Rehello = FALSE
    roomMaxWorkers = 6
    MaxMessages <- ThreeOfA
CHECK_DEADLOCK FALSE
PROPERTY AlwaysAnswers
