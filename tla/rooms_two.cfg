SPECIFICATION Spec
CONSTANTS
    a = a
    b = b
    Session = {a, b}
    Room = {r1, r2}
    Worker = {w1, w2, w3}
    PIN = {p}
    NoCredentials = NoCredentials
    EmptyPIN = EmptyPIN
    NoRoom = NoRoom
    NoWorker = NoWorker
    NoReply = NoReply
    DisabledRooms = {}
    Account = {a}
    AuthorizeRoomJoin = FALSE
    AuthorizeRoomCreation = FALSE
    Rehello = FALSE
    roomMaxWorkers = 6
    MaxMessages <- MostlyA
CHECK_DEADLOCK FALSE
INVARIANT HelloIsMember
INVARIANT OneWorkerPerRoom
INVARIANT NoGhosts
