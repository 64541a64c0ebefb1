SPECIFICATION FairSpec
CONSTANTS
    home = home
    a = a
    p = p
    Room = {home, a}
    DefaultRoom = home
    NoRoom = NoRoom
    PIN = {p}
    NoPIN = NoPIN
    Defers = {"usability"}
    DisabledRooms = {home}
    Creates = TRUE
    MaxNavs = 1
    MaxFaults = 1
    MaxOthers = 1
    MaxChats = 1
CHECK_DEADLOCK FALSE
INVARIANTS ShowsItsRoom PINStaysWithRoom
PROPERTIES Reconnects JoinsRequested
