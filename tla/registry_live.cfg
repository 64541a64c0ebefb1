SPECIFICATION FairSpec
CONSTANTS
    a = a
    b = b
    x = x
    i = i
    j = j
    k = k
    alice = alice
    bob = bob
    carol = carol
    Conn = {a, b}
    Id = {i}
    User = {alice}
    UserObj = {o1, o2, o3}
    SessionId <- OneId
    Login <- OneUser
    Contacts <- Nobody
    Stats = TRUE
    NoConn = NoConn
    NoUser = NoUser
    NoObj = NoObj
    NoThread = NoThread
CHECK_DEADLOCK FALSE
INVARIANT TypeOK
INVARIANT HubHasCurrent
INVARIANT CleanedUpOnce
PROPERTY Served
