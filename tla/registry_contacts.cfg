SPECIFICATION Spec
CONSTANTS
    a = a
    b = b
    x = x
    i = i
    j = j
    k = k
    alice = alice
    bob = bob
    carol = carol
    Conn = {a, b, x}
    Id = {i, j, k}
    User = {alice, bob, carol}
    UserObj = {o1, o2, o3, o4, o5}
    SessionId <- OwnId
    Login <- ThreeUsers
    Contacts <- Mutual
    Stats = FALSE
    NoConn = NoConn
    NoUser = NoUser
    NoObj = NoObj
    NoThread = NoThread
CHECK_DEADLOCK FALSE
INVARIANT SubscribersTold
INVARIANT NoGhostFound
INVARIANT IInv
