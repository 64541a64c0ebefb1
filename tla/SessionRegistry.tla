-------------------------- MODULE SessionRegistry --------------------------
(***************************************************************************)
(* Sessions, users and clients of the channelling server: the hub          *)
(* (go/channelling/hub.go, client.go), the session manager                 *)
(* (session_manager.go, user.go) and the sessions (session.go), down to    *)
(* their locks.                                                            *)
(*                                                                         *)
(* Every connection has a session of its own, under the session id of the  *)
(* token it presents; a connection that presents the id of a live session  *)
(* takes it over.  Two goroutines may act for a connection: its reader,    *)
(* which runs the handlers and closes the session at the end, and the      *)
(* closer, started by the connection that takes it over.                   *)
(*                                                                         *)
(* A critical section that takes no other lock is one step, possible only  *)
(* while the lock is free; a lock held across steps is recorded: the mutex *)
(* of a session in Close and Replace, that of a user in SubscribeSessions, *)
(* that of the session manager in DestroySession, the hub's in ClientInfo. *)
(*                                                                         *)
(* Rooms, pictures and sessions faked for users who are offline are left   *)
(* out.                                                                    *)
(***************************************************************************)
EXTENDS FiniteSets

CONSTANTS Conn,       \* connections: a bound
          Id,         \* session ids
          User,       \* user ids
          UserObj,    \* the User values that may be made: a bound
          SessionId,  \* the session id a connection presents
          Login,      \* the user a connection authenticates as, if it does
          Contacts,   \* <<c, u>>: c may ask for the sessions of its contact u
          Stats,      \* somebody asks for details of the sessions
          NoConn, NoUser, NoObj, NoThread

ASSUME RegistryAssumption ==
    /\ SessionId \in [Conn -> Id] /\ Login \in [Conn -> User \cup {NoUser}]
    /\ Contacts \subseteq Conn \X User
    /\ \A k \in Contacts : Login[k[1]] \notin {NoUser, k[2]}
    /\ Stats \in BOOLEAN
    /\ NoConn \notin Conn /\ NoUser \notin User /\ NoObj \notin UserObj
    /\ NoThread \notin Conn \X {"reader", "closer"}

Thread == Conn \X {"reader", "closer"}
Reader(c) == <<c, "reader">>
Closer(c) == <<c, "closer">>
Session(t) == t[1]

VARIABLES
    pc,             \* goroutine: what it does next
    obj,            \* goroutine: the User it found
    rest,           \* goroutine: the sessions its loop has still to visit
    cur,            \* goroutine: the session its loop is at
    ec,             \* reader: the connection it takes the session over from
    registered,     \* reader: the hub knows its connection, or knew it
    userid,         \* session: its user
    replaced,       \* session: another connection took it over
    disconnected,   \* session: closed
    maps,           \* session: whose two maps it uses, its own or inherited
    subscriptions,  \* maps: the sessions subscribed to
    subscribers,    \* maps: the sessions that subscribed
    mutex,          \* session: who holds its mutex across steps
    clients,        \* hub: the client of a session id
    hubWriters,     \* hub: who waits to write; new readers wait for them
    statRest,       \* ClientInfo: clients still to be read, the hub's lock held
    statOn,         \* ClientInfo: it runs
    userTable,      \* session manager: the User of a user id
    managerLock,    \* session manager: who holds its lock across steps
    sessionTable,   \* user: its session of a session id
    userReaders,    \* user: who holds its lock for reading
    told            \* clients: <<c, i>>, c was sent Left of i since it subscribed to i

threadVars  == <<pc, obj, rest, cur, ec, registered>>
sessionVars == <<userid, replaced, disconnected, maps, subscriptions, subscribers, mutex>>
hubVars     == <<clients, hubWriters>>
statVars    == <<statRest, statOn>>
userVars    == <<userTable, managerLock, sessionTable, userReaders>>
vars == <<threadVars, sessionVars, hubVars, statVars, userVars, told>>

Init ==
    /\ pc   = [t \in Thread |-> "off"]
    /\ obj  = [t \in Thread |-> NoObj]
    /\ rest = [t \in Thread |-> {}]
    /\ cur  = [t \in Thread |-> NoConn]
    /\ ec   = [c \in Conn |-> NoConn]
    /\ registered = [c \in Conn |-> FALSE]
    /\ userid        = [c \in Conn |-> NoUser]
    /\ replaced      = [c \in Conn |-> FALSE]
    /\ disconnected  = [c \in Conn |-> FALSE]
    /\ maps          = [c \in Conn |-> c]
    /\ subscriptions = [c \in Conn |-> {}]
    /\ subscribers   = [c \in Conn |-> {}]
    /\ mutex         = [c \in Conn |-> NoThread]
    /\ clients    = [i \in Id |-> NoConn]
    /\ hubWriters = {}
    /\ statRest = {} /\ statOn = FALSE
    /\ userTable    = [u \in User |-> NoObj]
    /\ managerLock  = NoThread
    /\ sessionTable = [o \in UserObj |-> [i \in Id |-> NoConn]]
    /\ userReaders  = [o \in UserObj |-> {}]
    /\ told = {}

-----------------------------------------------------------------------------

Goto(t, p) == pc' = [pc EXCEPT ![t] = p]

\* Nobody holds the mutex of the session of c.
Free(c) == mutex[c] = NoThread

\* It is locked for steps to come, by the goroutine t, and given back.  The first
\* operator of such pairs, here and below, is the mistake a change could make.
NoHold(c, t) == UNCHANGED mutex
Hold(c, t)   == mutex' = [mutex EXCEPT ![c] = t]
NoRelease(c) == UNCHANGED mutex
Release(c)   == mutex' = [mutex EXCEPT ![c] = NoThread]

\* The hub can be read, and written.
HubReadable == hubWriters = {}
HubWritable == ~statOn

\* A map of sessions by id takes in c, or drops what it has under the id i.
Put(m, c)    == {x \in m : SessionId[x] # SessionId[c]} \cup {c}
Remove(m, i) == {x \in m : SessionId[x] # i}

-----------------------------------------------------------------------------
(* A connection is made: the websocket handler, CreateSession, OnConnect. *)

\* The token names a user, or it does not.
Dial(c) ==
    /\ pc[Reader(c)] = "off"
    /\ \/ Login[c] # NoUser /\ Goto(Reader(c), "authenticate")
       \/ Goto(Reader(c), "register")
    /\ UNCHANGED <<obj, rest, cur, ec, registered, sessionVars, hubVars, statVars, userVars,
                   told>>

\* Session.Authenticate.
Authenticate(c) ==
    /\ pc[Reader(c)] = "authenticate" /\ Free(c)
    /\ userid' = [userid EXCEPT ![c] = Login[c]]
    /\ Goto(Reader(c), "user")
    /\ UNCHANGED <<obj, rest, cur, ec, registered, replaced, disconnected, maps, subscriptions,
                   subscribers, mutex, hubVars, statVars, userVars, told>>

Unused == {o \in UserObj : (\A u \in User : userTable[u] # o) /\ (\A t \in Thread : obj[t] # o)}

\* SessionManager.Authenticate: the User of the session, made when there is none.
FindUser(c) ==
    LET t == Reader(c)  u == userid[c] IN
    /\ pc[t] = "user" /\ managerLock = NoThread
    /\ IF userTable[u] # NoObj
         THEN /\ obj' = [obj EXCEPT ![t] = userTable[u]]
              /\ UNCHANGED <<userTable, sessionTable>>
         ELSE /\ Unused # {}
              /\ LET o == CHOOSE o \in Unused : TRUE IN
                 /\ obj' = [obj EXCEPT ![t] = o]
                 /\ userTable' = [userTable EXCEPT ![u] = o]
                 /\ sessionTable' = [sessionTable EXCEPT ![o] = [i \in Id |-> NoConn]]
    /\ Goto(t, "add")
    /\ UNCHANGED <<rest, cur, ec, registered, sessionVars, hubVars, statVars, managerLock,
                   userReaders, told>>

\* User.AddSession, after the lock of the session manager is given back.
AddSession(c) ==
    LET t == Reader(c)  o == obj[t] IN
    /\ pc[t] = "add" /\ userReaders[o] = {}
    /\ sessionTable' = [sessionTable EXCEPT ![o][SessionId[c]] = c]
    /\ obj' = [obj EXCEPT ![t] = NoObj]
    /\ Goto(t, IF registered[c] THEN "serve" ELSE "register")
    /\ UNCHANGED <<rest, cur, ec, registered, sessionVars, hubVars, statVars, userTable,
                   managerLock, userReaders, told>>

\* After hub.OnConnect: the client that was there is replaced, if one was.
NextAlways(old) == "replace"
NextStep(old)   == IF old = NoConn THEN "serve" ELSE "replace"

\* Who wants to write waits for the reader there is; those who come wait for him.
HubWait(c) ==
    /\ pc[Reader(c)] \in {"register", "unregister"} /\ ~HubWritable /\ c \notin hubWriters
    /\ hubWriters' = hubWriters \cup {c}
    /\ UNCHANGED <<threadVars, sessionVars, clients, statVars, userVars, told>>

\* hub.OnConnect.
Register(c) ==
    LET t == Reader(c)  old == clients[SessionId[c]] IN
    /\ pc[t] = "register" /\ HubWritable
    /\ clients' = [clients EXCEPT ![SessionId[c]] = c]
    /\ hubWriters' = hubWriters \ {c}
    /\ ec' = [ec EXCEPT ![c] = old]
    /\ registered' = [registered EXCEPT ![c] = TRUE]
    /\ Goto(t, NextStep(old))
    /\ UNCHANGED <<obj, rest, cur, sessionVars, statVars, userVars, told>>

\* The goroutine that closes the old client starts and the new one is served.
Replaced(c) ==
    /\ pc' = [pc EXCEPT ![Reader(c)] = "serve", ![Closer(ec[c])] = "close"]
    /\ ec' = [ec EXCEPT ![c] = NoConn]

\* ReplaceLock that gives no lock back.
ReplaceLocked(c) ==
    LET t == Reader(c) IN
    /\ pc[t] = "replace" /\ Free(ec[c])
    /\ Hold(ec[c], t)
    /\ IF disconnected[ec[c]] THEN Replaced(c) ELSE Goto(t, "inherit") /\ UNCHANGED ec
    /\ UNCHANGED <<obj, rest, cur, registered, userid, replaced, disconnected, maps,
                   subscriptions, subscribers, hubVars, statVars, userVars, told>>

\* Session.Replace with the lock of the old session: it may be closed.
ReplaceLock(c) ==
    LET t == Reader(c) IN
    /\ pc[t] = "replace" /\ Free(ec[c])
    /\ IF disconnected[ec[c]]
         THEN Replaced(c) /\ UNCHANGED mutex
         ELSE /\ Hold(ec[c], t)
              /\ Goto(t, "inherit") /\ UNCHANGED ec
    /\ UNCHANGED <<obj, rest, cur, registered, userid, replaced, disconnected, maps,
                   subscriptions, subscribers, hubVars, statVars, userVars, told>>

\* Session.Replace with both locks: the new session uses the maps of the old one.
Inherit(c) ==
    LET t == Reader(c) IN
    /\ pc[t] = "inherit" /\ Free(c)
    /\ maps' = [maps EXCEPT ![c] = maps[ec[c]]]
    /\ replaced' = [replaced EXCEPT ![ec[c]] = TRUE]
    /\ Release(ec[c])
    /\ Replaced(c)
    /\ UNCHANGED <<obj, rest, cur, registered, userid, disconnected, subscriptions, subscribers,
                   hubVars, statVars, userVars, told>>

-----------------------------------------------------------------------------
(* A connection is served. *)

\* HandleAuthentication.
HandleAuthentication(c) ==
    /\ pc[Reader(c)] = "serve" /\ userid[c] = NoUser /\ Login[c] # NoUser
    /\ Goto(Reader(c), "authenticate")
    /\ UNCHANGED <<obj, rest, cur, ec, registered, sessionVars, hubVars, statVars, userVars,
                   told>>

\* HandleSessions, with the token of a contact: GetUserSessions finds the User.
HandleSessions(c) ==
    LET t == Reader(c) IN
    /\ pc[t] = "serve" /\ managerLock = NoThread
    /\ \E u \in User :
          /\ <<c, u>> \in Contacts /\ userid[c] = Login[c] /\ userTable[u] # NoObj
          /\ obj' = [obj EXCEPT ![t] = userTable[u]]
    /\ Goto(t, "sessions")
    /\ UNCHANGED <<rest, cur, ec, registered, sessionVars, hubVars, statVars, userVars, told>>

\* The sessions of the User o, read under its lock.
ListOnce(t, o) == UNCHANGED userReaders
List(t, o)     == userReaders' = [userReaders EXCEPT ![o] = @ \cup {t}]

\* User.SubscribeSessions: the lock of the user is held until the end.
SubscribeSessions(c) ==
    LET t == Reader(c)  o == obj[t] IN
    /\ pc[t] = "sessions"
    /\ List(t, o)
    /\ rest' = [rest EXCEPT ![t] = {sessionTable[o][i] : i \in Id} \ {NoConn}]
    /\ Goto(t, "subscribe")
    /\ UNCHANGED <<obj, cur, ec, registered, sessionVars, hubVars, statVars, userTable,
                   managerLock, sessionTable, told>>

\* Session.Subscribe, with the own lock.  A closed session has new maps, which nobody
\* reads: what is put there is left out, here and below.
Subscribe(c) ==
    LET t == Reader(c) IN
    /\ pc[t] = "subscribe" /\ Free(c)
    /\ \E y \in rest[t] :
          /\ cur'  = [cur EXCEPT ![t] = y]
          /\ rest' = [rest EXCEPT ![t] = @ \ {y}]
          /\ subscriptions' = IF disconnected[c] THEN subscriptions
                              ELSE [subscriptions EXCEPT ![maps[c]] = Put(@, y)]
          /\ told' = told \ {<<c, SessionId[y]>>}
    /\ Goto(t, "subscriber")
    /\ UNCHANGED <<obj, ec, registered, userid, replaced, disconnected, maps, subscribers,
                   mutex, hubVars, statVars, userVars>>

\* Session.AddSubscriber, then Session.Data, with the lock of the other.
AddSubscriber(c) ==
    LET t == Reader(c)  y == cur[t] IN
    /\ pc[t] = "subscriber" /\ Free(y)
    /\ subscribers' = IF disconnected[y] THEN subscribers
                      ELSE [subscribers EXCEPT ![maps[y]] = Put(@, c)]
    /\ Goto(t, "data")
    /\ UNCHANGED <<obj, rest, cur, ec, registered, userid, replaced, disconnected, maps,
                   subscriptions, mutex, hubVars, statVars, userVars, told>>

Data(c) ==
    LET t == Reader(c) IN
    /\ pc[t] = "data" /\ Free(cur[t])
    /\ cur' = [cur EXCEPT ![t] = NoConn]
    /\ Goto(t, "subscribe")
    /\ UNCHANGED <<obj, rest, ec, registered, sessionVars, hubVars, statVars, userVars, told>>

Subscribed(c) ==
    LET t == Reader(c) IN
    /\ pc[t] = "subscribe" /\ rest[t] = {}
    /\ userReaders' = [userReaders EXCEPT ![obj[t]] = @ \ {t}]
    /\ obj' = [obj EXCEPT ![t] = NoObj]
    /\ Goto(t, "serve")
    /\ UNCHANGED <<rest, cur, ec, registered, sessionVars, hubVars, statVars, userTable,
                   managerLock, sessionTable, told>>

\* ReadPump ends: the client hangs up, is lost, or was closed by the closer.
Lost(c) ==
    /\ pc[Reader(c)] = "serve"
    /\ Goto(Reader(c), "close")
    /\ UNCHANGED <<obj, rest, cur, ec, registered, sessionVars, hubVars, statVars, userVars,
                   told>>

-----------------------------------------------------------------------------
(* Session.Close, by the reader or by the closer. *)

\* What the goroutine does after Close.
After(t) == IF t = Reader(Session(t)) THEN "unregister" ELSE "done"

\* Close has nothing to clean up.
CloseReturnsOnce(s) == disconnected[s]
CloseReturns(s)     == disconnected[s] \/ replaced[s]

\* A session that was closed stays so; one that was replaced only forgets its maps.
CloseLock(t) ==
    LET s == Session(t) IN
    /\ pc[t] = "close" /\ Free(s)
    /\ IF CloseReturns(s)
         THEN /\ disconnected' = [disconnected EXCEPT ![s] = TRUE]
              /\ Goto(t, After(t))
              /\ UNCHANGED <<mutex, rest>>
         ELSE /\ Hold(s, t)
              /\ rest' = [rest EXCEPT ![t] = subscribers[maps[s]]]
              /\ Goto(t, "notify")
              /\ UNCHANGED disconnected
    /\ UNCHANGED <<obj, cur, ec, registered, userid, replaced, maps, subscriptions, subscribers,
                   hubVars, statVars, userVars, told>>

\* Unicast of Left to the client the hub has for x, if any.
Tell(x, s) ==
    /\ HubReadable
    /\ LET c == clients[SessionId[x]] IN
       told' = IF c = NoConn THEN told ELSE told \cup {<<c, SessionId[s]>>}

NotifySubscriber(t) ==
    /\ pc[t] = "notify"
    /\ \E x \in rest[t] :
          /\ rest' = [rest EXCEPT ![t] = @ \ {x}]
          /\ Tell(x, Session(t))
    /\ UNCHANGED <<pc, obj, cur, ec, registered, sessionVars, hubVars, statVars, userVars>>

NotifiedSubscribers(t) ==
    /\ pc[t] = "notify" /\ rest[t] = {}
    /\ rest' = [rest EXCEPT ![t] = subscriptions[maps[Session(t)]]]
    /\ Goto(t, "unsubscribe")
    /\ UNCHANGED <<obj, cur, ec, registered, sessionVars, hubVars, statVars, userVars, told>>

\* RemoveSubscriber, with the lock of the session subscribed to.
RemoveSubscriber(t) ==
    /\ pc[t] = "unsubscribe"
    /\ \E y \in rest[t] :
          /\ Free(y)
          /\ rest' = [rest EXCEPT ![t] = @ \ {y}]
          /\ cur'  = [cur EXCEPT ![t] = y]
          /\ subscribers' =
                IF disconnected[y] THEN subscribers
                ELSE [subscribers EXCEPT ![maps[y]] = Remove(@, SessionId[Session(t)])]
    /\ Goto(t, "notifyBack")
    /\ UNCHANGED <<obj, ec, registered, userid, replaced, disconnected, maps, subscriptions,
                   mutex, hubVars, statVars, userVars, told>>

NotifyBack(t) ==
    /\ pc[t] = "notifyBack"
    /\ Tell(cur[t], Session(t))
    /\ cur' = [cur EXCEPT ![t] = NoConn]
    /\ Goto(t, "unsubscribe")
    /\ UNCHANGED <<obj, rest, ec, registered, sessionVars, hubVars, statVars, userVars>>

\* The end of Close: new maps, disconnected, and the lock is given back.
Closed(t) ==
    LET s == Session(t) IN
    /\ disconnected' = [disconnected EXCEPT ![s] = TRUE]
    /\ Release(s)
    /\ Goto(t, After(t))
    /\ UNCHANGED <<userid, replaced, maps, subscriptions, subscribers>>

\* DestroySession: nothing for a session without user, else the manager's lock.
DestroySession(t) ==
    LET s == Session(t) IN
    /\ pc[t] = "unsubscribe" /\ rest[t] = {}
    /\ \/ /\ userid[s] = NoUser
          /\ Closed(t)
          /\ UNCHANGED managerLock
       \/ /\ userid[s] # NoUser /\ managerLock = NoThread
          /\ managerLock' = t
          /\ Goto(t, "remove")
          /\ UNCHANGED sessionVars
    /\ UNCHANGED <<obj, rest, cur, ec, registered, hubVars, statVars, userTable, sessionTable,
                   userReaders, told>>

\* The sessions of the User o without the session id i.
DeleteLater(o, i)   == sessionTable
DeleteSession(o, i) == [sessionTable EXCEPT ![o][i] = NoConn]

\* User.RemoveSession, by session id; the last one takes the user off the table.
RemoveSession(t) ==
    LET s == Session(t)  u == userid[s]  o == userTable[u] IN
    /\ pc[t] = "remove"
    /\ IF o = NoObj THEN UNCHANGED <<userTable, sessionTable>>
       ELSE /\ userReaders[o] = {}
            /\ sessionTable' = DeleteSession(o, SessionId[s])
            /\ userTable' = IF \A i \in Id : DeleteSession(o, SessionId[s])[o][i] = NoConn
                              THEN [userTable EXCEPT ![u] = NoObj] ELSE userTable
    /\ managerLock' = NoThread
    /\ Closed(t)
    /\ UNCHANGED <<obj, rest, cur, ec, registered, hubVars, statVars, userReaders, told>>

\* The session ids that lose their client with the connection c.
Stale(c)      == {SessionId[c]}
Registered(c) == {i \in Id : clients[i] = c}

\* hub.OnDisconnect: only the client the hub has is taken off.
Unregister(c) ==
    /\ pc[Reader(c)] = "unregister" /\ HubWritable
    /\ clients' = [i \in Id |-> IF i \in Registered(c) THEN NoConn ELSE clients[i]]
    /\ hubWriters' = hubWriters \ {c}
    /\ Goto(Reader(c), "done")
    /\ UNCHANGED <<obj, rest, cur, ec, registered, sessionVars, statVars, userVars, told>>

-----------------------------------------------------------------------------
(* hub.ClientInfo with details: the data of every client under the hub's lock. *)

ClientInfo ==
    /\ Stats /\ ~statOn /\ HubReadable
    /\ statOn' = TRUE
    /\ statRest' = {clients[i] : i \in Id} \ {NoConn}
    /\ UNCHANGED <<threadVars, sessionVars, hubVars, userVars, told>>

ClientData ==
    /\ \E x \in statRest : Free(x) /\ statRest' = statRest \ {x}
    /\ UNCHANGED <<threadVars, sessionVars, hubVars, statOn, userVars, told>>

ClientInfoDone ==
    /\ statOn /\ statRest = {}
    /\ statOn' = FALSE
    /\ UNCHANGED <<threadVars, sessionVars, hubVars, statRest, userVars, told>>

-----------------------------------------------------------------------------

Connects(c) ==
    \/ Authenticate(c) \/ FindUser(c) \/ AddSession(c)
    \/ HubWait(c) \/ Register(c) \/ ReplaceLock(c) \/ Inherit(c)

Serves(c) ==
    \/ SubscribeSessions(c) \/ Subscribe(c) \/ AddSubscriber(c) \/ Data(c) \/ Subscribed(c)

Closes(t) ==
    \/ CloseLock(t) \/ NotifySubscriber(t) \/ NotifiedSubscribers(t)
    \/ RemoveSubscriber(t) \/ NotifyBack(t) \/ DestroySession(t) \/ RemoveSession(t)

\* What goes on by itself, and what somebody has to want.
Runs(c)   == Connects(c) \/ Serves(c) \/ Closes(Reader(c)) \/ Closes(Closer(c)) \/ Unregister(c)
Client(c) == Dial(c) \/ HandleAuthentication(c) \/ HandleSessions(c) \/ Lost(c)
Reports   == ClientData \/ ClientInfoDone

Next ==
    \/ \E c \in Conn : Runs(c) \/ Client(c)
    \/ ClientInfo \/ Reports

Spec == Init /\ [][Next]_vars

\* Goroutines run, and Go's mutexes are fair: nobody who waits is passed over for ever.
\* A closer ends with oldClient.Close(), which ends the ReadPump of the connection.
Fairness ==
    /\ \A c \in Conn :
          /\ SF_vars(Connects(c) \/ Serves(c) \/ Closes(Reader(c)) \/ Unregister(c))
          /\ SF_vars(Closes(Closer(c)))
          /\ WF_vars(pc[Closer(c)] = "done" /\ Lost(c))
    /\ SF_vars(Reports)

FairSpec == Spec /\ Fairness

-----------------------------------------------------------------------------
(* Properties. *)

Steps == {"off", "authenticate", "user", "add", "register", "replace", "inherit", "serve",
          "sessions", "subscribe", "subscriber", "data", "close", "notify", "unsubscribe",
          "notifyBack", "remove", "unregister", "done"}

\* Who is about to replace a connection has one to replace.
Replacing == \A c \in Conn : pc[Reader(c)] \in {"replace", "inherit"} <=> ec[c] # NoConn

\* Every variable has its type, and who is to replace a connection has one to replace.
TypeOK ==
    /\ pc \in [Thread -> Steps]
    /\ obj \in [Thread -> UserObj \cup {NoObj}]
    /\ rest \in [Thread -> SUBSET Conn]
    /\ cur \in [Thread -> Conn \cup {NoConn}]
    /\ ec \in [Conn -> Conn \cup {NoConn}]
    /\ registered \in [Conn -> BOOLEAN]
    /\ userid \in [Conn -> User \cup {NoUser}]
    /\ replaced \in [Conn -> BOOLEAN] /\ disconnected \in [Conn -> BOOLEAN]
    /\ maps \in [Conn -> Conn]
    /\ subscriptions \in [Conn -> SUBSET Conn] /\ subscribers \in [Conn -> SUBSET Conn]
    /\ mutex \in [Conn -> Thread \cup {NoThread}]
    /\ clients \in [Id -> Conn \cup {NoConn}]
    /\ hubWriters \subseteq Conn /\ statRest \subseteq Conn /\ statOn \in BOOLEAN
    /\ userTable \in [User -> UserObj \cup {NoObj}]
    /\ managerLock \in Thread \cup {NoThread}
    /\ sessionTable \in [UserObj -> [Id -> Conn \cup {NoConn}]]
    /\ userReaders \in [UserObj -> SUBSET Thread]
    /\ told \subseteq Conn \X Id
    /\ Replacing

\* Another connection has taken the session of c over, in the hub.
Superseded(c) == pc[Closer(c)] # "off" \/ \E d \in Conn : ec[d] = c

\* Whoever comes and goes, the hub's client of a session id is the connection that came
\* last, until that one disconnects: hub.OnDisconnect of a stale connection, however
\* late, does not take its successor off (hub.go, OnConnect and OnDisconnect).
HubHasCurrent ==
    \A c \in Conn :
       (registered[c] /\ pc[Reader(c)] # "done" /\ ~Superseded(c)) <=> clients[SessionId[c]] = c

Cleaning(t) == pc[t] \in {"notify", "unsubscribe", "notifyBack", "remove"}

\* The two goroutines of a session never clean it up both, nor does one that another
\* connection has replaced, so that what it handed over stays: Close and Replace look
\* at disconnected and replaced under the mutex they keep (session.go:227-292).
CleanedUpOnce ==
    \A c \in Conn :
       /\ ~(Cleaning(Reader(c)) /\ Cleaning(Closer(c)))
       /\ replaced[c] \/ disconnected[c] => ~Cleaning(Reader(c)) /\ ~Cleaning(Closer(c))

\* The goroutines have what their next step works on.
Locals ==
    /\ \A t \in Thread :
          /\ pc[t] \in {"subscriber", "data", "notifyBack"} => cur[t] # NoConn
          /\ pc[t] \in {"add", "sessions"} => obj[t] # NoObj
          /\ pc[t] \in {"user", "remove"} => userid[Session(t)] # NoUser
    /\ \A c \in Conn : pc[Reader(c)] = "authenticate" => Login[c] # NoUser

\* A session that waits to replace another holds that one's mutex, one that is cleaned
\* up its own.
MutexHeld ==
    /\ \A t \in Thread : Cleaning(t) => mutex[Session(t)] = t
    /\ \A c \in Conn : pc[Reader(c)] = "inherit" => mutex[ec[c]] = Reader(c)

\* The hub learns of a connection once, and only of one that it knew is there another.
KnownOnce ==
    \A c \in Conn :
       /\ pc[Reader(c)] \in {"off", "register"} => ~registered[c]
       /\ Superseded(c) => registered[c]
       /\ clients[SessionId[c]] # NoConn => SessionId[clients[SessionId[c]]] = SessionId[c]

\* The inductive invariant: what the hub and the mutexes of the sessions guarantee.
IInv == TypeOK /\ Locals /\ KnownOnce /\ HubHasCurrent /\ MutexHeld /\ CleanedUpOnce

\* c is served, and is the connection the hub has for its id.
Current(c) == pc[Reader(c)] = "serve" /\ clients[SessionId[c]] = c /\ ~disconnected[c]

\* All that was connected under the id i is gone.
Over(i) ==
    \A c \in Conn : SessionId[c] = i =>
       pc[Reader(c)] \in {"off", "done"} /\ pc[Closer(c)] \in {"off", "done"}

\* A subscription ends with a message: when a session has ended, whoever subscribed to it
\* and is still there was sent that it Left since then (session.go:254-261; "Session
\* close notification is now always sent both directions", CHANGELOG.md:275).
SubscribersTold ==
    \A c \in Conn : Current(c) =>
       \A s \in subscriptions[maps[c]] : Over(SessionId[s]) => <<c, SessionId[s]>> \in told

\* A contact finds no ghosts: when all connections with a session id are gone, no User
\* that the session manager has still lists it (session_manager.go:131-147; "Refactored
\* session cleanup to fix ghost sessions", CHANGELOG.md:359).
NoGhostFound ==
    \A u \in User, i \in Id :
       Over(i) /\ userTable[u] # NoObj => sessionTable[userTable[u]][i] = NoConn

\* Not satisfied, between hub.go:133 and session.go:290: a session is cleaned up only
\* by the connection that has it: "Sessions are no longer
\* cleaned up when another connection replaced the session and a stale connection gets
\* disconnected after that" (CHANGELOG.md:347).
StaleNotCleaned ==
    [][\A t \in Thread : ~Cleaning(t) /\ Cleaning(t)' => ~Superseded(Session(t))]_vars

\* A connection that presented its token is served in the end, whatever the connection
\* it takes the session over from is doing (client.go:95-98).
Served ==
    \A c \in Conn : pc[Reader(c)] \in {"authenticate", "register"} ~> pc[Reader(c)] = "serve"

\* A connection that was taken over ends, its own handler included (client.go:95-101).
ReplacedEnds ==
    \A c \in Conn :
       pc[Closer(c)] = "close" ~> (pc[Reader(c)] = "done" /\ pc[Closer(c)] = "done")

=============================================================================
