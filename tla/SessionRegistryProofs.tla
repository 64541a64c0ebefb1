----------------------- MODULE SessionRegistryProofs -----------------------
(***************************************************************************)
(* What holds of the hub, of the sessions' mutexes and of what a contact   *)
(* is told for any number of connections, session ids and users.           *)
(***************************************************************************)
EXTENDS SessionRegistry, TLAPS

-----------------------------------------------------------------------------
(* Goroutines. *)

\* A connection has two goroutines.
LEMMA ThreadFacts ==
    /\ \A c \in Conn : Reader(c) \in Thread /\ Closer(c) \in Thread
    /\ \A c \in Conn : Session(Reader(c)) = c /\ Session(Closer(c)) = c
    /\ \A c, d \in Conn : Reader(c) # Closer(d)
    /\ \A t \in Thread : Session(t) \in Conn /\ NoThread \notin Thread
    /\ \A t \in Thread : t = Reader(Session(t)) \/ t = Closer(Session(t))
BY RegistryAssumption DEF Thread, Reader, Closer, Session

-----------------------------------------------------------------------------
(* Types. *)

\* The types of a goroutine that moves on.
LEMMA GotoTypes ==
    ASSUME TypeOK, NEW t \in Thread, NEW p \in Steps, Goto(t, p)
    PROVE  /\ pc' \in [Thread -> Steps]
           /\ pc'[t] = p /\ \A q \in Thread \ {t} : pc'[q] = pc[q]
BY DEF TypeOK, Goto

\* The token names a user or not.
LEMMA DialTypes ==
    ASSUME TypeOK, Locals, NEW c \in Conn, Dial(c)
    PROVE  (TypeOK /\ Locals)'
<1>1. CASE Login[c] # NoUser /\ Goto(Reader(c), "authenticate")
  BY <1>1, ThreadFacts
  DEF TypeOK, Replacing, Locals, Dial, Goto, sessionVars, hubVars, statVars, userVars, Steps
<1>2. CASE Goto(Reader(c), "register")
  BY <1>2, ThreadFacts
  DEF TypeOK, Replacing, Locals, Dial, Goto, sessionVars, hubVars, statVars, userVars, Steps
<1> QED BY <1>1, <1>2 DEF Dial

\* The User found is one of the table, or a new one.
LEMMA FindUserTypes ==
    ASSUME TypeOK, Locals, NEW c \in Conn, FindUser(c)
    PROVE  (TypeOK /\ Locals)'
<1> DEFINE t == Reader(c)
           u == userid[c]
           o == CHOOSE o \in Unused : TRUE
<1>1. u \in User /\ pc[t] = "user" BY ThreadFacts DEF TypeOK, Locals, FindUser
<1>2. /\ obj' \in [Thread -> UserObj \cup {NoObj}]
      /\ userTable' \in [User -> UserObj \cup {NoObj}]
      /\ sessionTable' \in [UserObj -> [Id -> Conn \cup {NoConn}]]
      /\ obj'[t] # NoObj /\ \A q \in Thread \ {t} : obj'[q] = obj[q]
  <2>1. CASE userTable[u] # NoObj
    BY <1>1, <2>1, ThreadFacts DEF TypeOK, FindUser
  <2>2. CASE userTable[u] = NoObj
    <3>1. o \in UserObj BY <2>2 DEF FindUser, Unused
    <3> HIDE DEF o
    <3>2. /\ obj' = [obj EXCEPT ![t] = o]
          /\ userTable' = [userTable EXCEPT ![u] = o]
          /\ sessionTable' = [sessionTable EXCEPT ![o] = [i \in Id |-> NoConn]]
      BY <2>2 DEF FindUser, o
    <3> QED BY <1>1, <3>1, <3>2, ThreadFacts, RegistryAssumption DEF TypeOK
  <2> QED BY <2>1, <2>2
<1>3. /\ pc' \in [Thread -> Steps]
      /\ pc'[t] = "add" /\ \A q \in Thread \ {t} : pc'[q] = pc[q]
  BY GotoTypes, ThreadFacts DEF FindUser, Steps
<1>4. Replacing' /\ Locals'
  BY <1>1, <1>2, <1>3, ThreadFacts DEF TypeOK, Replacing, Locals, FindUser, sessionVars
<1> QED BY <1>2, <1>3, <1>4 DEF TypeOK, FindUser, sessionVars, hubVars, statVars

\* The client there was is what the session replaces.
LEMMA RegisterTypes ==
    ASSUME TypeOK, Locals, NEW c \in Conn, Register(c)
    PROVE  (TypeOK /\ Locals)'
<1> DEFINE t == Reader(c)
           old == clients[SessionId[c]]
<1>1. old \in Conn \cup {NoConn} /\ SessionId[c] \in Id BY RegistryAssumption DEF TypeOK
<1>2. NextStep(old) \in {"replace", "serve"} /\ (NextStep(old) = "replace" <=> old # NoConn)
  BY DEF NextStep
<1>3. ec' = [ec EXCEPT ![c] = old] BY DEF Register
<1> HIDE DEF old
<1>4. /\ pc' \in [Thread -> Steps]
      /\ pc'[t] \in {"replace", "serve"} /\ (pc'[t] = "replace" <=> old # NoConn)
      /\ \A q \in Thread \ {t} : pc'[q] = pc[q]
  <2>1. Goto(t, NextStep(old)) BY DEF Register, old
  <2> QED BY <1>2, <2>1, GotoTypes, ThreadFacts DEF Steps
<1>5. Replacing'
  BY <1>1, <1>3, <1>4, ThreadFacts DEF TypeOK, Replacing
<1>6. Locals'
  BY <1>4, ThreadFacts DEF Locals, Register, sessionVars
<1> QED BY <1>1, <1>3, <1>4, <1>5, <1>6
        DEF TypeOK, Register, sessionVars, statVars, userVars

\* The step of a goroutine that has replaced a connection.
LEMMA ReplacedTypes ==
    ASSUME TypeOK, NEW c \in Conn, ec[c] \in Conn, Replaced(c)
    PROVE  /\ pc' \in [Thread -> Steps] /\ ec' \in [Conn -> Conn \cup {NoConn}]
           /\ \A t \in Thread : pc'[t] \in {pc[t], "serve", "close"}
           /\ Replacing'
<1>1. /\ pc'[Reader(c)] = "serve" /\ pc'[Closer(ec[c])] = "close"
      /\ \A t \in Thread \ {Reader(c), Closer(ec[c])} : pc'[t] = pc[t]
      /\ pc' \in [Thread -> Steps]
  BY ThreadFacts DEF Replaced, TypeOK, Steps
<1>2. /\ ec' \in [Conn -> Conn \cup {NoConn}]
      /\ ec'[c] = NoConn /\ \A d \in Conn \ {c} : ec'[d] = ec[d]
  BY DEF Replaced, TypeOK
<1>3. \A d \in Conn \ {c} : pc'[Reader(d)] = pc[Reader(d)]
  BY <1>1, ThreadFacts
<1>4. Replacing'
  BY <1>1, <1>2, <1>3 DEF Replacing, TypeOK
<1> QED BY <1>1, <1>2, <1>4

\* The old session is closed, or locked.
LEMMA ReplaceLockTypes ==
    ASSUME TypeOK, Locals, NEW c \in Conn, ReplaceLock(c)
    PROVE  (TypeOK /\ Locals)'
<1>1. pc[Reader(c)] = "replace" /\ ec[c] \in Conn
  BY DEF ReplaceLock, TypeOK, Replacing
<1>2. CASE disconnected[ec[c]]
  <2>1. Replaced(c) /\ UNCHANGED mutex BY <1>2 DEF ReplaceLock
  <2>2. /\ pc' \in [Thread -> Steps] /\ ec' \in [Conn -> Conn \cup {NoConn}]
        /\ \A t \in Thread : pc'[t] \in {pc[t], "serve", "close"}
        /\ Replacing'
    BY <1>1, <2>1, ReplacedTypes
  <2>3. Locals' BY <2>2, ThreadFacts DEF Locals, ReplaceLock
  <2> QED BY <2>1, <2>2, <2>3 DEF TypeOK, ReplaceLock, hubVars, statVars, userVars
<1>3. CASE ~disconnected[ec[c]]
  <2>1. Hold(ec[c], Reader(c)) /\ Goto(Reader(c), "inherit") /\ UNCHANGED ec
    BY <1>3 DEF ReplaceLock
  <2>2. /\ pc' \in [Thread -> Steps]
        /\ pc'[Reader(c)] = "inherit" /\ \A t \in Thread \ {Reader(c)} : pc'[t] = pc[t]
    BY <2>1, GotoTypes, ThreadFacts DEF Steps
  <2>3. Replacing' BY <1>1, <2>1, <2>2, ThreadFacts DEF TypeOK, Replacing
  <2>4. Locals' BY <2>2, ThreadFacts DEF Locals, ReplaceLock
  <2>5. mutex' \in [Conn -> Thread \cup {NoThread}] BY <1>1, <2>1, ThreadFacts DEF Hold, TypeOK
  <2> QED BY <2>1, <2>2, <2>3, <2>4, <2>5 DEF TypeOK, ReplaceLock, hubVars, statVars, userVars
<1> QED BY <1>2, <1>3

\* The old session hands its maps over.
LEMMA InheritTypes ==
    ASSUME TypeOK, Locals, NEW c \in Conn, Inherit(c)
    PROVE  (TypeOK /\ Locals)'
<1>1. pc[Reader(c)] = "inherit" /\ ec[c] \in Conn /\ Replaced(c)
  BY DEF Inherit, TypeOK, Replacing
<1>2. /\ pc' \in [Thread -> Steps] /\ ec' \in [Conn -> Conn \cup {NoConn}]
      /\ \A t \in Thread : pc'[t] \in {pc[t], "serve", "close"}
      /\ Replacing'
  BY <1>1, ReplacedTypes
<1>3. Locals' BY <1>2, ThreadFacts DEF Locals, Inherit
<1>4. /\ mutex' \in [Conn -> Thread \cup {NoThread}] /\ maps' \in [Conn -> Conn]
      /\ replaced' \in [Conn -> BOOLEAN]
  BY <1>1 DEF Inherit, Release, TypeOK
<1> QED BY <1>2, <1>3, <1>4 DEF TypeOK, Inherit, hubVars, statVars, userVars

\* The sessions listed are those of a User.
LEMMA SubscribeSessionsTypes ==
    ASSUME TypeOK, Locals, NEW c \in Conn, SubscribeSessions(c)
    PROVE  (TypeOK /\ Locals)'
<1> DEFINE t == Reader(c)
           o == obj[t]
<1>1. /\ pc[t] = "sessions" /\ pc' \in [Thread -> Steps]
      /\ pc'[t] = "subscribe" /\ \A q \in Thread \ {t} : pc'[q] = pc[q]
  BY GotoTypes, ThreadFacts DEF SubscribeSessions, Steps
<1>2. o \in UserObj BY <1>1, ThreadFacts DEF TypeOK, Locals
<1>3. userReaders' \in [UserObj -> SUBSET Thread]
  BY <1>2, ThreadFacts DEF SubscribeSessions, List, TypeOK
<1>4. rest' \in [Thread -> SUBSET Conn]
  <2>1. {sessionTable[o][i] : i \in Id} \ {NoConn} \subseteq Conn BY <1>2 DEF TypeOK
  <2> QED BY <2>1, ThreadFacts DEF SubscribeSessions, TypeOK
<1>5. Replacing' /\ Locals'
  BY <1>1, ThreadFacts DEF TypeOK, Replacing, Locals, SubscribeSessions, sessionVars
<1> QED BY <1>1, <1>3, <1>4, <1>5
        DEF TypeOK, SubscribeSessions, sessionVars, hubVars, statVars

\* There is nothing to clean up, or subscribers to tell.
LEMMA CloseLockTypes ==
    ASSUME TypeOK, Locals, NEW t \in Thread, CloseLock(t)
    PROVE  (TypeOK /\ Locals)'
<1> DEFINE s == Session(t)
<1>1. s \in Conn /\ pc[t] = "close" BY ThreadFacts DEF CloseLock
<1>2. PICK p \in {"unregister", "done", "notify"} : Goto(t, p)
  BY DEF CloseLock, After
<1>3. /\ pc' \in [Thread -> Steps]
      /\ pc'[t] \in {"unregister", "done", "notify"} /\ \A q \in Thread \ {t} : pc'[q] = pc[q]
  BY <1>2, GotoTypes DEF Steps
<1>4. /\ mutex' \in [Conn -> Thread \cup {NoThread}]
      /\ disconnected' \in [Conn -> BOOLEAN]
      /\ rest' \in [Thread -> SUBSET Conn]
  <2>1. CASE CloseReturns(s) BY <1>1, <2>1 DEF CloseLock, TypeOK
  <2>2. CASE ~CloseReturns(s)
    <3>1. /\ mutex' = [mutex EXCEPT ![s] = t] /\ UNCHANGED disconnected
          /\ rest' = [rest EXCEPT ![t] = subscribers[maps[s]]]
      BY <2>2 DEF CloseLock, Hold
    <3>2. subscribers[maps[s]] \in SUBSET Conn BY <1>1 DEF TypeOK
    <3> QED BY <1>1, <3>1, <3>2 DEF TypeOK
  <2> QED BY <2>1, <2>2
<1>5. Replacing' /\ Locals'
  BY <1>1, <1>3, ThreadFacts DEF TypeOK, Replacing, Locals, CloseLock
<1> QED BY <1>3, <1>4, <1>5 DEF TypeOK, CloseLock, hubVars, statVars, userVars

\* Who is told is a client of the hub, or nobody.
LEMMA NotifyTypes ==
    ASSUME TypeOK, Locals, NEW t \in Thread, NotifySubscriber(t) \/ NotifyBack(t)
    PROVE  (TypeOK /\ Locals)'
<1>1. Session(t) \in Conn BY ThreadFacts
<1>2. ASSUME NEW x \in Conn, Tell(x, Session(t)) PROVE told' \subseteq Conn \X Id
  <2>1. clients[SessionId[x]] \in Conn \cup {NoConn} /\ SessionId[Session(t)] \in Id
    BY <1>1, RegistryAssumption DEF TypeOK
  <2> QED BY <1>2, <2>1 DEF Tell, TypeOK
<1>3. CASE NotifySubscriber(t)
  <2>1. PICK x \in rest[t] : /\ rest' = [rest EXCEPT ![t] = @ \ {x}]
                             /\ Tell(x, Session(t))
    BY <1>3 DEF NotifySubscriber
  <2>2. x \in Conn BY DEF TypeOK
  <2>3. told' \subseteq Conn \X Id BY <1>2, <2>1, <2>2
  <2>4. Replacing' /\ Locals'
    BY <1>3 DEF TypeOK, Replacing, Locals, NotifySubscriber, sessionVars
  <2> QED BY <1>3, <2>1, <2>3, <2>4
          DEF TypeOK, NotifySubscriber, sessionVars, hubVars, statVars, userVars
<1>4. CASE NotifyBack(t)
  <2>1. pc[t] = "notifyBack" /\ Tell(cur[t], Session(t)) BY <1>4 DEF NotifyBack
  <2>2. cur[t] \in Conn BY <2>1 DEF TypeOK, Locals
  <2>3. told' \subseteq Conn \X Id BY <1>2, <2>1, <2>2
  <2>4. /\ pc' \in [Thread -> Steps]
        /\ pc'[t] = "unsubscribe" /\ \A q \in Thread \ {t} : pc'[q] = pc[q]
    BY <1>4, GotoTypes DEF NotifyBack, Steps
  <2>5. Replacing' /\ Locals'
    BY <1>4, <2>1, <2>4, ThreadFacts DEF TypeOK, Replacing, Locals, NotifyBack, sessionVars
  <2> QED BY <1>4, <2>3, <2>4, <2>5
          DEF TypeOK, NotifyBack, sessionVars, hubVars, statVars, userVars
<1> QED BY <1>3, <1>4

\* The end of Close.
LEMMA ClosedTypes ==
    ASSUME TypeOK, NEW t \in Thread, pc[t] \in {"unsubscribe", "remove"}, Closed(t)
    PROVE  /\ pc' \in [Thread -> Steps]
           /\ pc'[t] \in {"unregister", "done"} /\ \A q \in Thread \ {t} : pc'[q] = pc[q]
           /\ mutex' \in [Conn -> Thread \cup {NoThread}]
           /\ disconnected' \in [Conn -> BOOLEAN]
<1>1. After(t) \in {"unregister", "done"} BY DEF After
<1>2. Goto(t, After(t)) BY DEF Closed
<1> QED BY <1>1, <1>2, GotoTypes DEF Closed, Release, TypeOK, Steps

\* Close is done, or goes on with the user.
LEMMA DestroySessionTypes ==
    ASSUME TypeOK, Locals, NEW t \in Thread, DestroySession(t)
    PROVE  (TypeOK /\ Locals)'
<1>1. pc[t] = "unsubscribe" BY DEF DestroySession
<1>2. CASE Closed(t) /\ UNCHANGED managerLock
  <2>1. Replacing' /\ Locals'
    BY <1>1, <1>2, ClosedTypes, ThreadFacts DEF TypeOK, Replacing, Locals, DestroySession, Closed
  <2> QED BY <1>1, <1>2, <2>1, ClosedTypes DEF TypeOK, DestroySession, Closed, hubVars, statVars
<1>3. CASE userid[Session(t)] # NoUser /\ managerLock' = t /\ Goto(t, "remove")
           /\ UNCHANGED sessionVars
  <2>1. /\ pc' \in [Thread -> Steps]
        /\ pc'[t] = "remove" /\ \A q \in Thread \ {t} : pc'[q] = pc[q]
    BY <1>3, GotoTypes DEF Steps
  <2>2. Replacing' /\ Locals'
    BY <1>1, <1>3, <2>1, ThreadFacts DEF TypeOK, Replacing, Locals, DestroySession, sessionVars
  <2> QED BY <1>3, <2>1, <2>2 DEF TypeOK, DestroySession, sessionVars, hubVars, statVars
<1> QED BY <1>2, <1>3 DEF DestroySession

\* The session goes, and with the last one the user.
LEMMA RemoveSessionTypes ==
    ASSUME TypeOK, Locals, NEW t \in Thread, RemoveSession(t)
    PROVE  (TypeOK /\ Locals)'
<1> DEFINE s == Session(t)
           u == userid[s]
           o == userTable[u]
<1>1. pc[t] = "remove" /\ Closed(t) /\ managerLock' = NoThread BY DEF RemoveSession
<1>2. s \in Conn /\ u \in User BY <1>1, ThreadFacts DEF TypeOK, Locals
<1>3. /\ userTable' \in [User -> UserObj \cup {NoObj}]
      /\ sessionTable' \in [UserObj -> [Id -> Conn \cup {NoConn}]]
  <2>1. CASE o = NoObj BY <2>1 DEF RemoveSession, TypeOK
  <2>2. CASE o # NoObj
    <3>1. sessionTable' = DeleteSession(o, SessionId[s])
          /\ userTable' \in {userTable, [userTable EXCEPT ![u] = NoObj]}
      BY <2>2 DEF RemoveSession
    <3>2. o \in UserObj /\ SessionId[s] \in Id BY <1>2, <2>2, RegistryAssumption DEF TypeOK
    <3> QED BY <1>2, <3>1, <3>2 DEF DeleteSession, TypeOK
  <2> QED BY <2>1, <2>2
<1>4. Replacing' /\ Locals'
  BY <1>1, ClosedTypes, ThreadFacts DEF TypeOK, Replacing, Locals, RemoveSession, Closed
<1>5. /\ pc' \in [Thread -> Steps] /\ mutex' \in [Conn -> Thread \cup {NoThread}]
      /\ disconnected' \in [Conn -> BOOLEAN]
  BY <1>1, ClosedTypes
<1>6. UNCHANGED <<obj, rest, cur, ec, registered, userid, replaced, maps, subscriptions,
                  subscribers, clients, hubWriters, statRest, statOn, userReaders, told>>
  BY <1>1 DEF RemoveSession, Closed, hubVars, statVars
<1> QED BY <1>1, <1>3, <1>4, <1>5, <1>6 DEF TypeOK

\* A connection is made.
LEMMA ConnectsTypes ==
    ASSUME TypeOK, Locals, NEW c \in Conn, Connects(c)
    PROVE  (TypeOK /\ Locals)'
<1>1. CASE Authenticate(c)
  BY <1>1, ThreadFacts, RegistryAssumption
  DEF TypeOK, Replacing, Locals, Authenticate, Goto, Free, hubVars, statVars, userVars,
      Steps
<1>2. CASE FindUser(c) BY <1>2, FindUserTypes
<1>3. CASE AddSession(c)
  BY <1>3, ThreadFacts, RegistryAssumption
  DEF TypeOK, Replacing, Locals, AddSession, Goto, sessionVars, hubVars, statVars, Steps
<1>4. CASE HubWait(c)
  BY <1>4, ThreadFacts, RegistryAssumption
  DEF TypeOK, Replacing, Locals, HubWait, threadVars, sessionVars, statVars, userVars, Steps
<1>5. CASE Register(c) BY <1>5, RegisterTypes
<1>6. CASE ReplaceLock(c) BY <1>6, ReplaceLockTypes
<1>7. CASE Inherit(c) BY <1>7, InheritTypes
<1> QED BY <1>1, <1>2, <1>3, <1>4, <1>5, <1>6, <1>7 DEF Connects

\* A contact's sessions are asked for.
LEMMA ServesTypes ==
    ASSUME TypeOK, Locals, NEW c \in Conn, Serves(c)
    PROVE  (TypeOK /\ Locals)'
<1>1. CASE SubscribeSessions(c) BY <1>1, SubscribeSessionsTypes
<1>2. CASE Subscribe(c)
  BY <1>2, ThreadFacts, RegistryAssumption
  DEF TypeOK, Replacing, Locals, Subscribe, Goto, Put, hubVars, statVars, userVars, Steps
<1>3. CASE AddSubscriber(c)
  BY <1>3, ThreadFacts, RegistryAssumption
  DEF TypeOK, Replacing, Locals, AddSubscriber, Goto, Put, hubVars, statVars, userVars,
      Steps
<1>4. CASE Data(c)
  BY <1>4, ThreadFacts, RegistryAssumption
  DEF TypeOK, Replacing, Locals, Data, Goto, sessionVars, hubVars, statVars, userVars, Steps
<1>5. CASE Subscribed(c)
  BY <1>5, ThreadFacts, RegistryAssumption
  DEF TypeOK, Replacing, Locals, Subscribed, Goto, sessionVars, hubVars, statVars, Steps
<1> QED BY <1>1, <1>2, <1>3, <1>4, <1>5 DEF Serves

\* A session is closed.
LEMMA ClosesTypes ==
    ASSUME TypeOK, Locals, NEW t \in Thread, Closes(t)
    PROVE  (TypeOK /\ Locals)'
<1>1. CASE CloseLock(t) BY <1>1, CloseLockTypes
<1>2. CASE NotifySubscriber(t) BY <1>2, NotifyTypes
<1>3. CASE NotifiedSubscribers(t)
  BY <1>3, ThreadFacts, RegistryAssumption
  DEF TypeOK, Replacing, Locals, NotifiedSubscribers, Goto, sessionVars, hubVars, statVars,
      userVars, Steps
<1>4. CASE RemoveSubscriber(t)
  BY <1>4, ThreadFacts, RegistryAssumption
  DEF TypeOK, Replacing, Locals, RemoveSubscriber, Goto, Remove, hubVars, statVars,
      userVars, Steps
<1>5. CASE NotifyBack(t) BY <1>5, NotifyTypes
<1>6. CASE DestroySession(t) BY <1>6, DestroySessionTypes
<1>7. CASE RemoveSession(t) BY <1>7, RemoveSessionTypes
<1> QED BY <1>1, <1>2, <1>3, <1>4, <1>5, <1>6, <1>7 DEF Closes

\* A client acts.
LEMMA ClientTypes ==
    ASSUME TypeOK, Locals, NEW c \in Conn, Client(c)
    PROVE  (TypeOK /\ Locals)'
<1>1. CASE Dial(c) BY <1>1, DialTypes
<1>2. CASE HandleAuthentication(c)
  BY <1>2, ThreadFacts, RegistryAssumption
  DEF TypeOK, Replacing, Locals, HandleAuthentication, Goto, sessionVars, hubVars, statVars,
      userVars, Steps
<1>3. CASE HandleSessions(c)
  BY <1>3, ThreadFacts, RegistryAssumption
  DEF TypeOK, Replacing, Locals, HandleSessions, Goto, sessionVars, hubVars, statVars,
      userVars, Steps
<1>4. CASE Lost(c)
  BY <1>4, ThreadFacts, RegistryAssumption
  DEF TypeOK, Replacing, Locals, Lost, Goto, sessionVars, hubVars, statVars, userVars, Steps
<1> QED BY <1>1, <1>2, <1>3, <1>4 DEF Client

\* The client is taken off the hub.
LEMMA UnregisterTypes ==
    ASSUME TypeOK, Locals, NEW c \in Conn, Unregister(c)
    PROVE  (TypeOK /\ Locals)'
BY ThreadFacts, RegistryAssumption
DEF TypeOK, Replacing, Locals, Unregister, Goto, Registered, sessionVars, statVars,
    userVars, Steps

\* hub.ClientInfo.
LEMMA ReportTypes ==
    ASSUME TypeOK, Locals, ClientInfo \/ Reports
    PROVE  (TypeOK /\ Locals)'
<1>1. CASE ClientInfo
  BY <1>1, ThreadFacts, RegistryAssumption
  DEF TypeOK, Replacing, Locals, ClientInfo, threadVars, sessionVars, hubVars, userVars,
      Steps
<1>2. CASE ClientData
  BY <1>2, ThreadFacts, RegistryAssumption
  DEF TypeOK, Replacing, Locals, ClientData, threadVars, sessionVars, hubVars, userVars,
      Steps
<1>3. CASE ClientInfoDone
  BY <1>3, ThreadFacts, RegistryAssumption
  DEF TypeOK, Replacing, Locals, ClientInfoDone, threadVars, sessionVars, hubVars, userVars,
      Steps
<1> QED BY <1>1, <1>2, <1>3 DEF Reports

\* The types after any step.
LEMMA TypeStep ==
    ASSUME TypeOK, Locals, [Next]_vars
    PROVE  (TypeOK /\ Locals)'
<1>1. CASE UNCHANGED vars
  BY <1>1 DEF vars, threadVars, sessionVars, hubVars, statVars, userVars, TypeOK, Replacing,
              Locals
<1>2. CASE ClientInfo \/ Reports BY <1>2, ReportTypes
<1>3. ASSUME NEW c \in Conn, Runs(c) \/ Client(c) PROVE (TypeOK /\ Locals)'
  BY <1>3, ConnectsTypes, ServesTypes, ClosesTypes, ClientTypes, UnregisterTypes, ThreadFacts
  DEF Runs
<1> QED BY <1>1, <1>2, <1>3 DEF Next

\* The types at the start.
LEMMA InitTypes == Init => TypeOK /\ Locals
<1> SUFFICES ASSUME Init PROVE TypeOK /\ Locals
  OBVIOUS
<1>1. pc \in [Thread -> Steps] /\ \A t \in Thread : pc[t] = "off"
  BY DEF Init, Steps
<1>2. Locals BY <1>1, ThreadFacts DEF Locals
<1>3. Replacing BY <1>1, ThreadFacts DEF Init, Replacing
<1>4. /\ managerLock \in Thread \cup {NoThread}
      /\ mutex \in [Conn -> Thread \cup {NoThread}]
      /\ sessionTable \in [UserObj -> [Id -> Conn \cup {NoConn}]]
      /\ userReaders \in [UserObj -> SUBSET Thread]
  BY DEF Init
<1>5. /\ obj \in [Thread -> UserObj \cup {NoObj}]
      /\ rest \in [Thread -> SUBSET Conn]
      /\ cur \in [Thread -> Conn \cup {NoConn}]
  BY DEF Init
<1> QED BY <1>1, <1>2, <1>3, <1>4, <1>5 DEF Init, TypeOK

\* Every variable keeps its type, whatever connections come and go.
THEOREM TypeCorrect == Spec => []TypeOK
<1>1. TypeOK /\ Locals /\ [Next]_vars => (TypeOK /\ Locals)' BY TypeStep
<1> QED BY <1>1, InitTypes, PTL DEF Spec

-----------------------------------------------------------------------------
(* What the hub and the mutexes guarantee. *)

\* The inductive invariant without the types.
HubInv == KnownOnce /\ HubHasCurrent /\ MutexHeld /\ CleanedUpOnce

\* What HubInv speaks of, the steps of the goroutines apart.
hubInvVars == <<clients, ec, registered, replaced, disconnected, mutex>>

\* Who has superseded whom does not change, and the hub's part of HubInv survives, when a
\* goroutine moves on without a client or the end of its connection.
LEMMA HubFrame ==
    ASSUME TypeOK, HubInv, UNCHANGED <<clients, ec, registered>>,
           NEW t \in Thread, NEW p, Goto(t, p), p # "off",
           p = "register" => ~registered[Session(t)],
           t = Reader(Session(t)) => pc[t] # "done" /\ p # "done",
           t = Closer(Session(t)) => pc[t] # "off"
    PROVE  KnownOnce' /\ HubHasCurrent'
<1>1. /\ pc'[t] = p /\ \A q \in Thread \ {t} : pc'[q] = pc[q]
  BY DEF Goto, TypeOK
<1>2. \A c \in Conn : /\ pc'[Closer(c)] # "off" <=> pc[Closer(c)] # "off"
                      /\ pc'[Reader(c)] # "done" <=> pc[Reader(c)] # "done"
                      /\ pc'[Reader(c)] \in {"off", "register"} =>
                            pc[Reader(c)] \in {"off", "register"} \/ ~registered[c]
  BY <1>1, ThreadFacts
<1>3. \A c \in Conn : Superseded(c)' <=> Superseded(c)
  BY <1>2 DEF Superseded
<1>4. KnownOnce'
  BY <1>2, <1>3 DEF HubInv, KnownOnce
<1>5. HubHasCurrent'
  BY <1>2, <1>3 DEF HubInv, HubHasCurrent
<1> QED BY <1>4, <1>5

\* The same for all of HubInv, when there is no lock either.
LEMMA Frame ==
    ASSUME TypeOK, HubInv, UNCHANGED hubInvVars,
           NEW t \in Thread, NEW p, Goto(t, p),
           pc[t] # "done", p \notin {"off", "inherit", "done"},
           p \in {"notify", "unsubscribe", "notifyBack", "remove"} => Cleaning(t),
           p = "register" => ~registered[Session(t)],
           t = Closer(Session(t)) => pc[t] # "off"
    PROVE  HubInv'
<1>1. /\ pc'[t] = p /\ \A q \in Thread \ {t} : pc'[q] = pc[q]
  BY DEF Goto, TypeOK
<1>2. KnownOnce' /\ HubHasCurrent'
  BY HubFrame DEF hubInvVars
<1>3. \A q \in Thread : Cleaning(q)' => Cleaning(q)
  BY <1>1 DEF Cleaning
<1>4. \A c \in Conn : pc'[Reader(c)] = "inherit" => pc[Reader(c)] = "inherit"
  BY <1>1, ThreadFacts
<1>5. MutexHeld'
  BY <1>3, <1>4 DEF HubInv, MutexHeld, hubInvVars
<1>6. CleanedUpOnce'
  BY <1>3, ThreadFacts DEF HubInv, CleanedUpOnce, hubInvVars
<1> QED BY <1>2, <1>5, <1>6 DEF HubInv

\* No goroutine moves.
LEMMA Still ==
    ASSUME HubInv, UNCHANGED <<pc, hubInvVars>>
    PROVE  HubInv'
BY DEF HubInv, KnownOnce, HubHasCurrent, Superseded, MutexHeld, CleanedUpOnce, Cleaning,
       hubInvVars

\* A connection that the hub does not know yet starts.
LEMMA DialHub ==
    ASSUME TypeOK, HubInv, NEW c \in Conn, Dial(c)
    PROVE  HubInv'
<1>1. PICK p \in {"authenticate", "register"} : Goto(Reader(c), p)
  BY DEF Dial
<1>2. UNCHANGED hubInvVars /\ pc[Reader(c)] = "off" /\ ~registered[c]
  BY DEF Dial, sessionVars, hubVars, hubInvVars, HubInv, KnownOnce
<1> QED BY <1>1, <1>2, Frame, ThreadFacts

\* A connection registers once.
LEMMA AddSessionHub ==
    ASSUME TypeOK, HubInv, NEW c \in Conn, AddSession(c)
    PROVE  HubInv'
<1>1. UNCHANGED hubInvVars /\ pc[Reader(c)] = "add"
  BY DEF AddSession, sessionVars, hubVars, hubInvVars
<1>2. CASE registered[c]
  <2>1. Goto(Reader(c), "serve") BY <1>2 DEF AddSession
  <2> QED BY <1>1, <2>1, Frame, ThreadFacts
<1>3. CASE ~registered[c]
  <2>1. Goto(Reader(c), "register") BY <1>3 DEF AddSession
  <2> QED BY <1>1, <1>3, <2>1, Frame, ThreadFacts
<1> QED BY <1>2, <1>3

\* Who waits for the hub has done nothing.
LEMMA HubWaitHub ==
    ASSUME TypeOK, HubInv, NEW c \in Conn, HubWait(c)
    PROVE  HubInv'
BY Still DEF HubWait, threadVars, sessionVars, hubInvVars

\* The client there was is superseded by the new one.
LEMMA RegisterHub ==
    ASSUME TypeOK, TypeOK', HubInv, NEW c \in Conn, Register(c)
    PROVE  HubInv'
<1> DEFINE old == clients[SessionId[c]]
<1>1. /\ pc[Reader(c)] = "register" /\ ~registered[c] /\ ec[c] = NoConn /\ ~Superseded(c)
      /\ SessionId[c] \in Id /\ old \in Conn \cup {NoConn}
  <2>1. pc[Reader(c)] = "register" BY DEF Register
  <2>2. ~registered[c] /\ ~Superseded(c) BY <2>1 DEF HubInv, KnownOnce
  <2> QED BY <2>1, <2>2, RegistryAssumption DEF TypeOK, Replacing
<1>2. /\ clients' = [clients EXCEPT ![SessionId[c]] = c]
      /\ ec' = [ec EXCEPT ![c] = old]
      /\ registered' = [registered EXCEPT ![c] = TRUE]
      /\ Goto(Reader(c), NextStep(old))
      /\ UNCHANGED <<replaced, disconnected, mutex>>
  BY DEF Register, sessionVars
<1>3. NextStep(old) \in {"serve", "replace"} BY DEF NextStep
<1> HIDE DEF old
<1>4. /\ pc'[Reader(c)] \in {"serve", "replace"}
      /\ \A q \in Thread \ {Reader(c)} : pc'[q] = pc[q]
  BY <1>2, <1>3, ThreadFacts DEF Goto, TypeOK
<1>5. \A d \in Conn : /\ d # c => pc'[Reader(d)] = pc[Reader(d)] /\ ec'[d] = ec[d]
                      /\ pc'[Closer(d)] = pc[Closer(d)]
                      /\ registered'[d] <=> (d = c \/ registered[d])
  BY <1>2, <1>4, ThreadFacts DEF TypeOK
<1>6. old = NoConn \/ (registered[old] /\ old # c /\ SessionId[old] = SessionId[c])
  <2>1. old # NoConn => /\ old \in Conn /\ SessionId[old] = SessionId[c]
                        /\ clients[SessionId[old]] = old
    BY <1>1 DEF HubInv, KnownOnce, old
  <2> QED BY <2>1, <1>1 DEF HubInv, HubHasCurrent
<1>7. \A d \in Conn : Superseded(d)' <=> Superseded(d) \/ d = old
  <2> SUFFICES ASSUME NEW d \in Conn PROVE Superseded(d)' <=> Superseded(d) \/ d = old
    OBVIOUS
  <2>1. (\E e \in Conn : ec'[e] = d) <=> (\E e \in Conn : ec[e] = d) \/ d = old
    <3>1. ec'[c] = old /\ ec[c] # d BY <1>1, <1>2, RegistryAssumption DEF TypeOK
    <3>2. \A e \in Conn : e # c => ec'[e] = ec[e] BY <1>5
    <3> QED BY <3>1, <3>2
  <2> QED BY <2>1, <1>5 DEF Superseded
<1>8. KnownOnce'
  <2> SUFFICES ASSUME NEW d \in Conn
               PROVE  /\ pc'[Reader(d)] \in {"off", "register"} => ~registered'[d]
                      /\ Superseded(d)' => registered'[d]
                      /\ clients'[SessionId[d]] # NoConn =>
                            SessionId[clients'[SessionId[d]]] = SessionId[d]
    BY DEF KnownOnce
  <2>1. pc'[Reader(d)] \in {"off", "register"} => ~registered'[d]
    BY <1>4, <1>5 DEF HubInv, KnownOnce
  <2>2. Superseded(d)' => registered'[d]
    BY <1>5, <1>6, <1>7, RegistryAssumption DEF HubInv, KnownOnce
  <2>3. clients'[SessionId[d]] # NoConn => SessionId[clients'[SessionId[d]]] = SessionId[d]
    BY <1>1, <1>2, RegistryAssumption DEF HubInv, KnownOnce, TypeOK
  <2> QED BY <2>1, <2>2, <2>3
<1>9. HubHasCurrent'
  <2> SUFFICES ASSUME NEW d \in Conn
               PROVE  (registered'[d] /\ pc'[Reader(d)] # "done" /\ ~Superseded(d)')
                         <=> clients'[SessionId[d]] = d
    BY DEF HubHasCurrent
  <2>1. (registered[d] /\ pc[Reader(d)] # "done" /\ ~Superseded(d)) <=> clients[SessionId[d]] = d
    BY DEF HubInv, HubHasCurrent
  <2>5. clients'[SessionId[d]] = IF SessionId[d] = SessionId[c] THEN c ELSE clients[SessionId[d]]
    BY <1>2, RegistryAssumption DEF TypeOK
  <2>2. CASE d = c
    BY <2>2, <2>5, <1>1, <1>4, <1>5, <1>6, <1>7, RegistryAssumption
  <2>3. CASE d # c /\ SessionId[d] = SessionId[c]
    <3>1. clients[SessionId[d]] = old BY <2>3 DEF old
    <3> QED BY <2>1, <2>3, <2>5, <3>1, <1>5, <1>7
  <2>4. CASE d # c /\ SessionId[d] # SessionId[c]
    <3>1. d # old BY <2>4, <1>6, RegistryAssumption
    <3> QED BY <2>1, <2>4, <2>5, <3>1, <1>5, <1>7
  <2> QED BY <2>2, <2>3, <2>4
<1>10. \A q \in Thread : Cleaning(q)' => Cleaning(q)
  BY <1>4 DEF Cleaning
<1>11. MutexHeld'
  BY <1>2, <1>4, <1>5, <1>10 DEF HubInv, MutexHeld
<1>12. CleanedUpOnce'
  BY <1>2, <1>10, ThreadFacts DEF HubInv, CleanedUpOnce
<1> QED BY <1>8, <1>9, <1>11, <1>12 DEF HubInv

\* Nobody cleans up a session whose mutex is free, nor one that somebody else holds.
LEMMA FreeFacts ==
    ASSUME HubInv, NEW s \in Conn, Free(s)
    PROVE  /\ \A q \in Thread : Session(q) = s => ~Cleaning(q)
           /\ \A c \in Conn : pc[Reader(c)] = "inherit" => ec[c] # s
BY ThreadFacts DEF HubInv, MutexHeld, Free

\* The connection replaced is closed, and still superseded.
LEMMA ReplacedHub ==
    ASSUME TypeOK, HubInv, NEW c \in Conn, pc[Reader(c)] \in {"replace", "inherit"},
           Replaced(c), UNCHANGED <<clients, registered>>
    PROVE  /\ KnownOnce' /\ HubHasCurrent'
           /\ \A q \in Thread : Cleaning(q)' => Cleaning(q)
           /\ \A d \in Conn : pc'[Reader(d)] = "inherit" =>
                 pc[Reader(d)] = "inherit" /\ d # c /\ ec'[d] = ec[d]
<1>1. ec[c] \in Conn BY DEF TypeOK, Replacing
<1>2. /\ pc'[Reader(c)] = "serve" /\ pc'[Closer(ec[c])] = "close"
      /\ \A q \in Thread \ {Reader(c), Closer(ec[c])} : pc'[q] = pc[q]
  BY <1>1, ThreadFacts DEF Replaced, TypeOK
<1>3. ec'[c] = NoConn /\ \A d \in Conn \ {c} : ec'[d] = ec[d]
  BY DEF Replaced, TypeOK
<1>4. \A d \in Conn : /\ pc'[Reader(d)] # "done" <=> pc[Reader(d)] # "done"
                      /\ pc'[Reader(d)] \in {"off", "register", "inherit"} =>
                            pc'[Reader(d)] = pc[Reader(d)] /\ d # c
  BY <1>1, <1>2, ThreadFacts
<1>5. \A d \in Conn : Superseded(d)' <=> Superseded(d)
  <2> SUFFICES ASSUME NEW d \in Conn PROVE Superseded(d)' <=> Superseded(d)
    OBVIOUS
  <2>1. CASE d = ec[c]
    BY <2>1, <1>2 DEF Superseded
  <2>2. CASE d # ec[c]
    <3>1. Closer(d) # Closer(ec[c]) /\ Closer(d) # Reader(c) BY <1>1, <2>2, ThreadFacts
    <3>2. pc'[Closer(d)] = pc[Closer(d)] BY <3>1, <1>2, ThreadFacts
    <3>3. (\E e \in Conn : ec'[e] = d) <=> (\E e \in Conn : ec[e] = d)
      BY <1>3, <2>2, RegistryAssumption
    <3> QED BY <3>2, <3>3 DEF Superseded
  <2> QED BY <2>1, <2>2
<1>6. KnownOnce' BY <1>4, <1>5 DEF HubInv, KnownOnce
<1>7. HubHasCurrent' BY <1>4, <1>5 DEF HubInv, HubHasCurrent
<1>8. \A q \in Thread : Cleaning(q)' => Cleaning(q)
  BY <1>1, <1>2, ThreadFacts DEF Cleaning
<1> QED BY <1>3, <1>4, <1>6, <1>7, <1>8

\* The old session is closed, or locked for the new one.
LEMMA ReplaceLockHub ==
    ASSUME TypeOK, HubInv, NEW c \in Conn, ReplaceLock(c)
    PROVE  HubInv'
<1> DEFINE old == ec[c]
<1>1. /\ pc[Reader(c)] = "replace" /\ Free(old) /\ old \in Conn
      /\ UNCHANGED <<clients, registered, replaced, disconnected>>
  BY DEF ReplaceLock, hubVars, TypeOK, Replacing
<1>2. CASE disconnected[old]
  <2>1. Replaced(c) /\ UNCHANGED mutex BY <1>2 DEF ReplaceLock
  <2>2. /\ KnownOnce' /\ HubHasCurrent'
        /\ \A q \in Thread : Cleaning(q)' => Cleaning(q)
        /\ \A d \in Conn : pc'[Reader(d)] = "inherit" =>
              pc[Reader(d)] = "inherit" /\ d # c /\ ec'[d] = ec[d]
    BY <1>1, <2>1, ReplacedHub
  <2>3. MutexHeld' BY <2>1, <2>2 DEF HubInv, MutexHeld
  <2>4. CleanedUpOnce' BY <1>1, <2>2, ThreadFacts DEF HubInv, CleanedUpOnce
  <2> QED BY <2>2, <2>3, <2>4 DEF HubInv
<1>3. CASE ~disconnected[old]
  <2>1. Hold(old, Reader(c)) /\ Goto(Reader(c), "inherit") /\ UNCHANGED ec
    BY <1>3 DEF ReplaceLock
  <2>2. KnownOnce' /\ HubHasCurrent'
    BY <1>1, <2>1, HubFrame, ThreadFacts
  <2>3. /\ mutex'[old] = Reader(c) /\ \A d \in Conn \ {old} : mutex'[d] = mutex[d]
        /\ pc'[Reader(c)] = "inherit" /\ \A q \in Thread \ {Reader(c)} : pc'[q] = pc[q]
    BY <1>1, <2>1, ThreadFacts DEF Hold, Goto, TypeOK
  <2>4. \A q \in Thread : Cleaning(q)' => Cleaning(q)
    BY <2>3 DEF Cleaning
  <2>5. MutexHeld'
    <3>1. \A q \in Thread : Cleaning(q)' => mutex'[Session(q)] = q
      BY <1>1, <2>3, <2>4, FreeFacts, ThreadFacts DEF HubInv, MutexHeld
    <3>2. \A d \in Conn : pc'[Reader(d)] = "inherit" => mutex'[ec'[d]] = Reader(d)
      <4> SUFFICES ASSUME NEW d \in Conn, pc'[Reader(d)] = "inherit"
                   PROVE  mutex'[ec[d]] = Reader(d)
        BY <2>1
      <4>1. CASE d = c BY <4>1, <2>3
      <4>2. CASE d # c
        <5>1. pc[Reader(d)] = "inherit" BY <4>2, <2>3, ThreadFacts
        <5>2. ec[d] \in Conn /\ ec[d] # old /\ mutex[ec[d]] = Reader(d)
          BY <5>1, <1>1, FreeFacts DEF HubInv, MutexHeld, TypeOK, Replacing
        <5> QED BY <5>2, <2>3
      <4> QED BY <4>1, <4>2
    <3> QED BY <3>1, <3>2 DEF MutexHeld
  <2>6. CleanedUpOnce' BY <1>1, <2>4, ThreadFacts DEF HubInv, CleanedUpOnce
  <2> QED BY <2>2, <2>5, <2>6 DEF HubInv
<1> QED BY <1>2, <1>3

\* The old session is marked while nobody can clean it up.
LEMMA InheritHub ==
    ASSUME TypeOK, HubInv, NEW c \in Conn, Inherit(c)
    PROVE  HubInv'
<1> DEFINE old == ec[c]
<1>1. /\ pc[Reader(c)] = "inherit" /\ old \in Conn /\ mutex[old] = Reader(c)
      /\ Replaced(c) /\ UNCHANGED <<clients, registered, disconnected>>
      /\ replaced' = [replaced EXCEPT ![old] = TRUE] /\ Release(old)
  BY DEF Inherit, hubVars, TypeOK, Replacing, HubInv, MutexHeld
<1>2. /\ KnownOnce' /\ HubHasCurrent'
      /\ \A q \in Thread : Cleaning(q)' => Cleaning(q)
      /\ \A d \in Conn : pc'[Reader(d)] = "inherit" =>
            pc[Reader(d)] = "inherit" /\ d # c /\ ec'[d] = ec[d]
  BY <1>1, ReplacedHub
<1>3. \A q \in Thread : Session(q) = old => ~Cleaning(q)
  BY <1>1 DEF HubInv, MutexHeld, Cleaning
<1>4. \A d \in Conn \ {old} : mutex'[d] = mutex[d] /\ replaced'[d] = replaced[d]
  BY <1>1 DEF Release, TypeOK
<1>5. MutexHeld'
  <2>1. \A q \in Thread : Cleaning(q)' => mutex'[Session(q)] = q
    BY <1>2, <1>3, <1>4, ThreadFacts DEF HubInv, MutexHeld
  <2>2. ASSUME NEW d \in Conn, pc'[Reader(d)] = "inherit"
        PROVE  mutex'[ec'[d]] = Reader(d)
    <3>1. pc[Reader(d)] = "inherit" /\ d # c /\ ec'[d] = ec[d] BY <1>2, <2>2
    <3>2. ec[d] \in Conn /\ mutex[ec[d]] = Reader(d)
      BY <3>1 DEF HubInv, MutexHeld, TypeOK, Replacing
    <3>3. ec[d] # old BY <1>1, <3>1, <3>2, ThreadFacts
    <3> QED BY <1>4, <3>1, <3>2, <3>3
  <2> QED BY <2>1, <2>2 DEF MutexHeld
<1>6. CleanedUpOnce'
  BY <1>1, <1>2, <1>3, <1>4, ThreadFacts DEF HubInv, CleanedUpOnce
<1> QED BY <1>2, <1>5, <1>6 DEF HubInv

\* Close with the mutex just taken: nobody else cleans the session up.
LEMMA CloseLockHub ==
    ASSUME TypeOK, HubInv, NEW t \in Thread, CloseLock(t)
    PROVE  HubInv'
<1> DEFINE s == Session(t)
<1>1. /\ pc[t] = "close" /\ s \in Conn /\ Free(s)
      /\ UNCHANGED <<clients, ec, registered, replaced>>
  BY ThreadFacts DEF CloseLock, hubVars
<1>2. /\ \A q \in Thread : Session(q) = s => ~Cleaning(q)
      /\ \A c \in Conn : pc[Reader(c)] = "inherit" => ec[c] # s
  BY <1>1, FreeFacts
<1>3. CASE CloseReturns(s)
  <2>1. /\ disconnected' = [disconnected EXCEPT ![s] = TRUE] /\ UNCHANGED mutex
        /\ Goto(t, After(t))
    BY <1>3 DEF CloseLock
  <2>2. /\ After(t) \in {"unregister", "done"}
        /\ t = Reader(Session(t)) => After(t) # "done"
    BY DEF After
  <2>3. KnownOnce' /\ HubHasCurrent'
    BY <1>1, <2>1, <2>2, HubFrame
  <2>4. pc'[t] = After(t) /\ \A q \in Thread \ {t} : pc'[q] = pc[q]
    BY <2>1 DEF Goto, TypeOK
  <2>5. /\ \A q \in Thread : Cleaning(q)' => Cleaning(q)
        /\ \A c \in Conn : pc'[Reader(c)] = "inherit" => pc[Reader(c)] = "inherit"
    BY <2>2, <2>4, ThreadFacts DEF Cleaning
  <2>6. MutexHeld' BY <1>1, <2>1, <2>5 DEF HubInv, MutexHeld
  <2>7. CleanedUpOnce'
    BY <1>1, <1>2, <2>1, <2>5, ThreadFacts DEF HubInv, CleanedUpOnce, TypeOK
  <2> QED BY <2>3, <2>6, <2>7 DEF HubInv
<1>4. CASE ~CloseReturns(s)
  <2>1. Hold(s, t) /\ UNCHANGED disconnected /\ Goto(t, "notify")
    BY <1>4 DEF CloseLock
  <2>2. KnownOnce' /\ HubHasCurrent'
    BY <1>1, <2>1, HubFrame
  <2>3. /\ pc'[t] = "notify" /\ \A q \in Thread \ {t} : pc'[q] = pc[q]
        /\ mutex'[s] = t /\ \A d \in Conn \ {s} : mutex'[d] = mutex[d]
    BY <1>1, <2>1 DEF Goto, Hold, TypeOK
  <2>4. /\ \A q \in Thread \ {t} : Cleaning(q)' => Cleaning(q)
        /\ \A c \in Conn : pc'[Reader(c)] = "inherit" => pc[Reader(c)] = "inherit"
    BY <2>3, ThreadFacts DEF Cleaning
  <2>5. MutexHeld'
    <3>1. \A q \in Thread : Cleaning(q)' => mutex'[Session(q)] = q
      BY <1>2, <2>3, <2>4, ThreadFacts DEF HubInv, MutexHeld
    <3>2. \A c \in Conn : pc'[Reader(c)] = "inherit" => mutex'[ec'[c]] = Reader(c)
      BY <1>1, <1>2, <2>3, <2>4 DEF HubInv, MutexHeld, TypeOK, Replacing
    <3> QED BY <3>1, <3>2 DEF MutexHeld
  <2>6. CleanedUpOnce'
    <3> SUFFICES ASSUME NEW c \in Conn
                 PROVE  /\ ~(Cleaning(Reader(c))' /\ Cleaning(Closer(c))')
                        /\ replaced'[c] \/ disconnected'[c] =>
                              ~Cleaning(Reader(c))' /\ ~Cleaning(Closer(c))'
      BY DEF CleanedUpOnce
    <3>1. CASE c = s
      BY <3>1, <1>1, <1>2, <1>4, <2>1, <2>4, ThreadFacts DEF CloseReturns
    <3>2. CASE c # s
      BY <3>2, <1>1, <2>1, <2>4, ThreadFacts DEF HubInv, CleanedUpOnce
    <3> QED BY <3>1, <3>2
  <2> QED BY <2>2, <2>5, <2>6 DEF HubInv
<1> QED BY <1>3, <1>4

\* The end of Close: the mutex was its own.
LEMMA ClosedHub ==
    ASSUME TypeOK, HubInv, NEW t \in Thread, Cleaning(t), Closed(t),
           UNCHANGED <<clients, ec, registered>>
    PROVE  HubInv'
<1> DEFINE s == Session(t)
<1>1. /\ s \in Conn /\ mutex[s] = t
      /\ disconnected' = [disconnected EXCEPT ![s] = TRUE] /\ UNCHANGED replaced
      /\ Release(s) /\ Goto(t, After(t))
  BY ThreadFacts DEF Closed, HubInv, MutexHeld
<1>2. /\ After(t) \in {"unregister", "done"}
      /\ t = Reader(Session(t)) => After(t) # "done"
  BY DEF After
<1>3. KnownOnce' /\ HubHasCurrent'
  <2>1. pc[t] \notin {"off", "done"} BY DEF Cleaning
  <2> QED BY <1>1, <1>2, <2>1, HubFrame
<1>4. /\ pc'[t] = After(t) /\ \A q \in Thread \ {t} : pc'[q] = pc[q]
      /\ \A d \in Conn \ {s} : mutex'[d] = mutex[d] /\ disconnected'[d] = disconnected[d]
  BY <1>1 DEF Goto, Release, TypeOK
<1>5. /\ \A q \in Thread : Cleaning(q)' => Cleaning(q) /\ q # t
      /\ \A c \in Conn : pc'[Reader(c)] = "inherit" => pc[Reader(c)] = "inherit"
  BY <1>2, <1>4, ThreadFacts DEF Cleaning
<1>6. \A q \in Thread : Cleaning(q)' => Session(q) # s
  BY <1>1, <1>5 DEF HubInv, MutexHeld
<1>7. MutexHeld'
  <2>1. \A q \in Thread : Cleaning(q)' => mutex'[Session(q)] = q
    BY <1>4, <1>5, <1>6, ThreadFacts DEF HubInv, MutexHeld
  <2>2. ASSUME NEW c \in Conn, pc'[Reader(c)] = "inherit"
        PROVE  mutex'[ec'[c]] = Reader(c)
    <3>1. pc[Reader(c)] = "inherit" /\ ~Cleaning(Reader(c)) BY <2>2, <1>5 DEF Cleaning
    <3>2. ec[c] \in Conn /\ mutex[ec[c]] = Reader(c)
      BY <3>1 DEF HubInv, MutexHeld, TypeOK, Replacing
    <3> QED BY <1>1, <1>4, <3>1, <3>2
  <2> QED BY <2>1, <2>2 DEF MutexHeld
<1>8. CleanedUpOnce'
  BY <1>1, <1>4, <1>5, <1>6, ThreadFacts DEF HubInv, CleanedUpOnce
<1> QED BY <1>3, <1>7, <1>8 DEF HubInv

\* The other steps of Close.
LEMMA ClosesHub ==
    ASSUME TypeOK, HubInv, NEW t \in Thread, Closes(t)
    PROVE  HubInv'
<1>1. CASE CloseLock(t) BY <1>1, CloseLockHub
<1>2. CASE NotifySubscriber(t)
  BY <1>2, Still DEF NotifySubscriber, sessionVars, hubVars, hubInvVars
<1>3. CASE NotifiedSubscribers(t)
  <2>1. UNCHANGED hubInvVars /\ pc[t] = "notify" /\ Goto(t, "unsubscribe")
    BY <1>3 DEF NotifiedSubscribers, sessionVars, hubVars, hubInvVars
  <2> QED BY <2>1, Frame DEF Cleaning
<1>4. CASE RemoveSubscriber(t)
  <2>1. UNCHANGED hubInvVars /\ pc[t] = "unsubscribe" /\ Goto(t, "notifyBack")
    BY <1>4 DEF RemoveSubscriber, sessionVars, hubVars, hubInvVars
  <2> QED BY <2>1, Frame DEF Cleaning
<1>5. CASE NotifyBack(t)
  <2>1. UNCHANGED hubInvVars /\ pc[t] = "notifyBack" /\ Goto(t, "unsubscribe")
    BY <1>5 DEF NotifyBack, sessionVars, hubVars, hubInvVars
  <2> QED BY <2>1, Frame DEF Cleaning
<1>6. CASE DestroySession(t)
  <2>1. pc[t] = "unsubscribe" /\ UNCHANGED <<clients, ec, registered>>
    BY <1>6 DEF DestroySession, hubVars
  <2>2. CASE Closed(t) BY <2>1, <2>2, ClosedHub DEF Cleaning
  <2>3. CASE Goto(t, "remove") /\ UNCHANGED sessionVars
    <3>1. UNCHANGED hubInvVars BY <2>1, <2>3 DEF sessionVars, hubInvVars
    <3> QED BY <2>1, <2>3, <3>1, Frame DEF Cleaning
  <2> QED BY <1>6, <2>2, <2>3 DEF DestroySession
<1>7. CASE RemoveSession(t)
  <2>1. pc[t] = "remove" /\ Closed(t) /\ UNCHANGED <<clients, ec, registered>>
    BY <1>7 DEF RemoveSession, hubVars
  <2> QED BY <2>1, ClosedHub DEF Cleaning
<1> QED BY <1>1, <1>2, <1>3, <1>4, <1>5, <1>6, <1>7 DEF Closes

\* Only the client that the hub has is taken off.
LEMMA UnregisterHub ==
    ASSUME TypeOK, HubInv, NEW c \in Conn, Unregister(c)
    PROVE  HubInv'
<1>1. /\ pc[Reader(c)] = "unregister" /\ Goto(Reader(c), "done")
      /\ clients' = [i \in Id |-> IF clients[i] = c THEN NoConn ELSE clients[i]]
      /\ UNCHANGED <<ec, registered, replaced, disconnected, mutex>>
  BY DEF Unregister, Registered, sessionVars
<1>2. pc'[Reader(c)] = "done" /\ \A q \in Thread \ {Reader(c)} : pc'[q] = pc[q]
  BY <1>1, ThreadFacts DEF Goto, TypeOK
<1>3. \A d \in Conn : /\ pc'[Closer(d)] = pc[Closer(d)]
                      /\ d # c => pc'[Reader(d)] = pc[Reader(d)]
  BY <1>2, ThreadFacts
<1>4. \A d \in Conn : Superseded(d)' <=> Superseded(d)
  BY <1>1, <1>3 DEF Superseded
<1>5. \A d \in Conn : clients'[SessionId[d]] =
         IF clients[SessionId[d]] = c THEN NoConn ELSE clients[SessionId[d]]
  BY <1>1, RegistryAssumption
<1>6. KnownOnce'
  BY <1>1, <1>2, <1>3, <1>4, <1>5 DEF HubInv, KnownOnce
<1>7. HubHasCurrent'
  <2> SUFFICES ASSUME NEW d \in Conn
               PROVE  (registered[d] /\ pc'[Reader(d)] # "done" /\ ~Superseded(d)')
                         <=> clients'[SessionId[d]] = d
    BY <1>1 DEF HubHasCurrent
  <2>1. CASE d = c BY <2>1, <1>2, <1>5, RegistryAssumption
  <2>2. CASE d # c
    BY <2>2, <1>3, <1>4, <1>5, RegistryAssumption DEF HubInv, HubHasCurrent
  <2> QED BY <2>1, <2>2
<1>8. /\ \A q \in Thread : Cleaning(q)' => Cleaning(q)
      /\ \A d \in Conn : pc'[Reader(d)] = "inherit" => pc[Reader(d)] = "inherit"
  BY <1>2, <1>3 DEF Cleaning
<1>9. MutexHeld' BY <1>1, <1>8 DEF HubInv, MutexHeld
<1>10. CleanedUpOnce' BY <1>1, <1>8, ThreadFacts DEF HubInv, CleanedUpOnce
<1> QED BY <1>6, <1>7, <1>9, <1>10 DEF HubInv

\* A connection is made.
LEMMA ConnectsHub ==
    ASSUME TypeOK, TypeOK', HubInv, NEW c \in Conn, Connects(c)
    PROVE  HubInv'
<1>1. CASE Authenticate(c)
  <2>1. UNCHANGED hubInvVars /\ pc[Reader(c)] # "done" /\ Goto(Reader(c), "user")
    BY <1>1 DEF Authenticate, hubVars, hubInvVars
  <2> QED BY <2>1, Frame, ThreadFacts
<1>2. CASE FindUser(c)
  <2>1. UNCHANGED hubInvVars /\ pc[Reader(c)] # "done" /\ Goto(Reader(c), "add")
    BY <1>2 DEF FindUser, sessionVars, hubVars, hubInvVars
  <2> QED BY <2>1, Frame, ThreadFacts
<1>3. CASE AddSession(c) BY <1>3, AddSessionHub
<1>4. CASE HubWait(c) BY <1>4, HubWaitHub
<1>5. CASE Register(c) BY <1>5, RegisterHub
<1>6. CASE ReplaceLock(c) BY <1>6, ReplaceLockHub
<1>7. CASE Inherit(c) BY <1>7, InheritHub
<1> QED BY <1>1, <1>2, <1>3, <1>4, <1>5, <1>6, <1>7 DEF Connects

\* A contact's sessions are asked for.
LEMMA ServesHub ==
    ASSUME TypeOK, TypeOK', HubInv, NEW c \in Conn, Serves(c)
    PROVE  HubInv'
<1>1. CASE SubscribeSessions(c)
  <2>1. UNCHANGED hubInvVars /\ pc[Reader(c)] # "done" /\ Goto(Reader(c), "subscribe")
    BY <1>1 DEF SubscribeSessions, sessionVars, hubVars, hubInvVars
  <2> QED BY <2>1, Frame, ThreadFacts
<1>2. CASE Subscribe(c)
  <2>1. UNCHANGED hubInvVars /\ pc[Reader(c)] # "done" /\ Goto(Reader(c), "subscriber")
    BY <1>2 DEF Subscribe, hubVars, hubInvVars
  <2> QED BY <2>1, Frame, ThreadFacts
<1>3. CASE AddSubscriber(c)
  <2>1. UNCHANGED hubInvVars /\ pc[Reader(c)] # "done" /\ Goto(Reader(c), "data")
    BY <1>3 DEF AddSubscriber, hubVars, hubInvVars
  <2> QED BY <2>1, Frame, ThreadFacts
<1>4. CASE Data(c)
  <2>1. UNCHANGED hubInvVars /\ pc[Reader(c)] # "done" /\ Goto(Reader(c), "subscribe")
    BY <1>4 DEF Data, sessionVars, hubVars, hubInvVars
  <2> QED BY <2>1, Frame, ThreadFacts
<1>5. CASE Subscribed(c)
  <2>1. UNCHANGED hubInvVars /\ pc[Reader(c)] # "done" /\ Goto(Reader(c), "serve")
    BY <1>5 DEF Subscribed, sessionVars, hubVars, hubInvVars
  <2> QED BY <2>1, Frame, ThreadFacts
<1> QED BY <1>1, <1>2, <1>3, <1>4, <1>5 DEF Serves

\* A client acts.
LEMMA ClientHub ==
    ASSUME TypeOK, TypeOK', HubInv, NEW c \in Conn, Client(c)
    PROVE  HubInv'
<1>1. CASE Dial(c) BY <1>1, DialHub
<1>2. CASE HandleAuthentication(c)
  <2>1. UNCHANGED hubInvVars /\ pc[Reader(c)] # "done" /\ Goto(Reader(c), "authenticate")
    BY <1>2 DEF HandleAuthentication, sessionVars, hubVars, hubInvVars
  <2> QED BY <2>1, Frame, ThreadFacts
<1>3. CASE HandleSessions(c)
  <2>1. UNCHANGED hubInvVars /\ pc[Reader(c)] # "done" /\ Goto(Reader(c), "sessions")
    BY <1>3 DEF HandleSessions, sessionVars, hubVars, hubInvVars
  <2> QED BY <2>1, Frame, ThreadFacts
<1>4. CASE Lost(c)
  <2>1. UNCHANGED hubInvVars /\ pc[Reader(c)] # "done" /\ Goto(Reader(c), "close")
    BY <1>4 DEF Lost, sessionVars, hubVars, hubInvVars
  <2> QED BY <2>1, Frame, ThreadFacts
<1> QED BY <1>1, <1>2, <1>3, <1>4 DEF Client

\* hub.ClientInfo only reads.
LEMMA ReportHub ==
    ASSUME HubInv, ClientInfo \/ Reports
    PROVE  HubInv'
<1>1. UNCHANGED <<pc, hubInvVars>>
  BY DEF Reports, ClientInfo, ClientData, ClientInfoDone, threadVars, sessionVars, hubVars,
         hubInvVars
<1> QED BY <1>1, Still

\* HubInv after any step.
LEMMA HubStep ==
    ASSUME TypeOK, TypeOK', HubInv, [Next]_vars
    PROVE  HubInv'
<1>1. CASE UNCHANGED vars
  BY <1>1, Still DEF vars, threadVars, sessionVars, hubVars, hubInvVars
<1>2. CASE ClientInfo \/ Reports BY <1>2, ReportHub
<1>3. ASSUME NEW c \in Conn, Runs(c) \/ Client(c) PROVE HubInv'
  BY <1>3, ConnectsHub, ServesHub, ClosesHub, ClientHub, UnregisterHub, ThreadFacts DEF Runs
<1> QED BY <1>1, <1>2, <1>3 DEF Next

\* HubInv at the start.
LEMMA InitHub == Init => HubInv
BY RegistryAssumption, ThreadFacts
DEF Init, HubInv, KnownOnce, HubHasCurrent, Superseded, MutexHeld, CleanedUpOnce, Cleaning

\* The inductive invariant: hub, goroutines and mutexes fit together in every reachable
\* state, deadlocks included.
THEOREM Invariance == Spec => []IInv
<1>1. Init => TypeOK /\ Locals /\ HubInv BY InitTypes, InitHub
<1>2. TypeOK /\ Locals /\ HubInv /\ [Next]_vars => (TypeOK /\ Locals /\ HubInv)'
  BY TypeStep, HubStep
<1>3. TypeOK /\ Locals /\ HubInv => IInv BY DEF IInv, HubInv
<1> QED BY <1>1, <1>2, <1>3, PTL DEF Spec

\* The hub's client of a session id is the connection that came last, until it disconnects
\* itself: OnDisconnect of a stale connection never takes its successor off.
THEOREM HubCurrent == Spec => []HubHasCurrent
<1>1. IInv => HubHasCurrent BY DEF IInv
<1> QED BY <1>1, Invariance, PTL

\* A session is never cleaned up by both its goroutines, nor by one that was replaced:
\* Close and Replace exclude each other through the mutex they keep.
THEOREM CleanupOnce == Spec => []CleanedUpOnce
<1>1. IInv => CleanedUpOnce BY DEF IInv
<1> QED BY <1>1, Invariance, PTL


-----------------------------------------------------------------------------
(* What a contact finds. *)

\* Nobody presents the id of another's session, and no user has two sessions.
OwnIds   == \A c, d \in Conn : SessionId[c] = SessionId[d] => c = d
OwnUsers == \A c, d \in Conn : Login[c] = Login[d] /\ Login[c] # NoUser => c = d

\* Then no connection takes a session over, and the closers have nothing to do.
NoTakeover == \A c \in Conn :
    /\ ec[c] = NoConn /\ pc[Closer(c)] = "off" /\ ~replaced[c] /\ maps[c] = c
    /\ disconnected[c] => pc[Reader(c)] \in {"unregister", "done"}

\* A User on the table is of one user, and who is about to be added to it is that user.
Owners ==
    /\ \A u, v \in User : userTable[u] = userTable[v] /\ userTable[u] # NoObj => u = v
    /\ \A c \in Conn :
          /\ userid[c] \in {NoUser, Login[c]}
          /\ pc[Reader(c)] \in {"off", "authenticate"} => userid[c] = NoUser
          /\ pc[Reader(c)] = "add" => userid[c] # NoUser /\
                \A u \in User : userTable[u] = obj[Reader(c)] => userid[c] = u

\* From AddSession to RemoveSession, and before Close begins to clean up.
Listed == {"register", "serve", "sessions", "subscribe", "subscriber", "data", "close", "notify",
           "unsubscribe", "notifyBack", "remove"}
Early  == {"authenticate", "user", "add", "register", "serve", "sessions", "subscribe",
           "subscriber", "data", "close"}

\* Whom a User on the table lists is a session of its user that has not been removed.
Entries == \A o \in UserObj, i \in Id :
    LET c == sessionTable[o][i] IN
    c # NoConn =>
        /\ SessionId[c] = i /\ userid[c] # NoUser
        /\ \A u \in User : userTable[u] = o => userid[c] = u /\ pc[Reader(c)] \in Listed

\* The inductive invariant behind NoGhostFound.
ListInv == NoTakeover /\ Owners /\ Entries

\* A User that is still in use is on the table.
OnTable ==
    /\ \A c \in Conn : pc[Reader(c)] = "add" => userTable[userid[c]] = obj[Reader(c)]
    /\ \A o \in UserObj, i \in Id :
          sessionTable[o][i] # NoConn => userTable[userid[sessionTable[o][i]]] = o

\* While the sessions of a User are subscribed to, one after the other, they are not
\* removed: its lock is held.
Reading == \A c \in Conn : LET t == Reader(c)  o == obj[t] IN
    pc[t] \in {"subscribe", "subscriber", "data"} =>
        /\ o # NoObj /\ t \in userReaders[o]
        /\ \A s \in rest[t] : sessionTable[o][SessionId[s]] = s
        /\ pc[t] = "subscriber" => sessionTable[o][SessionId[cur[t]]] = cur[t]

\* Who subscribes is known to the hub.
Known == \A c \in Conn :
    /\ pc[Reader(c)] \in {"serve", "sessions", "subscribe", "subscriber", "data"} => registered[c]
    /\ subscriptions[c] # {} => registered[c]

Serving(c) == pc[Reader(c)] \in {"authenticate", "user", "add", "serve", "sessions", "subscribe",
                                 "subscriber", "data"}

\* c will be told when s ends: it is just subscribing, has subscribed to a session that
\* has not begun to close, or is among those its Close still tells.
Coming(c, s) ==
    \/ pc[Reader(c)] = "subscriber" /\ cur[Reader(c)] = s
    \/ c \in subscribers[s] /\ pc[Reader(s)] \in Early
    \/ pc[Reader(s)] = "notify" /\ c \in rest[Reader(s)]

WillBeTold == \A c \in Conn : Serving(c) =>
    \A s \in subscriptions[c] : <<c, SessionId[s]>> \in told \/ Coming(c, s)

\* The inductive invariant behind SubscribersTold.
ToldInv == OnTable /\ Reading /\ Known /\ WillBeTold

\* A step of somebody's reader, where nobody takes a session over.
ReaderStep(c) ==
    \/ Dial(c) \/ Authenticate(c) \/ FindUser(c) \/ AddSession(c) \/ Register(c)
    \/ HandleAuthentication(c) \/ HandleSessions(c) \/ SubscribeSessions(c) \/ Subscribe(c)
    \/ AddSubscriber(c) \/ Data(c) \/ Subscribed(c) \/ Lost(c)
    \/ Closes(Reader(c)) \/ Unregister(c)

\* What the invariants below speak of.
contactVars == <<pc, obj, rest, cur, ec, registered, sessionVars, clients, userVars, told>>

\* The readers are different goroutines.
LEMMA ReaderFacts ==
    /\ \A c \in Conn : Reader(c) \in Thread /\ Closer(c) \in Thread /\ Session(Reader(c)) = c
    /\ \A c, d \in Conn : Reader(c) # Closer(d) /\ (Reader(c) = Reader(d) => c = d)
BY ThreadFacts

\* Only the readers do anything.
LEMMA OwnSteps ==
    ASSUME IInv, NoTakeover, [Next]_vars
    PROVE  UNCHANGED contactVars \/ \E c \in Conn : ReaderStep(c)
<1>1. CASE UNCHANGED vars
  BY <1>1 DEF vars, threadVars, hubVars, contactVars
<1>2. CASE ClientInfo \/ Reports
  BY <1>2 DEF ClientInfo, Reports, ClientData, ClientInfoDone, threadVars, hubVars, contactVars
<1>3. ASSUME NEW c \in Conn, Runs(c) \/ Client(c)
      PROVE  UNCHANGED contactVars \/ ReaderStep(c)
  <2>1. pc[Closer(c)] = "off" /\ ec[c] = NoConn BY DEF NoTakeover
  <2>2. ~Closes(Closer(c))
    BY <2>1
    DEF Closes, CloseLock, NotifySubscriber, NotifiedSubscribers, RemoveSubscriber, NotifyBack,
        DestroySession, RemoveSession
  <2>3. ~ReplaceLock(c) /\ ~Inherit(c)
    BY <2>1 DEF ReplaceLock, Inherit, IInv, TypeOK, Replacing
  <2>4. CASE HubWait(c) BY <2>4 DEF HubWait, threadVars, contactVars
  <2> QED BY <1>3, <2>2, <2>3, <2>4 DEF Runs, Client, Connects, Serves, ReaderStep
<1> QED BY <1>1, <1>2, <1>3 DEF Next

\* The hub knows nobody under the id of a connection that registers.
LEMMA NobodyThere ==
    ASSUME OwnIds, IInv, NEW c \in Conn, Register(c)
    PROVE  clients[SessionId[c]] = NoConn /\ Goto(Reader(c), "serve") /\ ec' = ec
<1> DEFINE old == clients[SessionId[c]]
<1>1. old \in Conn \cup {NoConn} BY RegistryAssumption DEF IInv, TypeOK
<1>2. pc[Reader(c)] = "register" /\ ~registered[c] BY DEF Register, IInv, KnownOnce
<1>3. old = NoConn
  <2> SUFFICES ASSUME old \in Conn PROVE FALSE
    BY <1>1
  <2>1. SessionId[old] = SessionId[c] BY RegistryAssumption DEF IInv, KnownOnce
  <2>2. clients[SessionId[c]] = c BY <2>1 DEF OwnIds
  <2> QED BY <1>2, <2>2 DEF IInv, HubHasCurrent
<1>4. ec[c] = NoConn BY <1>2 DEF IInv, TypeOK, Replacing
<1> QED BY <1>3, <1>4 DEF Register, NextStep, IInv, TypeOK

\* A reader acts for its own connection.
LEMMA OthersKept ==
    ASSUME OwnIds, IInv, NoTakeover, NEW c \in Conn, ReaderStep(c)
    PROVE  /\ UNCHANGED <<ec, maps, replaced>>
           /\ \A t \in Thread \ {Reader(c)} :
                 pc'[t] = pc[t] /\ obj'[t] = obj[t] /\ rest'[t] = rest[t] /\ cur'[t] = cur[t]
           /\ \A d \in Conn \ {c} :
                 userid'[d] = userid[d] /\ disconnected'[d] = disconnected[d]
                 /\ registered'[d] = registered[d]
           /\ pc[Reader(c)] # "done"
           /\ disconnected'[c] => pc'[Reader(c)] \in {"unregister", "done"}
<1>1. /\ pc \in [Thread -> Steps] /\ obj \in [Thread -> UserObj \cup {NoObj}]
      /\ rest \in [Thread -> SUBSET Conn] /\ cur \in [Thread -> Conn \cup {NoConn}]
      /\ userid \in [Conn -> User \cup {NoUser}] /\ disconnected \in [Conn -> BOOLEAN]
      /\ registered \in [Conn -> BOOLEAN]
      /\ Reader(c) \in Thread /\ Session(Reader(c)) = c
  BY ReaderFacts DEF IInv, TypeOK
<1>2. ~replaced[c] /\ (disconnected[c] => pc[Reader(c)] \in {"unregister", "done"})
  BY DEF NoTakeover
<1>3. After(Reader(c)) = "unregister" BY <1>1 DEF After
<1>4. CASE Dial(c) \/ Authenticate(c) \/ HandleAuthentication(c)
  BY <1>1, <1>2, <1>4 DEF Dial, Authenticate, HandleAuthentication, Goto, sessionVars
<1>5. CASE FindUser(c) \/ AddSession(c)
  BY <1>1, <1>2, <1>5 DEF FindUser, AddSession, Goto, sessionVars
<1>6. CASE Register(c)
  BY <1>1, <1>2, <1>6, NobodyThere DEF Register, Goto, sessionVars
<1>7. CASE HandleSessions(c) \/ SubscribeSessions(c) \/ Subscribed(c) \/ Lost(c)
  BY <1>1, <1>2, <1>7
  DEF HandleSessions, SubscribeSessions, Subscribed, Lost, Goto, sessionVars
<1>8. CASE Subscribe(c) \/ AddSubscriber(c) \/ Data(c)
  BY <1>1, <1>2, <1>8 DEF Subscribe, AddSubscriber, Data, Goto, sessionVars
<1>9. CASE Unregister(c)
  BY <1>1, <1>2, <1>9 DEF Unregister, Goto, sessionVars
<1>10. CASE CloseLock(Reader(c))
  BY <1>1, <1>2, <1>3, <1>10 DEF CloseLock, CloseReturns, Goto
<1>11. CASE NotifySubscriber(Reader(c)) \/ NotifiedSubscribers(Reader(c))
  BY <1>1, <1>2, <1>11 DEF NotifySubscriber, NotifiedSubscribers, Goto, sessionVars
<1>12. CASE RemoveSubscriber(Reader(c)) \/ NotifyBack(Reader(c))
  BY <1>1, <1>2, <1>12 DEF RemoveSubscriber, NotifyBack, Goto, sessionVars
<1>13. CASE DestroySession(Reader(c))
  BY <1>1, <1>2, <1>3, <1>13 DEF DestroySession, Closed, Goto, sessionVars
<1>14. CASE RemoveSession(Reader(c))
  BY <1>1, <1>2, <1>3, <1>14 DEF RemoveSession, Closed, Goto
<1> QED BY <1>4, <1>5, <1>6, <1>7, <1>8, <1>9, <1>10, <1>11, <1>12, <1>13, <1>14
        DEF ReaderStep, Closes

\* Nobody takes a session over.
LEMMA NoTakeoverStep ==
    ASSUME OwnIds, IInv, NoTakeover, NEW c \in Conn, ReaderStep(c)
    PROVE  NoTakeover'
BY OthersKept, ReaderFacts DEF NoTakeover

\* The tables change in three places, the user of a session in one.
LEMMA TablesKept ==
    ASSUME IInv, NEW c \in Conn, ReaderStep(c)
    PROVE  /\ ~FindUser(c) /\ ~AddSession(c) /\ ~RemoveSession(Reader(c)) =>
                 UNCHANGED <<userTable, sessionTable>>
           /\ ~Authenticate(c) => UNCHANGED userid
<1>1. CASE Dial(c) \/ Authenticate(c) \/ FindUser(c) \/ AddSession(c) \/ Register(c)
  BY <1>1 DEF Dial, Authenticate, FindUser, AddSession, Register, sessionVars, userVars
<1>2. CASE HandleAuthentication(c) \/ HandleSessions(c) \/ SubscribeSessions(c) \/ Subscribe(c)
  BY <1>2 DEF HandleAuthentication, HandleSessions, SubscribeSessions, Subscribe, sessionVars,
              userVars
<1>3. CASE AddSubscriber(c) \/ Data(c) \/ Subscribed(c) \/ Lost(c) \/ Unregister(c)
  BY <1>3 DEF AddSubscriber, Data, Subscribed, Lost, Unregister, sessionVars, userVars
<1>4. CASE Closes(Reader(c))
  BY <1>4 DEF Closes, CloseLock, NotifySubscriber, NotifiedSubscribers, RemoveSubscriber,
              NotifyBack, DestroySession, RemoveSession, Closed, sessionVars, userVars
<1> QED BY <1>1, <1>2, <1>3, <1>4 DEF ReaderStep

\* Who is listed stays so until it removes itself.
LEMMA ListedKept ==
    ASSUME OwnIds, IInv, NoTakeover, NEW c \in Conn, ReaderStep(c),
           pc[Reader(c)] \in Listed, userid[c] # NoUser, ~RemoveSession(Reader(c))
    PROVE  pc'[Reader(c)] \in Listed
<1> DEFINE t == Reader(c)
<1>1. pc \in [Thread -> Steps] /\ t \in Thread /\ Session(t) = c
  BY ReaderFacts DEF IInv, TypeOK
<1>2. \A p : Goto(t, p) => pc'[t] = p BY <1>1 DEF Goto
<1> HIDE DEF t
<1>3. CASE Dial(c) \/ Authenticate(c) \/ FindUser(c) \/ HandleAuthentication(c) \/ Unregister(c)
  BY <1>3 DEF Dial, Authenticate, FindUser, HandleAuthentication, Unregister, Listed
<1>4. CASE AddSession(c) BY <1>4 DEF AddSession, Listed
<1>5. CASE Register(c) BY <1>2, <1>5, NobodyThere DEF Listed, t
<1>6. CASE HandleSessions(c) \/ SubscribeSessions(c) \/ Subscribe(c) \/ AddSubscriber(c)
           \/ Data(c) \/ Subscribed(c) \/ Lost(c)
  BY <1>2, <1>6 DEF HandleSessions, SubscribeSessions, Subscribe, AddSubscriber, Data,
                    Subscribed, Lost, Listed, t
<1>7. CASE CloseLock(t)
  <2>1. ~replaced[c] /\ ~disconnected[c] BY <1>7 DEF NoTakeover, CloseLock, t
  <2> QED BY <1>1, <1>7, <2>1 DEF CloseLock, CloseReturns, Goto, Listed, t
<1>8. CASE NotifySubscriber(t) BY <1>1, <1>8 DEF NotifySubscriber, Listed, t
<1>9. CASE NotifiedSubscribers(t) \/ RemoveSubscriber(t) \/ NotifyBack(t)
  BY <1>1, <1>9 DEF NotifiedSubscribers, RemoveSubscriber, NotifyBack, Goto, Listed, t
<1>10. CASE DestroySession(t) BY <1>1, <1>10 DEF DestroySession, Goto, Listed, t
<1> QED BY <1>3, <1>4, <1>5, <1>6, <1>7, <1>8, <1>9, <1>10 DEF ReaderStep, Closes, t

\* The User found is that of the user, or new.
LEMMA FindUserFacts ==
    ASSUME IInv, Owners, NEW c \in Conn, FindUser(c)
    PROVE  LET t == Reader(c)  u == userid[c]  o == obj'[t] IN
           /\ pc[t] = "user" /\ pc'[t] = "add" /\ u \in User /\ o \in UserObj
           /\ UNCHANGED <<userid, userReaders>>
           /\ userTable'[u] = o
           /\ \A v \in User \ {u} : userTable'[v] = userTable[v] /\ userTable'[v] # o
           /\ \A q \in UserObj \ {o} : sessionTable'[q] = sessionTable[q]
           /\ \A q \in Thread \ {t} : obj'[q] = obj[q]
           /\ \/ o = userTable[u] /\ UNCHANGED <<userTable, sessionTable>>
              \/ /\ o \in Unused /\ userTable[u] = NoObj
                 /\ \A i \in Id : sessionTable'[o][i] = NoConn
<1> DEFINE t == Reader(c)
           u == userid[c]
           o == CHOOSE o \in Unused : TRUE
<1>1. /\ u \in User /\ pc[t] = "user" /\ t \in Thread
      /\ Goto(t, "add") /\ UNCHANGED <<userid, userReaders>>
      /\ pc \in [Thread -> Steps] /\ obj \in [Thread -> UserObj \cup {NoObj}]
      /\ userTable \in [User -> UserObj \cup {NoObj}]
      /\ sessionTable \in [UserObj -> [Id -> Conn \cup {NoConn}]]
  BY ReaderFacts DEF IInv, TypeOK, Locals, FindUser, sessionVars
<1>2. pc'[t] = "add" BY <1>1 DEF Goto
<1>3. CASE userTable[u] # NoObj
  <2>1. /\ obj' = [obj EXCEPT ![t] = userTable[u]] /\ UNCHANGED <<userTable, sessionTable>>
    BY <1>3 DEF FindUser
  <2>2. obj'[t] = userTable[u] /\ \A q \in Thread \ {t} : obj'[q] = obj[q] BY <1>1, <2>1
  <2>3. userTable[u] \in UserObj BY <1>1, <1>3
  <2>4. \A v \in User \ {u} : userTable[v] # userTable[u] BY <1>1, <1>3 DEF Owners
  <2> QED BY <1>1, <1>2, <2>1, <2>2, <2>3, <2>4
<1>4. CASE userTable[u] = NoObj
  <2>1. o \in Unused /\ o \in UserObj BY <1>4 DEF FindUser, Unused
  <2> HIDE DEF o
  <2>2. /\ obj' = [obj EXCEPT ![t] = o]
        /\ userTable' = [userTable EXCEPT ![u] = o]
        /\ sessionTable' = [sessionTable EXCEPT ![o] = [i \in Id |-> NoConn]]
    BY <1>4 DEF FindUser, o
  <2>3. obj'[t] = o /\ \A q \in Thread \ {t} : obj'[q] = obj[q] BY <1>1, <2>2
  <2>4. /\ userTable'[u] = o
        /\ \A v \in User \ {u} : userTable'[v] = userTable[v] /\ userTable'[v] # o
    BY <1>1, <2>1, <2>2 DEF Unused
  <2>5. /\ \A q \in UserObj \ {o} : sessionTable'[q] = sessionTable[q]
        /\ sessionTable'[o] = [i \in Id |-> NoConn]
    BY <1>1, <2>1, <2>2
  <2>6. \A i \in Id : sessionTable'[o][i] = NoConn BY <2>5
  <2> QED BY <1>1, <1>2, <1>4, <2>1, <2>3, <2>4, <2>5, <2>6
<1> QED BY <1>3, <1>4

\* The session is put on its User.
LEMMA AddSessionFacts ==
    ASSUME IInv, NEW c \in Conn, AddSession(c)
    PROVE  LET t == Reader(c)  o == obj[t] IN
           /\ pc[t] = "add" /\ pc'[t] \in {"serve", "register"} /\ o \in UserObj
           /\ userReaders[o] = {} /\ UNCHANGED <<userid, userTable, userReaders>>
           /\ sessionTable'[o][SessionId[c]] = c
           /\ \A q \in UserObj, i \in Id :
                 q # o \/ i # SessionId[c] => sessionTable'[q][i] = sessionTable[q][i]
<1> DEFINE t == Reader(c)
           o == obj[t]
           j == SessionId[c]
<1>1. /\ t \in Thread /\ pc[t] = "add" /\ o \in UserObj /\ j \in Id
      /\ pc \in [Thread -> Steps] /\ sessionTable \in [UserObj -> [Id -> Conn \cup {NoConn}]]
  BY ReaderFacts, RegistryAssumption DEF IInv, TypeOK, Locals, AddSession
<1>2. /\ sessionTable' = [sessionTable EXCEPT ![o][j] = c]
      /\ Goto(t, IF registered[c] THEN "serve" ELSE "register")
      /\ userReaders[o] = {} /\ UNCHANGED <<userid, userTable, userReaders>>
  BY DEF AddSession, sessionVars
<1> HIDE DEF o, j
<1>3. pc'[t] \in {"serve", "register"} BY <1>1, <1>2 DEF Goto
<1>4. sessionTable'[o][j] = c BY <1>1, <1>2
<1>5. \A q \in UserObj, i \in Id : q # o \/ i # j => sessionTable'[q][i] = sessionTable[q][i]
  BY <1>1, <1>2
<1> QED BY <1>1, <1>2, <1>3, <1>4, <1>5 DEF o, j

\* It is taken off the User on the table, and the User with the last one.
LEMMA RemoveSessionFacts ==
    ASSUME IInv, NEW c \in Conn, RemoveSession(Reader(c))
    PROVE  LET t == Reader(c)  u == userid[c]  o == userTable[u] IN
           /\ pc[t] = "remove" /\ pc'[t] = "unregister"
           /\ u \in User /\ UNCHANGED <<userid, obj, userReaders>>
           /\ \A v \in User : userTable'[v] \in {userTable[v], NoObj}
           /\ o \in UserObj => sessionTable'[o][SessionId[c]] = NoConn /\ userReaders[o] = {}
           /\ \A q \in UserObj, i \in Id : q # o \/ i # SessionId[c] =>
                 sessionTable'[q][i] = sessionTable[q][i]
           /\ \A v \in User : userTable'[v] # userTable[v] =>
                 v = u /\ o \in UserObj /\ \A i \in Id : sessionTable'[o][i] = NoConn
<1> DEFINE t == Reader(c)
           u == userid[c]
           o == userTable[u]
           j == SessionId[c]
<1>1. /\ t \in Thread /\ pc[t] = "remove" /\ Session(t) = c /\ u \in User /\ j \in Id
      /\ pc \in [Thread -> Steps] /\ o \in UserObj \cup {NoObj}
      /\ userTable \in [User -> UserObj \cup {NoObj}]
      /\ sessionTable \in [UserObj -> [Id -> Conn \cup {NoConn}]]
  BY ReaderFacts, RegistryAssumption DEF IInv, TypeOK, Locals, RemoveSession
<1>2. Goto(t, "unregister") /\ UNCHANGED <<userid, obj, userReaders>>
  BY <1>1 DEF RemoveSession, Closed, After
<1>3. pc'[t] = "unregister" BY <1>1, <1>2 DEF Goto
<1>4. CASE o = NoObj
  <2>1. UNCHANGED <<userTable, sessionTable>> BY <1>1, <1>4 DEF RemoveSession
  <2>2. o \notin UserObj BY <1>4, RegistryAssumption
  <2> QED BY <1>1, <1>2, <1>3, <2>1, <2>2
<1>5. CASE o # NoObj
  <2>1. o \in UserObj BY <1>1, <1>5
  <2>2. /\ userReaders[o] = {}
        /\ sessionTable' = [sessionTable EXCEPT ![o][j] = NoConn]
        /\ userTable' = IF \A i \in Id : sessionTable'[o][i] = NoConn
                          THEN [userTable EXCEPT ![u] = NoObj] ELSE userTable
    BY <1>1, <1>5 DEF RemoveSession, DeleteSession
  <2> HIDE DEF o, j, u
  <2>3. sessionTable'[o][j] = NoConn BY <1>1, <2>1, <2>2
  <2>4. \A q \in UserObj, i \in Id : q # o \/ i # j => sessionTable'[q][i] = sessionTable[q][i]
    BY <1>1, <2>1, <2>2
  <2>5. \A v \in User : /\ userTable'[v] \in {userTable[v], NoObj}
                        /\ userTable'[v] # userTable[v] =>
                              v = u /\ \A i \in Id : sessionTable'[o][i] = NoConn
    <3>1. CASE \A i \in Id : sessionTable'[o][i] = NoConn
      <4>1. userTable' = [userTable EXCEPT ![u] = NoObj] BY <2>2, <3>1
      <4> QED BY <1>1, <3>1, <4>1
    <3>2. CASE ~\A i \in Id : sessionTable'[o][i] = NoConn BY <2>2, <3>2
    <3> QED BY <3>1, <3>2
  <2> QED BY <1>1, <1>2, <1>3, <2>1, <2>2, <2>3, <2>4, <2>5 DEF o, j, u
<1> QED BY <1>4, <1>5


\* Who is about to be added to a User has just found it.
LEMMA OnlyFindAdds ==
    ASSUME OwnIds, IInv, NoTakeover, NEW c \in Conn, ReaderStep(c), pc'[Reader(c)] = "add"
    PROVE  FindUser(c)
<1> DEFINE t == Reader(c)
<1>1. t \in Thread /\ Session(t) = c /\ pc \in [Thread -> Steps]
  BY ReaderFacts DEF IInv, TypeOK
<1>2. CASE Dial(c) \/ Authenticate(c) \/ HandleAuthentication(c) \/ HandleSessions(c)
           \/ SubscribeSessions(c) \/ Subscribe(c) \/ AddSubscriber(c) \/ Data(c)
           \/ Subscribed(c) \/ Lost(c) \/ Unregister(c)
  BY <1>1, <1>2
  DEF Dial, Authenticate, HandleAuthentication, HandleSessions, SubscribeSessions, Subscribe,
      AddSubscriber, Data, Subscribed, Lost, Unregister, Goto
<1>3. CASE AddSession(c) \/ Register(c)
  BY <1>1, <1>3, AddSessionFacts, NobodyThere DEF Goto
<1>4. CASE CloseLock(t) \/ DestroySession(t) \/ RemoveSession(t)
  BY <1>1, <1>4 DEF CloseLock, DestroySession, RemoveSession, Closed, After, Goto
<1>5. CASE NotifySubscriber(t) \/ NotifiedSubscribers(t) \/ RemoveSubscriber(t) \/ NotifyBack(t)
  BY <1>1, <1>5 DEF NotifySubscriber, NotifiedSubscribers, RemoveSubscriber, NotifyBack, Goto
<1> QED BY <1>2, <1>3, <1>4, <1>5 DEF ReaderStep, Closes

\* Owners after a step.
LEMMA OwnersStep ==
    ASSUME OwnIds, IInv, NoTakeover, Owners, NEW c \in Conn, ReaderStep(c)
    PROVE  Owners'
<1> DEFINE t == Reader(c)
<1>1. /\ t \in Thread /\ Session(t) = c /\ pc \in [Thread -> Steps]
      /\ obj \in [Thread -> UserObj \cup {NoObj}] /\ NoObj \notin UserObj
      /\ userTable \in [User -> UserObj \cup {NoObj}]
      /\ \A d \in Conn : pc[Reader(d)] = "add" => obj[Reader(d)] \in UserObj
  BY ReaderFacts, RegistryAssumption DEF IInv, TypeOK, Locals
<1>2. \A d \in Conn \ {c} : /\ pc'[Reader(d)] = pc[Reader(d)] /\ obj'[Reader(d)] = obj[Reader(d)]
                            /\ userid'[d] = userid[d]
  BY OthersKept, ReaderFacts
<1>3. \A u, v \in User : userTable'[u] = userTable'[v] /\ userTable'[u] # NoObj => u = v
  <2>1. CASE FindUser(c) BY <2>1, FindUserFacts DEF Owners
  <2>2. CASE RemoveSession(t) BY <2>2, RemoveSessionFacts DEF Owners
  <2>3. CASE ~FindUser(c) /\ ~RemoveSession(t)
    <3>1. UNCHANGED userTable BY <2>3, TablesKept, AddSessionFacts
    <3> QED BY <3>1 DEF Owners
  <2> QED BY <2>1, <2>2, <2>3
<1>4. userid'[c] \in {NoUser, Login[c]}
  <2>1. CASE Authenticate(c) BY <2>1 DEF Authenticate, IInv, TypeOK
  <2> QED BY <2>1, TablesKept DEF Owners
<1>5. pc'[t] \in {"off", "authenticate"} => userid'[c] = NoUser
  <2>1. CASE Dial(c)
    BY <2>1 DEF Dial, sessionVars, Owners
  <2>2. CASE HandleAuthentication(c) BY <2>2 DEF HandleAuthentication, sessionVars
  <2>3. CASE Authenticate(c) \/ HandleSessions(c) \/ SubscribeSessions(c) \/ Subscribe(c)
             \/ AddSubscriber(c) \/ Data(c) \/ Subscribed(c) \/ Lost(c) \/ Unregister(c)
    BY <1>1, <2>3 DEF Authenticate, HandleSessions, SubscribeSessions, Subscribe, AddSubscriber,
                      Data, Subscribed, Lost, Unregister, Goto
  <2>4. CASE FindUser(c) \/ AddSession(c) \/ Register(c)
    BY <1>1, <2>4, FindUserFacts, AddSessionFacts, NobodyThere DEF Goto
  <2>5. CASE CloseLock(t) \/ DestroySession(t) \/ RemoveSession(t)
    BY <1>1, <2>5 DEF CloseLock, DestroySession, RemoveSession, Closed, After, Goto
  <2>6. CASE NotifySubscriber(t) \/ NotifiedSubscribers(t) \/ RemoveSubscriber(t) \/ NotifyBack(t)
    BY <1>1, <2>6 DEF NotifySubscriber, NotifiedSubscribers, RemoveSubscriber, NotifyBack, Goto
  <2> QED BY <2>1, <2>2, <2>3, <2>4, <2>5, <2>6 DEF ReaderStep, Closes
<1>6. ASSUME NEW d \in Conn, pc'[Reader(d)] = "add"
      PROVE  /\ userid'[d] # NoUser
             /\ \A u \in User : userTable'[u] = obj'[Reader(d)] => userid'[d] = u
  <2>1. CASE d = c
    <3>1. FindUser(c) BY <1>6, <2>1, OnlyFindAdds
    <3>2. userid[c] # NoUser BY <1>1, <3>1 DEF FindUser, IInv, Locals
    <3> QED BY <2>1, <3>1, <3>2, FindUserFacts
  <2>2. CASE d # c
    <3>1. /\ obj'[Reader(d)] = obj[Reader(d)] /\ obj[Reader(d)] \in UserObj
          /\ userid'[d] = userid[d] /\ userid[d] # NoUser
          /\ \A u \in User : userTable[u] = obj[Reader(d)] => userid[d] = u
      BY <1>1, <1>2, <1>6, <2>2 DEF Owners
    <3>2. \A u \in User : userTable'[u] = obj[Reader(d)] => userTable[u] = obj[Reader(d)]
      <4>1. CASE FindUser(c)
        BY <1>1, <3>1, <4>1, FindUserFacts, ReaderFacts DEF Unused
      <4>2. CASE RemoveSession(t) BY <1>1, <3>1, <4>2, RemoveSessionFacts
      <4>3. CASE ~FindUser(c) /\ ~RemoveSession(t) BY <4>3, TablesKept, AddSessionFacts
      <4> QED BY <4>1, <4>2, <4>3
    <3> QED BY <3>1, <3>2
  <2> QED BY <2>1, <2>2
<1>7. ASSUME NEW d \in Conn
      PROVE  /\ userid'[d] \in {NoUser, Login[d]}
             /\ pc'[Reader(d)] \in {"off", "authenticate"} => userid'[d] = NoUser
  BY <1>2, <1>4, <1>5 DEF Owners
<1> QED BY <1>3, <1>6, <1>7 DEF Owners

\* The entries after a step.
LEMMA EntriesStep ==
    ASSUME OwnIds, IInv, NoTakeover, Owners, Entries, NEW c \in Conn, ReaderStep(c)
    PROVE  Entries'
<1> DEFINE t == Reader(c)
<1>1. /\ sessionTable \in [UserObj -> [Id -> Conn \cup {NoConn}]] /\ NoConn \notin Conn
      /\ NoObj \notin UserObj /\ \A d \in Conn : SessionId[d] \in Id
  BY RegistryAssumption DEF IInv, TypeOK
<1>2. \A d \in Conn \ {c} : pc'[Reader(d)] = pc[Reader(d)] /\ userid'[d] = userid[d]
  BY OthersKept, ReaderFacts
<1>3. ASSUME NEW o \in UserObj, NEW i \in Id, sessionTable[o][i] # NoConn,
             NEW d \in Conn, sessionTable[o][i] = d
      PROVE  /\ SessionId[d] = i /\ userid'[d] = userid[d] /\ userid[d] # NoUser
             /\ \A u \in User : userTable[u] = o =>
                   userid[d] = u /\ (pc'[Reader(d)] \in Listed \/ (d = c /\ RemoveSession(t)))
  <2>1. /\ SessionId[d] = i /\ userid[d] # NoUser
        /\ \A u \in User : userTable[u] = o => userid[d] = u /\ pc[Reader(d)] \in Listed
    BY <1>3 DEF Entries
  <2>2. userid'[d] = userid[d]
    <3>1. ~Authenticate(d) BY <2>1 DEF Authenticate, Owners
    <3> QED BY <1>2, <3>1, TablesKept
  <2>3. pc[Reader(d)] \in Listed => pc'[Reader(d)] \in Listed \/ (d = c /\ RemoveSession(t))
    BY <1>2, <2>1, ListedKept
  <2> QED BY <2>1, <2>2, <2>3
<1> SUFFICES ASSUME NEW o \in UserObj, NEW i \in Id, sessionTable'[o][i] # NoConn,
                    NEW d, d = sessionTable'[o][i]
             PROVE  /\ SessionId[d] = i /\ userid'[d] # NoUser
                    /\ \A u \in User : userTable'[u] = o =>
                          userid'[d] = u /\ pc'[Reader(d)] \in Listed
  BY DEF Entries
<1>4. sessionTable[o][i] \in Conn \cup {NoConn} BY <1>1
<1>5. CASE AddSession(c) /\ o = obj[t] /\ i = SessionId[c]
  <2>1. /\ d = c /\ pc'[t] \in {"serve", "register"} /\ pc[t] = "add"
        /\ UNCHANGED <<userid, userTable>>
    BY <1>5, AddSessionFacts
  <2>2. userid[c] # NoUser /\ \A u \in User : userTable[u] = o => userid[c] = u
    BY <1>5, <2>1 DEF Owners
  <2> QED BY <1>5, <2>1, <2>2 DEF Listed
<1>6. CASE AddSession(c) /\ (o # obj[t] \/ i # SessionId[c])
  <2>1. d = sessionTable[o][i] /\ UNCHANGED userTable /\ pc[t] = "add" BY <1>6, AddSessionFacts
  <2>2. ~RemoveSession(t) BY <2>1 DEF RemoveSession
  <2>3. d \in Conn BY <1>4, <2>1
  <2> QED BY <1>3, <2>1, <2>2, <2>3
<1>7. CASE FindUser(c)
  <2>1. /\ d = sessionTable[o][i] /\ pc[t] = "user"
        /\ \A u \in User : userTable'[u] = o => userTable[u] = o
    BY <1>7, FindUserFacts
  <2>2. ~RemoveSession(t) BY <2>1 DEF RemoveSession
  <2>3. d \in Conn BY <1>4, <2>1
  <2> QED BY <1>3, <2>1, <2>2, <2>3
<1>8. CASE RemoveSession(t)
  <2>1. /\ d = sessionTable[o][i] /\ (\A u \in User : userTable'[u] = o => userTable[u] = o)
        /\ o # userTable[userid[c]] \/ i # SessionId[c]
    BY <1>1, <1>8, RemoveSessionFacts
  <2>2. d \in Conn BY <1>4, <2>1
  <2>3. /\ SessionId[d] = i /\ userid'[d] = userid[d] /\ userid[d] # NoUser
        /\ \A u \in User : userTable[u] = o => userid[d] = u /\ (pc'[Reader(d)] \in Listed \/ d = c)
    BY <1>3, <2>1, <2>2
  <2> QED BY <2>1, <2>2, <2>3
<1>9. CASE ~AddSession(c) /\ ~FindUser(c) /\ ~RemoveSession(t)
  <2>1. d = sessionTable[o][i] /\ UNCHANGED userTable BY <1>9, TablesKept
  <2>2. d \in Conn BY <1>4, <2>1
  <2> QED BY <1>3, <1>9, <2>1, <2>2
<1> QED BY <1>5, <1>6, <1>7, <1>8, <1>9

\* ListInv after any step.
LEMMA ListStep ==
    ASSUME OwnIds, IInv, ListInv, [Next]_vars
    PROVE  ListInv'
<1>1. CASE UNCHANGED contactVars
  BY <1>1 DEF ListInv, NoTakeover, Owners, Entries, contactVars, sessionVars, userVars
<1>2. ASSUME NEW c \in Conn, ReaderStep(c) PROVE ListInv'
  BY <1>2, NoTakeoverStep, OwnersStep, EntriesStep DEF ListInv
<1> QED BY <1>1, <1>2, OwnSteps DEF ListInv

\* ListInv at the start.
LEMMA InitList == Init => ListInv
BY RegistryAssumption, ReaderFacts
DEF Init, ListInv, NoTakeover, Owners, Entries

\* A contact finds no ghosts, as long as nobody presents the session id of another: when the
\* connection with a session id is gone, no User on the table lists it.
THEOREM NoGhostListed ==
    ASSUME OwnIds
    PROVE  Spec => []NoGhostFound
<1>1. IInv /\ ListInv /\ [Next]_vars => ListInv' BY ListStep
<1>2. IInv /\ ListInv => NoGhostFound
  <2> SUFFICES ASSUME IInv, ListInv, NEW u \in User, NEW i \in Id, Over(i), userTable[u] # NoObj,
                      sessionTable[userTable[u]][i] # NoConn
               PROVE  FALSE
    BY DEF NoGhostFound
  <2> DEFINE o == userTable[u]
             c == sessionTable[o][i]
  <2>1. o \in UserObj /\ c \in Conn BY DEF IInv, TypeOK
  <2>2. SessionId[c] = i /\ pc[Reader(c)] \in Listed BY <2>1 DEF ListInv, Entries
  <2>3. pc[Reader(c)] \in {"off", "done"} BY <2>1, <2>2 DEF Over
  <2> QED BY <2>2, <2>3 DEF Listed
<1> QED BY <1>1, <1>2, InitList, Invariance, PTL DEF Spec

\* A User that is in use is on the table after a step.
LEMMA OnTableStep ==
    ASSUME OwnIds, OwnUsers, IInv, ListInv, OnTable, NEW c \in Conn, ReaderStep(c)
    PROVE  OnTable'
<1> DEFINE t == Reader(c)
<1>1. /\ sessionTable \in [UserObj -> [Id -> Conn \cup {NoConn}]] /\ NoConn \notin Conn
      /\ userid \in [Conn -> User \cup {NoUser}] /\ NoUser \notin User
      /\ obj \in [Thread -> UserObj \cup {NoObj}] /\ NoObj \notin UserObj
      /\ \A d \in Conn : pc[Reader(d)] = "add" => obj[Reader(d)] \in UserObj
      /\ NoTakeover /\ Owners /\ Entries
  BY RegistryAssumption, ReaderFacts DEF IInv, TypeOK, Locals, ListInv
<1>2. \A d \in Conn \ {c} : /\ pc'[Reader(d)] = pc[Reader(d)] /\ obj'[Reader(d)] = obj[Reader(d)]
                            /\ userid'[d] = userid[d]
  BY <1>1, OthersKept, ReaderFacts
\* A User that is in use stays on the table.
<1>3. ASSUME NEW u \in User, NEW o \in UserObj, userTable[u] = o,
             RemoveSession(t) => u # userid[c] \/ \E i \in Id : sessionTable'[o][i] # NoConn
      PROVE  userTable'[u] = o
  <2>1. CASE FindUser(c) BY <1>1, <1>3, <2>1, FindUserFacts
  <2>2. CASE RemoveSession(t) BY <1>3, <2>2, RemoveSessionFacts
  <2>3. CASE ~FindUser(c) /\ ~RemoveSession(t) BY <1>3, <2>3, TablesKept, AddSessionFacts
  <2> QED BY <2>1, <2>2, <2>3
<1>4. ASSUME NEW d \in Conn, pc'[Reader(d)] = "add"
      PROVE  userTable'[userid'[d]] = obj'[Reader(d)]
  <2>1. CASE FindUser(c) /\ d = c BY <1>1, <2>1, FindUserFacts
  <2>2. CASE d # c
    <3>1. /\ userid'[d] = userid[d] /\ obj'[Reader(d)] = obj[Reader(d)]
          /\ userTable[userid[d]] = obj[Reader(d)] /\ obj[Reader(d)] \in UserObj
          /\ userid[d] \in User
      BY <1>1, <1>2, <1>4, <2>2 DEF OnTable, Owners
    <3>2. RemoveSession(t) => userid[d] # userid[c]
      BY <1>1, <2>2, <3>1 DEF Owners, OwnUsers
    <3> QED BY <1>3, <3>1, <3>2
  <2>3. CASE d = c /\ ~FindUser(c) BY <1>1, <1>4, <2>3, OnlyFindAdds
  <2> QED BY <2>1, <2>2, <2>3
<1>5. ASSUME NEW o \in UserObj, NEW i \in Id, NEW d \in Conn, sessionTable[o][i] = d,
             sessionTable'[o][i] # NoConn
      PROVE  userTable'[userid'[d]] = o
  <2>1. userTable[userid[d]] = o /\ userid[d] \in User
    BY <1>1, <1>5 DEF OnTable, Entries
  <2>2. userid'[d] = userid[d]
    <3>1. ~Authenticate(d) BY <1>1, <2>1 DEF Authenticate, Owners
    <3> QED BY <1>2, <3>1, TablesKept
  <2> QED BY <1>3, <1>5, <2>1, <2>2
<1>6. ASSUME NEW o \in UserObj, NEW i \in Id, sessionTable'[o][i] # NoConn,
             NEW d, d = sessionTable'[o][i]
      PROVE  userTable'[userid'[d]] = o
  <2>1. sessionTable[o][i] \in Conn \cup {NoConn} BY <1>1
  <2>2. CASE AddSession(c)
    <3>1. CASE o = obj[t] /\ i = SessionId[c]
      BY <1>6, <2>2, <3>1, AddSessionFacts DEF OnTable
    <3>2. CASE o # obj[t] \/ i # SessionId[c]
      <4>1. d = sessionTable[o][i] BY <1>6, <2>2, <3>2, AddSessionFacts
      <4> QED BY <1>5, <1>6, <2>1, <4>1
    <3> QED BY <3>1, <3>2
  <2>3. CASE FindUser(c)
    <3>1. d = sessionTable[o][i] BY <1>1, <1>6, <2>3, FindUserFacts
    <3> QED BY <1>5, <1>6, <2>1, <3>1
  <2>4. CASE RemoveSession(t)
    <3>1. d = sessionTable[o][i] BY <1>1, <1>6, <2>4, RemoveSessionFacts
    <3> QED BY <1>5, <1>6, <2>1, <3>1
  <2>5. CASE ~AddSession(c) /\ ~FindUser(c) /\ ~RemoveSession(t)
    <3>1. d = sessionTable[o][i] BY <1>6, <2>5, TablesKept
    <3> QED BY <1>5, <1>6, <2>1, <3>1
  <2> QED BY <2>2, <2>3, <2>4, <2>5
<1> QED BY <1>4, <1>6 DEF OnTable

\* The locks of the users change in two places.
LEMMA ReadersKept ==
    ASSUME IInv, NEW c \in Conn, ReaderStep(c), ~Subscribed(c), ~SubscribeSessions(c)
    PROVE  UNCHANGED userReaders
<1>1. CASE Dial(c) \/ Authenticate(c) \/ FindUser(c) \/ AddSession(c) \/ Register(c)
  BY <1>1 DEF Dial, Authenticate, FindUser, AddSession, Register, userVars
<1>2. CASE HandleAuthentication(c) \/ HandleSessions(c) \/ Subscribe(c)
  BY <1>2 DEF HandleAuthentication, HandleSessions, Subscribe, userVars
<1>3. CASE AddSubscriber(c) \/ Data(c) \/ Lost(c) \/ Unregister(c)
  BY <1>3 DEF AddSubscriber, Data, Lost, Unregister, userVars
<1>4. CASE Closes(Reader(c))
  BY <1>4 DEF Closes, CloseLock, NotifySubscriber, NotifiedSubscribers, RemoveSubscriber,
              NotifyBack, DestroySession, RemoveSession, Closed, userVars
<1> QED BY <1>1, <1>2, <1>3, <1>4 DEF ReaderStep

\* Between listing the sessions of a User and the end there are these steps.
LEMMA ReadsOn ==
    ASSUME IInv, NEW c \in Conn, ReaderStep(c),
           pc[Reader(c)] \in {"subscribe", "subscriber", "data"}
    PROVE  Subscribe(c) \/ AddSubscriber(c) \/ Data(c) \/ Subscribed(c)
<1>1. ~Dial(c) /\ ~Authenticate(c) /\ ~FindUser(c) /\ ~AddSession(c) /\ ~Register(c)
  BY DEF Dial, Authenticate, FindUser, AddSession, Register
<1>2. ~HandleAuthentication(c) /\ ~HandleSessions(c) /\ ~SubscribeSessions(c) /\ ~Lost(c)
      /\ ~Unregister(c)
  BY DEF HandleAuthentication, HandleSessions, SubscribeSessions, Lost, Unregister
<1>3. ~Closes(Reader(c))
  BY DEF Closes, CloseLock, NotifySubscriber, NotifiedSubscribers, RemoveSubscriber,
         NotifyBack, DestroySession, RemoveSession
<1> QED BY <1>1, <1>2, <1>3 DEF ReaderStep

\* And it begins with listing them.
LEMMA OnlyListsRead ==
    ASSUME OwnIds, IInv, NoTakeover, NEW c \in Conn, ReaderStep(c),
           pc[Reader(c)] \notin {"subscribe", "subscriber", "data"},
           pc'[Reader(c)] \in {"subscribe", "subscriber", "data"}
    PROVE  SubscribeSessions(c)
<1> DEFINE t == Reader(c)
<1>1. t \in Thread /\ Session(t) = c /\ pc \in [Thread -> Steps]
  BY ReaderFacts DEF IInv, TypeOK
<1>2. CASE Dial(c) \/ Authenticate(c) \/ FindUser(c) \/ HandleAuthentication(c)
           \/ HandleSessions(c) \/ Lost(c) \/ Unregister(c)
  BY <1>1, <1>2
  DEF Dial, Authenticate, FindUser, HandleAuthentication, HandleSessions, Lost, Unregister, Goto
<1>3. CASE AddSession(c) \/ Register(c)
  BY <1>1, <1>3, AddSessionFacts, NobodyThere DEF Goto
<1>4. CASE Subscribe(c) \/ AddSubscriber(c) \/ Data(c) \/ Subscribed(c)
  BY <1>4 DEF Subscribe, AddSubscriber, Data, Subscribed
<1>5. CASE CloseLock(t) \/ DestroySession(t) \/ RemoveSession(t)
  BY <1>1, <1>5 DEF CloseLock, DestroySession, RemoveSession, Closed, After, Goto
<1>6. CASE NotifySubscriber(t) \/ NotifiedSubscribers(t) \/ RemoveSubscriber(t) \/ NotifyBack(t)
  BY <1>1, <1>6 DEF NotifySubscriber, NotifiedSubscribers, RemoveSubscriber, NotifyBack, Goto
<1> QED BY <1>2, <1>3, <1>4, <1>5, <1>6 DEF ReaderStep, Closes

\* The sessions somebody subscribes to are on their User after a step.
LEMMA ReadingStep ==
    ASSUME OwnIds, IInv, ListInv, OnTable, Reading, NEW c \in Conn, ReaderStep(c)
    PROVE  Reading'
<1> DEFINE t == Reader(c)
           Reads(d) == pc[Reader(d)] \in {"subscribe", "subscriber", "data"}
<1>1. /\ t \in Thread /\ Session(t) = c /\ pc \in [Thread -> Steps]
      /\ rest \in [Thread -> SUBSET Conn] /\ cur \in [Thread -> Conn \cup {NoConn}]
      /\ sessionTable \in [UserObj -> [Id -> Conn \cup {NoConn}]] /\ NoConn \notin Conn
      /\ userReaders \in [UserObj -> SUBSET Thread]
      /\ userTable \in [User -> UserObj \cup {NoObj}]
      /\ obj \in [Thread -> UserObj \cup {NoObj}] /\ NoObj \notin UserObj
      /\ \A d \in Conn : SessionId[d] \in Id
      /\ NoTakeover /\ Owners /\ Entries
  BY RegistryAssumption, ReaderFacts DEF IInv, TypeOK, ListInv
<1>2. /\ \A d \in Conn \ {c} : LET q == Reader(d) IN
            pc'[q] = pc[q] /\ obj'[q] = obj[q] /\ rest'[q] = rest[q] /\ cur'[q] = cur[q]
      /\ \A d \in Conn \ {c} : Reader(d) # t
  BY <1>1, OthersKept, ReaderFacts
\* The lock keeps what a User that is read lists.
<1>3. ASSUME NEW d \in Conn, Reads(d), d = c => ~Subscribed(c)
      PROVE  LET o == obj[Reader(d)] IN
             /\ o \in UserObj /\ Reader(d) \in userReaders'[o]
             /\ \A i \in Id : sessionTable'[o][i] = sessionTable[o][i]
  <2> DEFINE q == Reader(d)
             o == obj[q]
  <2>1. o \in UserObj /\ q \in userReaders[o] /\ q \in Thread
    BY <1>1, <1>3, ReaderFacts DEF Reading
  <2>2. q \in userReaders'[o]
    <3>1. CASE Subscribed(c)
      <4>1. q # t BY <1>2, <1>3, <3>1
      <4>2. userReaders' = [userReaders EXCEPT ![obj[t]] = @ \ {t}] BY <3>1 DEF Subscribed
      <4> QED BY <1>1, <2>1, <4>1, <4>2
    <3>2. CASE SubscribeSessions(c)
      <4>1. userReaders' = [userReaders EXCEPT ![obj[t]] = @ \cup {t}]
        BY <3>2 DEF SubscribeSessions, List
      <4> QED BY <1>1, <2>1, <4>1
    <3>3. CASE ~Subscribed(c) /\ ~SubscribeSessions(c)
      <4>1. UNCHANGED userReaders BY <3>3, ReadersKept
      <4> QED BY <2>1, <4>1
    <3> QED BY <3>1, <3>2, <3>3
  <2>3. \A i \in Id : sessionTable'[o][i] = sessionTable[o][i]
    <3>1. CASE FindUser(c)
      <4>1. o \notin Unused BY <2>1 DEF Unused
      <4> QED BY <1>1, <2>1, <3>1, <4>1, FindUserFacts
    <3>2. CASE AddSession(c) BY <2>1, <3>2, AddSessionFacts
    <3>3. CASE RemoveSession(t) BY <2>1, <3>3, RemoveSessionFacts
    <3>4. CASE ~FindUser(c) /\ ~AddSession(c) /\ ~RemoveSession(t) BY <3>4, TablesKept
    <3> QED BY <3>1, <3>2, <3>3, <3>4
  <2> QED BY <2>1, <2>2, <2>3
\* Who goes on reading keeps its User, and visits what it was to visit.
<1>4. ASSUME NEW d \in Conn, Reads(d), pc'[Reader(d)] \in {"subscribe", "subscriber", "data"}
      PROVE  LET q == Reader(d) IN
             /\ obj'[q] = obj[q] /\ rest'[q] \subseteq rest[q]
             /\ pc'[q] = "subscriber" =>
                   \/ pc[q] = "subscriber" /\ cur'[q] = cur[q]
                   \/ pc[q] = "subscribe" /\ cur'[q] \in rest[q]
             /\ d = c => ~Subscribed(c)
  <2>1. CASE d # c BY <1>2, <1>4, <2>1
  <2>2. CASE d = c
    <3>1. ~Subscribed(c) BY <1>1, <1>4, <2>2 DEF Subscribed, Goto
    <3>2. CASE Subscribe(c)
      <4>1. PICK y \in rest[t] : /\ cur' = [cur EXCEPT ![t] = y]
                                 /\ rest' = [rest EXCEPT ![t] = @ \ {y}]
        BY <3>2 DEF Subscribe
      <4>2. pc[t] = "subscribe" /\ UNCHANGED obj BY <3>2 DEF Subscribe
      <4> QED BY <1>1, <2>2, <3>1, <4>1, <4>2
    <3>3. CASE AddSubscriber(c)
      <4>1. pc'[t] = "data" /\ UNCHANGED <<obj, rest>> BY <1>1, <3>3 DEF AddSubscriber, Goto
      <4> QED BY <2>2, <3>1, <4>1
    <3>4. CASE Data(c)
      <4>1. pc'[t] = "subscribe" /\ UNCHANGED <<obj, rest>> BY <1>1, <3>4 DEF Data, Goto
      <4> QED BY <2>2, <3>1, <4>1
    <3> QED BY <1>4, <2>2, <3>1, <3>2, <3>3, <3>4, ReadsOn
  <2> QED BY <2>1, <2>2
\* Who begins to read has just listed the sessions.
<1>5. ASSUME NEW d \in Conn, ~Reads(d), pc'[Reader(d)] \in {"subscribe", "subscriber", "data"}
      PROVE  d = c /\ SubscribeSessions(c)
  <2>1. d = c BY <1>2, <1>5
  <2> QED BY <1>1, <1>5, <2>1, OnlyListsRead
<1> SUFFICES ASSUME NEW d \in Conn, pc'[Reader(d)] \in {"subscribe", "subscriber", "data"},
                    NEW o, o = obj'[Reader(d)]
             PROVE  /\ o # NoObj /\ Reader(d) \in userReaders'[o]
                    /\ \A s \in rest'[Reader(d)] : sessionTable'[o][SessionId[s]] = s
                    /\ pc'[Reader(d)] = "subscriber" =>
                          sessionTable'[o][SessionId[cur'[Reader(d)]]] = cur'[Reader(d)]
  BY DEF Reading
<1>6. CASE Reads(d)
  <2> DEFINE q == Reader(d)
  <2>1. /\ o = obj[q] /\ rest'[q] \subseteq rest[q]
        /\ pc'[q] = "subscriber" =>
              \/ pc[q] = "subscriber" /\ cur'[q] = cur[q]
              \/ pc[q] = "subscribe" /\ cur'[q] \in rest[q]
        /\ o \in UserObj /\ q \in userReaders'[o]
        /\ \A i \in Id : sessionTable'[o][i] = sessionTable[o][i]
        /\ q \in Thread
    BY <1>3, <1>4, <1>6, ReaderFacts
  <2>2. /\ \A s \in rest[q] : s \in Conn /\ sessionTable[o][SessionId[s]] = s
        /\ pc[q] = "subscriber" => cur[q] \in Conn /\ sessionTable[o][SessionId[cur[q]]] = cur[q]
    BY <1>1, <1>6, <2>1 DEF Reading, IInv, Locals
  <2>3. \A s \in rest'[q] : sessionTable'[o][SessionId[s]] = s BY <1>1, <2>1, <2>2
  <2>4. ASSUME pc'[q] = "subscriber", NEW s, s = cur'[q]
        PROVE  sessionTable'[o][SessionId[s]] = s
    <3>1. s \in Conn /\ sessionTable[o][SessionId[s]] = s BY <2>1, <2>2, <2>4
    <3> QED BY <1>1, <2>1, <3>1
  <2> QED BY <1>1, <2>1, <2>3, <2>4
<1>7. CASE ~Reads(d)
  <2>1. d = c /\ SubscribeSessions(c) BY <1>5, <1>7
  <2>2. /\ pc[t] = "sessions" /\ pc'[t] = "subscribe" /\ UNCHANGED <<obj, sessionTable>>
        /\ userReaders' = [userReaders EXCEPT ![obj[t]] = @ \cup {t}]
        /\ rest' = [rest EXCEPT ![t] = {sessionTable[obj[t]][i] : i \in Id} \ {NoConn}]
    BY <1>1, <2>1 DEF SubscribeSessions, List, Goto
  <2>3. o = obj[t] /\ o \in UserObj BY <1>1, <2>1, <2>2 DEF IInv, Locals
  <2>4. t \in userReaders'[o] /\ rest'[t] = {sessionTable[o][i] : i \in Id} \ {NoConn}
    BY <1>1, <2>2, <2>3
  <2>5. \A s \in rest'[t] : sessionTable[o][SessionId[s]] = s
    BY <1>1, <2>3, <2>4 DEF Entries
  <2> QED BY <1>1, <2>1, <2>2, <2>3, <2>4, <2>5
<1> QED BY <1>6, <1>7

\* Only hub.OnConnect makes a connection known.
LEMMA RegisteredKept ==
    ASSUME NEW c \in Conn, ReaderStep(c), ~Register(c)
    PROVE  UNCHANGED registered
<1>1. CASE Dial(c) \/ Authenticate(c) \/ FindUser(c) \/ AddSession(c) \/ Unregister(c)
  BY <1>1 DEF Dial, Authenticate, FindUser, AddSession, Unregister
<1>2. CASE HandleAuthentication(c) \/ HandleSessions(c) \/ SubscribeSessions(c) \/ Subscribe(c)
           \/ AddSubscriber(c) \/ Data(c) \/ Subscribed(c) \/ Lost(c)
  BY <1>2 DEF HandleAuthentication, HandleSessions, SubscribeSessions, Subscribe, AddSubscriber,
              Data, Subscribed, Lost
<1>3. CASE Closes(Reader(c))
  BY <1>3 DEF Closes, CloseLock, NotifySubscriber, NotifiedSubscribers, RemoveSubscriber,
              NotifyBack, DestroySession, RemoveSession
<1> QED BY <1>1, <1>2, <1>3 DEF ReaderStep

\* Only Session.Subscribe changes what is subscribed to.
LEMMA SubscriptionsKept ==
    ASSUME NEW c \in Conn, ReaderStep(c), ~Subscribe(c)
    PROVE  UNCHANGED subscriptions
<1>1. CASE Dial(c) \/ Authenticate(c) \/ FindUser(c) \/ AddSession(c) \/ Register(c)
           \/ Unregister(c)
  BY <1>1 DEF Dial, Authenticate, FindUser, AddSession, Register, Unregister, sessionVars
<1>2. CASE HandleAuthentication(c) \/ HandleSessions(c) \/ SubscribeSessions(c)
           \/ AddSubscriber(c) \/ Data(c) \/ Subscribed(c) \/ Lost(c)
  BY <1>2 DEF HandleAuthentication, HandleSessions, SubscribeSessions, AddSubscriber,
              Data, Subscribed, Lost, sessionVars
<1>3. CASE Closes(Reader(c))
  BY <1>3 DEF Closes, CloseLock, NotifySubscriber, NotifiedSubscribers, RemoveSubscriber,
              NotifyBack, DestroySession, RemoveSession, Closed, sessionVars
<1> QED BY <1>1, <1>2, <1>3 DEF ReaderStep

\* Who subscribes is known to the hub, after a step.
LEMMA KnownStep ==
    ASSUME OwnIds, IInv, ListInv, Known, NEW c \in Conn, ReaderStep(c)
    PROVE  Known'
<1> DEFINE t == Reader(c)
           In(p) == p \in {"serve", "sessions", "subscribe", "subscriber", "data"}
<1>1. /\ t \in Thread /\ Session(t) = c /\ pc \in [Thread -> Steps]
      /\ registered \in [Conn -> BOOLEAN] /\ subscriptions \in [Conn -> SUBSET Conn]
      /\ NoTakeover
  BY ReaderFacts DEF IInv, TypeOK, ListInv
<1>2. \A d \in Conn \ {c} : pc'[Reader(d)] = pc[Reader(d)] /\ registered'[d] = registered[d]
  BY <1>1, OthersKept, ReaderFacts
<1>3. registered[c] => registered'[c]
  <2>1. CASE Register(c) BY <1>1, <2>1 DEF Register
  <2>2. CASE ~Register(c)
    <3>1. UNCHANGED registered BY <2>2, RegisteredKept
    <3> QED BY <3>1
  <2> QED BY <2>1, <2>2
<1>4. In(pc'[t]) => registered'[c]
  <2>1. CASE Register(c) BY <1>1, <2>1 DEF Register
  <2>2. CASE AddSession(c)
    <3>1. Goto(t, IF registered[c] THEN "serve" ELSE "register") /\ UNCHANGED registered
      BY <2>2 DEF AddSession
    <3> QED BY <1>1, <3>1 DEF Goto
  <2>3. CASE In(pc[t]) BY <1>3, <2>3 DEF Known
  <2>4. CASE ~In(pc[t]) /\ ~Register(c) /\ ~AddSession(c)
    <3>1. CASE Dial(c) \/ Authenticate(c) \/ FindUser(c) \/ Unregister(c)
      BY <1>1, <3>1 DEF Dial, Authenticate, FindUser, Unregister, Goto
    <3>2. CASE HandleAuthentication(c) \/ HandleSessions(c) \/ SubscribeSessions(c) \/ Subscribe(c)
               \/ AddSubscriber(c) \/ Data(c) \/ Subscribed(c) \/ Lost(c)
      BY <2>4, <3>2 DEF HandleAuthentication, HandleSessions, SubscribeSessions, Subscribe,
                        AddSubscriber, Data, Subscribed, Lost
    <3>3. CASE CloseLock(t) \/ DestroySession(t) \/ RemoveSession(t)
      BY <1>1, <3>3 DEF CloseLock, DestroySession, RemoveSession, Closed, After, Goto
    <3>4. CASE NotifySubscriber(t) \/ NotifiedSubscribers(t) \/ RemoveSubscriber(t)
               \/ NotifyBack(t)
      BY <1>1, <3>4 DEF NotifySubscriber, NotifiedSubscribers, RemoveSubscriber, NotifyBack, Goto
    <3> QED BY <2>4, <3>1, <3>2, <3>3, <3>4 DEF ReaderStep, Closes
  <2> QED BY <2>1, <2>2, <2>3, <2>4
<1>5. \A d \in Conn : subscriptions'[d] # {} => registered'[d]
  <2>1. CASE Subscribe(c)
    <3>1. pc[t] = "subscribe" /\ maps[c] = c BY <1>1, <2>1 DEF Subscribe, NoTakeover
    <3>2. registered'[c] BY <1>3, <3>1 DEF Known
    <3>3. \A d \in Conn \ {c} : subscriptions'[d] = subscriptions[d]
      BY <1>1, <2>1, <3>1 DEF Subscribe
    <3> QED BY <1>2, <3>2, <3>3 DEF Known
  <2>2. CASE ~Subscribe(c)
    <3>1. UNCHANGED subscriptions BY <1>1, <2>2, SubscriptionsKept
    <3> QED BY <1>2, <1>3, <3>1 DEF Known
  <2> QED BY <2>1, <2>2
<1> QED BY <1>2, <1>4, <1>5 DEF Known

\* What others wait for stays, when c does not begin to close, tell or subscribe.
LEMMA ToldFrame ==
    ASSUME OwnIds, IInv, ListInv, WillBeTold, NEW c \in Conn, ReaderStep(c),
           UNCHANGED <<subscriptions, subscribers>>, told \subseteq told',
           pc[Reader(c)] \notin {"subscriber", "notify"},
           pc[Reader(c)] \in Early => pc'[Reader(c)] \in Early,
           Serving(c)' => Serving(c) \/ subscriptions[c] = {}
    PROVE  WillBeTold'
<1>1. \A d \in Conn \ {c} : LET q == Reader(d) IN
         pc'[q] = pc[q] /\ rest'[q] = rest[q] /\ cur'[q] = cur[q]
  BY OthersKept, ReaderFacts DEF ListInv
<1>2. subscriptions \in [Conn -> SUBSET Conn] BY DEF IInv, TypeOK
<1> SUFFICES ASSUME NEW e \in Conn, Serving(e)', NEW s \in subscriptions[e]
             PROVE  <<e, SessionId[s]>> \in told' \/ Coming(e, s)'
  BY DEF WillBeTold
<1>3. s \in Conn BY <1>2
<1>4. Serving(e)
  <2>1. CASE e = c BY <2>1
  <2>2. CASE e # c BY <1>1, <2>2 DEF Serving
  <2> QED BY <2>1, <2>2
<1>5. <<e, SessionId[s]>> \in told \/ Coming(e, s) BY <1>4 DEF WillBeTold
<1>6. ASSUME Coming(e, s) PROVE Coming(e, s)'
  <2>1. CASE pc[Reader(e)] = "subscriber" /\ cur[Reader(e)] = s
    BY <1>1, <2>1 DEF Coming
  <2>2. CASE e \in subscribers[s] /\ pc[Reader(s)] \in Early
    <3>1. pc'[Reader(s)] \in Early BY <1>1, <1>3, <2>2
    <3> QED BY <2>2, <3>1 DEF Coming
  <2>3. CASE pc[Reader(s)] = "notify" /\ e \in rest[Reader(s)]
    BY <1>1, <1>3, <2>3 DEF Coming
  <2> QED BY <1>6, <2>1, <2>2, <2>3 DEF Coming
<1> QED BY <1>5, <1>6

\* Session.Subscribe: the session subscribed to is the one it goes on with.
LEMMA SubscribeTold ==
    ASSUME OwnIds, IInv, ListInv, WillBeTold, NEW c \in Conn, Subscribe(c)
    PROVE  WillBeTold'
<1> DEFINE t == Reader(c)
<1>1. /\ pc[t] = "subscribe" /\ t \in Thread /\ pc \in [Thread -> Steps]
      /\ rest \in [Thread -> SUBSET Conn] /\ cur \in [Thread -> Conn \cup {NoConn}]
      /\ subscriptions \in [Conn -> SUBSET Conn]
      /\ maps[c] = c /\ ~disconnected[c] /\ Goto(t, "subscriber") /\ UNCHANGED subscribers
      /\ \A d \in Conn \ {c} : Reader(d) \in Thread \ {t}
  BY ReaderFacts DEF IInv, TypeOK, Subscribe, ListInv, NoTakeover
<1>2. PICK y \in rest[t] :
         /\ cur' = [cur EXCEPT ![t] = y] /\ rest' = [rest EXCEPT ![t] = @ \ {y}]
         /\ subscriptions' = [subscriptions EXCEPT ![c] = Put(@, y)]
         /\ told' = told \ {<<c, SessionId[y]>>}
  BY <1>1 DEF Subscribe
<1>3. y \in Conn /\ cur'[t] = y /\ pc'[t] = "subscriber" BY <1>1, <1>2 DEF Goto
<1>4. \A d \in Conn \ {c} : LET q == Reader(d) IN
         pc'[q] = pc[q] /\ rest'[q] = rest[q] /\ cur'[q] = cur[q]
  BY <1>1, <1>2 DEF Goto
<1>5. /\ \A d \in Conn \ {c} : subscriptions'[d] = subscriptions[d]
      /\ \A s \in subscriptions'[c] \ {y} : s \in subscriptions[c] /\ SessionId[s] # SessionId[y]
  BY <1>1, <1>2 DEF Put
<1> SUFFICES ASSUME NEW e \in Conn, Serving(e)', NEW s \in subscriptions'[e]
             PROVE  <<e, SessionId[s]>> \in told' \/ Coming(e, s)'
  BY DEF WillBeTold
<1>6. CASE e = c /\ s = y BY <1>3, <1>6 DEF Coming
<1>7. CASE e # c \/ s # y
  <2>1. s \in subscriptions[e] /\ s \in Conn BY <1>1, <1>5, <1>7
  <2>2. Serving(e) BY <1>1, <1>4 DEF Serving
  <2>3. <<e, SessionId[s]>> \in told \/ Coming(e, s) BY <2>1, <2>2 DEF WillBeTold
  <2>4. <<e, SessionId[s]>> \in told => <<e, SessionId[s]>> \in told'
    BY <1>2, <1>5, <1>7
  <2>5. ASSUME Coming(e, s) PROVE Coming(e, s)'
    <3>1. CASE pc[Reader(e)] = "subscriber" /\ cur[Reader(e)] = s
      BY <1>1, <1>4, <3>1 DEF Coming
    <3>2. CASE e \in subscribers[s] /\ pc[Reader(s)] \in Early
      <4>1. pc'[Reader(s)] \in Early BY <1>3, <1>4, <2>1, <3>2 DEF Early
      <4> QED BY <1>1, <3>2, <4>1 DEF Coming
    <3>3. CASE pc[Reader(s)] = "notify" /\ e \in rest[Reader(s)]
      BY <1>1, <1>4, <2>1, <3>3 DEF Coming
    <3> QED BY <2>5, <3>1, <3>2, <3>3 DEF Coming
  <2> QED BY <2>3, <2>4, <2>5
<1> QED BY <1>6, <1>7

\* Session.AddSubscriber: the other has not begun to close, and keeps the subscriber.
LEMMA AddSubscriberTold ==
    ASSUME OwnIds, IInv, ListInv, OnTable, Reading, WillBeTold, NEW c \in Conn, AddSubscriber(c)
    PROVE  WillBeTold'
<1> DEFINE t == Reader(c)
           y == cur[t]
<1>1. /\ pc[t] = "subscriber" /\ t \in Thread /\ pc \in [Thread -> Steps]
      /\ y \in Conn /\ Free(y) /\ Goto(t, "data") /\ UNCHANGED <<subscriptions, told, rest, cur>>
      /\ subscribers \in [Conn -> SUBSET Conn] /\ subscriptions \in [Conn -> SUBSET Conn]
      /\ \A d \in Conn \ {c} : Reader(d) \in Thread \ {t}
      /\ maps[y] = y
  BY ReaderFacts DEF IInv, TypeOK, Locals, AddSubscriber, ListInv, NoTakeover
<1>2. pc'[t] = "data" /\ \A d \in Conn \ {c} : pc'[Reader(d)] = pc[Reader(d)]
  BY <1>1 DEF Goto
<1>3. pc[Reader(y)] \in Early
  <2> DEFINE o == obj[t]
             i == SessionId[y]
  <2>1. o \in UserObj /\ i \in Id /\ sessionTable[o][i] = y
    BY <1>1, RegistryAssumption DEF Reading, IInv, TypeOK
  <2>2. userid[y] \in User /\ userTable[userid[y]] = o
    BY <1>1, <2>1, RegistryAssumption DEF OnTable, ListInv, Entries, IInv, TypeOK
  <2>3. pc[Reader(y)] \in Listed
    BY <1>1, <2>1, <2>2, RegistryAssumption DEF ListInv, Entries
  <2>4. ~Cleaning(Reader(y))
    <3>1. HubInv BY DEF IInv, HubInv
    <3> QED BY <1>1, <3>1, FreeFacts, ReaderFacts
  <2> QED BY <2>3, <2>4 DEF Listed, Early, Cleaning
<1>4. ~disconnected[y] BY <1>1, <1>3 DEF ListInv, NoTakeover, Early
<1>5. subscribers' = [subscribers EXCEPT ![y] = Put(@, c)]
  BY <1>1, <1>4 DEF AddSubscriber
<1>6. c \in subscribers'[y] /\ \A e, s \in Conn : e \in subscribers[s] => e \in subscribers'[s]
  <2>1. \A s \in Conn \ {y} : subscribers'[s] = subscribers[s] BY <1>1, <1>5
  <2>2. subscribers'[y] = Put(subscribers[y], c) BY <1>1, <1>5
  <2>3. \A e \in Conn : e \in subscribers[y] => e \in Put(subscribers[y], c)
    BY DEF Put, OwnIds
  <2> QED BY <2>1, <2>2, <2>3 DEF Put
<1> HIDE DEF y
<1> SUFFICES ASSUME NEW e \in Conn, Serving(e)', NEW s \in subscriptions[e]
             PROVE  <<e, SessionId[s]>> \in told' \/ Coming(e, s)'
  BY <1>1 DEF WillBeTold
<1>7. s \in Conn /\ Serving(e) BY <1>1, <1>2 DEF Serving
<1>8. <<e, SessionId[s]>> \in told \/ Coming(e, s) BY <1>7 DEF WillBeTold
<1>9. ASSUME Coming(e, s) PROVE Coming(e, s)'
  <2>1. CASE pc[Reader(e)] = "subscriber" /\ cur[Reader(e)] = s
    <3>1. CASE e = c
      <4>1. s = y /\ pc'[Reader(y)] \in Early BY <1>1, <1>2, <1>3, <2>1, <3>1 DEF y, Early
      <4> QED BY <1>6, <3>1, <4>1 DEF Coming
    <3>2. CASE e # c BY <1>1, <1>2, <2>1, <3>2 DEF Coming
    <3> QED BY <3>1, <3>2
  <2>2. CASE e \in subscribers[s] /\ pc[Reader(s)] \in Early
    <3>1. pc'[Reader(s)] \in Early BY <1>2, <1>7, <2>2 DEF Early
    <3> QED BY <1>6, <1>7, <2>2, <3>1 DEF Coming
  <2>3. CASE pc[Reader(s)] = "notify" /\ e \in rest[Reader(s)]
    BY <1>1, <1>2, <1>7, <2>3 DEF Coming
  <2> QED BY <1>9, <2>1, <2>2, <2>3 DEF Coming
<1> QED BY <1>1, <1>8, <1>9

\* Close begins with those who subscribed.
LEMMA CloseLockTold ==
    ASSUME OwnIds, IInv, ListInv, WillBeTold, NEW c \in Conn, CloseLock(Reader(c))
    PROVE  WillBeTold'
<1> DEFINE t == Reader(c)
<1>1. /\ pc[t] = "close" /\ t \in Thread /\ Session(t) = c /\ pc \in [Thread -> Steps]
      /\ rest \in [Thread -> SUBSET Conn] /\ subscriptions \in [Conn -> SUBSET Conn]
      /\ ~disconnected[c] /\ ~replaced[c] /\ maps[c] = c
      /\ \A d \in Conn \ {c} : Reader(d) \in Thread \ {t}
  BY ReaderFacts DEF IInv, TypeOK, CloseLock, ListInv, NoTakeover
<1>2. /\ rest' = [rest EXCEPT ![t] = subscribers[c]] /\ Goto(t, "notify")
      /\ UNCHANGED <<subscriptions, subscribers, told, cur>>
  BY <1>1 DEF CloseLock, CloseReturns
<1>3. /\ pc'[t] = "notify" /\ rest'[t] = subscribers[c]
      /\ \A d \in Conn \ {c} : pc'[Reader(d)] = pc[Reader(d)] /\ rest'[Reader(d)] = rest[Reader(d)]
  BY <1>1, <1>2 DEF Goto
<1> SUFFICES ASSUME NEW e \in Conn, Serving(e)', NEW s \in subscriptions[e]
             PROVE  <<e, SessionId[s]>> \in told' \/ Coming(e, s)'
  BY <1>2 DEF WillBeTold
<1>4. s \in Conn /\ e # c BY <1>1, <1>3 DEF Serving
<1>5. <<e, SessionId[s]>> \in told \/ Coming(e, s) BY <1>3, <1>4 DEF WillBeTold, Serving
<1>6. ASSUME Coming(e, s) PROVE Coming(e, s)'
  <2>1. CASE pc[Reader(e)] = "subscriber" /\ cur[Reader(e)] = s
    BY <1>2, <1>3, <1>4, <2>1 DEF Coming
  <2>2. CASE e \in subscribers[s] /\ pc[Reader(s)] \in Early
    BY <1>2, <1>3, <1>4, <2>2 DEF Coming
  <2>3. CASE pc[Reader(s)] = "notify" /\ e \in rest[Reader(s)]
    BY <1>1, <1>3, <1>4, <2>3 DEF Coming
  <2> QED BY <1>6, <2>1, <2>2, <2>3 DEF Coming
<1> QED BY <1>2, <1>5, <1>6

\* Whoever is served is the hub's client of its id, and is told.
LEMMA NotifySubscriberTold ==
    ASSUME OwnIds, IInv, ListInv, Known, WillBeTold, NEW c \in Conn, NotifySubscriber(Reader(c))
    PROVE  WillBeTold'
<1> DEFINE t == Reader(c)
<1>1. /\ pc[t] = "notify" /\ t \in Thread /\ Session(t) = c
      /\ rest \in [Thread -> SUBSET Conn] /\ subscriptions \in [Conn -> SUBSET Conn]
      /\ UNCHANGED <<pc, cur, subscriptions, subscribers>> /\ NoConn \notin Conn
      /\ \A d \in Conn \ {c} : Reader(d) \in Thread \ {t}
  BY ReaderFacts, RegistryAssumption DEF IInv, TypeOK, NotifySubscriber, sessionVars
<1>2. PICK x \in rest[t] : rest' = [rest EXCEPT ![t] = @ \ {x}] /\ Tell(x, c)
  BY <1>1 DEF NotifySubscriber
<1>3. /\ \A d \in Conn \ {c} : rest'[Reader(d)] = rest[Reader(d)]
      /\ rest'[t] = rest[t] \ {x} /\ told \subseteq told'
  BY <1>1, <1>2 DEF Tell
<1> SUFFICES ASSUME NEW e \in Conn, Serving(e), NEW s \in subscriptions[e]
             PROVE  <<e, SessionId[s]>> \in told' \/ Coming(e, s)'
  BY <1>1 DEF WillBeTold, Serving
<1>4. s \in Conn BY <1>1
<1>5. <<e, SessionId[s]>> \in told \/ Coming(e, s) BY DEF WillBeTold
<1>6. CASE s = c /\ e = x
  <2>1. registered[e] BY DEF Known
  <2>2. pc[Reader(e)] # "done" /\ ~Superseded(e)
    BY <1>1 DEF Serving, ListInv, NoTakeover, Superseded
  <2>3. clients[SessionId[e]] = e BY <2>1, <2>2 DEF IInv, HubHasCurrent
  <2> QED BY <1>1, <1>2, <1>6, <2>3 DEF Tell
<1>7. CASE s # c \/ e # x
  <2>1. Coming(e, s) => Coming(e, s)' BY <1>1, <1>3, <1>4, <1>7 DEF Coming
  <2> QED BY <1>3, <1>5, <2>1
<1> QED BY <1>6, <1>7

\* When all are told nobody is left.
LEMMA NotifiedTold ==
    ASSUME OwnIds, IInv, ListInv, WillBeTold, NEW c \in Conn, NotifiedSubscribers(Reader(c))
    PROVE  WillBeTold'
<1> DEFINE t == Reader(c)
<1>1. /\ pc[t] = "notify" /\ rest[t] = {} /\ t \in Thread /\ Goto(t, "unsubscribe")
      /\ pc \in [Thread -> Steps] /\ rest \in [Thread -> SUBSET Conn]
      /\ subscriptions \in [Conn -> SUBSET Conn]
      /\ rest' = [rest EXCEPT ![t] = subscriptions[maps[Session(t)]]]
      /\ UNCHANGED <<cur, subscriptions, subscribers, told>>
      /\ \A d \in Conn \ {c} : Reader(d) \in Thread \ {t}
  BY ReaderFacts DEF IInv, TypeOK, NotifiedSubscribers, sessionVars
<1>2. /\ pc'[t] = "unsubscribe"
      /\ \A d \in Conn \ {c} : pc'[Reader(d)] = pc[Reader(d)] /\ rest'[Reader(d)] = rest[Reader(d)]
  BY <1>1 DEF Goto
<1> SUFFICES ASSUME NEW e \in Conn, Serving(e)', NEW s \in subscriptions[e]
             PROVE  <<e, SessionId[s]>> \in told' \/ Coming(e, s)'
  BY <1>1 DEF WillBeTold
<1>3. s \in Conn /\ e # c BY <1>1, <1>2 DEF Serving
<1>4. <<e, SessionId[s]>> \in told \/ Coming(e, s) BY <1>2, <1>3 DEF WillBeTold, Serving
<1>5. Coming(e, s) => Coming(e, s)' BY <1>1, <1>2, <1>3 DEF Coming, Early
<1> QED BY <1>1, <1>4, <1>5

\* Close takes only itself off the subscribers of others.
LEMMA RemoveSubscriberTold ==
    ASSUME OwnIds, IInv, ListInv, WillBeTold, NEW c \in Conn, RemoveSubscriber(Reader(c))
    PROVE  WillBeTold'
<1> DEFINE t == Reader(c)
<1>1. /\ pc[t] = "unsubscribe" /\ t \in Thread /\ Session(t) = c /\ Goto(t, "notifyBack")
      /\ pc \in [Thread -> Steps] /\ rest \in [Thread -> SUBSET Conn]
      /\ cur \in [Thread -> Conn \cup {NoConn}]
      /\ subscriptions \in [Conn -> SUBSET Conn] /\ subscribers \in [Conn -> SUBSET Conn]
      /\ UNCHANGED <<subscriptions, told>> /\ \A d \in Conn : maps[d] = d
      /\ \A d \in Conn \ {c} : Reader(d) \in Thread \ {t}
  BY ReaderFacts DEF IInv, TypeOK, RemoveSubscriber, ListInv, NoTakeover
<1>2. PICK y \in rest[t] :
         /\ rest' = [rest EXCEPT ![t] = @ \ {y}] /\ cur' = [cur EXCEPT ![t] = y]
         /\ subscribers' = IF disconnected[y] THEN subscribers
                           ELSE [subscribers EXCEPT ![y] = Remove(@, SessionId[c])]
  BY <1>1 DEF RemoveSubscriber
<1>3. /\ pc'[t] = "notifyBack"
      /\ \A d \in Conn \ {c} : LET q == Reader(d) IN
            pc'[q] = pc[q] /\ rest'[q] = rest[q] /\ cur'[q] = cur[q]
  BY <1>1, <1>2 DEF Goto
<1>4. \A e \in Conn \ {c}, s \in Conn : e \in subscribers[s] => e \in subscribers'[s]
  <2>1. CASE disconnected[y] BY <1>2, <2>1
  <2>2. CASE ~disconnected[y]
    <3>1. subscribers' = [subscribers EXCEPT ![y] = Remove(@, SessionId[c])] BY <1>2, <2>2
    <3>2. \A e \in Conn \ {c} : e \in subscribers[y] => e \in Remove(subscribers[y], SessionId[c])
      BY DEF Remove, OwnIds
    <3> QED BY <1>1, <3>1, <3>2
  <2> QED BY <2>1, <2>2
<1> SUFFICES ASSUME NEW e \in Conn, Serving(e)', NEW s \in subscriptions[e]
             PROVE  <<e, SessionId[s]>> \in told' \/ Coming(e, s)'
  BY <1>1 DEF WillBeTold
<1>5. s \in Conn /\ e # c BY <1>1, <1>3 DEF Serving
<1>6. <<e, SessionId[s]>> \in told \/ Coming(e, s) BY <1>3, <1>5 DEF WillBeTold, Serving
<1>7. Coming(e, s) => Coming(e, s)' BY <1>1, <1>3, <1>4, <1>5 DEF Coming, Early
<1> QED BY <1>1, <1>6, <1>7

\* WillBeTold after a step.
LEMMA WillBeToldStep ==
    ASSUME OwnIds, IInv, ListInv, ToldInv, NEW c \in Conn, ReaderStep(c)
    PROVE  WillBeTold'
<1> DEFINE t == Reader(c)
<1>1. /\ t \in Thread /\ Session(t) = c /\ pc \in [Thread -> Steps]
      /\ OnTable /\ Reading /\ Known /\ WillBeTold /\ NoTakeover
  BY ReaderFacts DEF IInv, TypeOK, ToldInv, ListInv
<1>2. CASE Dial(c) \/ Register(c)
  <2>1. /\ pc[t] \in {"off", "register"} /\ pc'[t] \in {"authenticate", "register", "serve"}
        /\ UNCHANGED <<subscriptions, subscribers, told>>
    BY <1>1, <1>2, NobodyThere DEF Dial, Register, Goto, sessionVars
  <2>2. ~registered[c] BY <2>1 DEF IInv, KnownOnce
  <2>3. subscriptions[c] = {} BY <1>1, <2>2 DEF Known
  <2> QED BY <1>1, <2>1, <2>3, ToldFrame DEF Early
<1>3. CASE Authenticate(c) \/ HandleAuthentication(c) \/ HandleSessions(c)
           \/ SubscribeSessions(c) \/ Data(c) \/ Subscribed(c)
  <2>1. /\ Serving(c) /\ pc[t] # "subscriber" /\ pc'[t] \in Early
        /\ UNCHANGED <<subscriptions, subscribers, told>>
    BY <1>1, <1>3
    DEF Authenticate, HandleAuthentication, HandleSessions, SubscribeSessions, Data, Subscribed,
        Goto, sessionVars, Serving, Early
  <2>2. pc[t] # "notify" BY <2>1 DEF Serving
  <2> QED BY <1>1, <2>1, <2>2, ToldFrame
<1>4. CASE FindUser(c) \/ AddSession(c)
  <2>1. /\ pc[t] \in {"user", "add"} /\ pc'[t] \in {"add", "serve", "register"}
        /\ UNCHANGED <<subscriptions, subscribers, told>>
    BY <1>1, <1>4 DEF FindUser, AddSession, Goto, sessionVars
  <2> QED BY <1>1, <2>1, ToldFrame DEF Early, Serving
<1>5. CASE Lost(c)
  <2>1. /\ pc[t] = "serve" /\ pc'[t] = "close" /\ UNCHANGED <<subscriptions, subscribers, told>>
    BY <1>1, <1>5 DEF Lost, Goto, sessionVars
  <2> QED BY <1>1, <2>1, ToldFrame DEF Early, Serving
<1>6. CASE NotifyBack(t) \/ DestroySession(t) \/ RemoveSession(t) \/ Unregister(c)
  <2>1. /\ pc[t] \in {"notifyBack", "unsubscribe", "remove", "unregister"}
        /\ pc'[t] \in {"unsubscribe", "remove", "unregister", "done"}
    BY <1>1, <1>6
    DEF NotifyBack, DestroySession, RemoveSession, Unregister, Closed, After, Goto
  <2>2. UNCHANGED <<subscriptions, subscribers>> /\ told \subseteq told'
    BY <1>6 DEF NotifyBack, Tell, DestroySession, RemoveSession, Unregister, Closed, sessionVars
  <2> QED BY <1>1, <2>1, <2>2, ToldFrame DEF Early, Serving
<1>7. CASE Subscribe(c) BY <1>1, <1>7, SubscribeTold
<1>8. CASE AddSubscriber(c) BY <1>1, <1>8, AddSubscriberTold
<1>9. CASE CloseLock(t) BY <1>1, <1>9, CloseLockTold
<1>10. CASE NotifySubscriber(t) BY <1>1, <1>10, NotifySubscriberTold
<1>11. CASE NotifiedSubscribers(t) BY <1>1, <1>11, NotifiedTold
<1>12. CASE RemoveSubscriber(t) BY <1>1, <1>12, RemoveSubscriberTold
<1> QED BY <1>2, <1>3, <1>4, <1>5, <1>6, <1>7, <1>8, <1>9, <1>10, <1>11, <1>12
        DEF ReaderStep, Closes

\* ToldInv after any step.
LEMMA ToldStep ==
    ASSUME OwnIds, OwnUsers, IInv, ListInv, ToldInv, [Next]_vars
    PROVE  ToldInv'
<1>1. CASE UNCHANGED contactVars
  <2>1. OnTable' /\ Reading' /\ Known'
    BY <1>1 DEF ToldInv, OnTable, Reading, Known, contactVars, sessionVars, userVars
  <2>2. WillBeTold'
    BY <1>1 DEF ToldInv, WillBeTold, Serving, Coming, contactVars, sessionVars
  <2> QED BY <2>1, <2>2 DEF ToldInv
<1>2. ASSUME NEW c \in Conn, ReaderStep(c) PROVE ToldInv'
  BY <1>2, OnTableStep, ReadingStep, KnownStep, WillBeToldStep DEF ToldInv
<1> QED BY <1>1, <1>2, OwnSteps DEF ListInv

\* ToldInv at the start.
LEMMA InitTold == Init => ToldInv
BY RegistryAssumption, ReaderFacts
DEF Init, ToldInv, OnTable, Reading, Known, WillBeTold, Serving

\* Whoever subscribed to a session and is still served was sent Left when it ended, as long
\* as nobody presents the session id of another and no user has two sessions.
THEOREM SubscribersAreTold ==
    ASSUME OwnIds, OwnUsers
    PROVE  Spec => []SubscribersTold
<1>1. IInv /\ ListInv /\ ToldInv /\ [Next]_vars => (ListInv /\ ToldInv)'
  BY ListStep, ToldStep
<1>2. IInv /\ ListInv /\ ToldInv => SubscribersTold
  <2> SUFFICES ASSUME IInv, ListInv, ToldInv, NEW c \in Conn, Current(c),
                      NEW s \in subscriptions[maps[c]], Over(SessionId[s])
               PROVE  <<c, SessionId[s]>> \in told
    BY DEF SubscribersTold
  <2>1. /\ maps[c] = c /\ s \in subscriptions[c] /\ s \in Conn
        /\ pc[Reader(c)] = "serve" /\ pc[Reader(s)] \in {"off", "done"}
    BY DEF ListInv, NoTakeover, IInv, TypeOK, Current, Over
  <2>2. <<c, SessionId[s]>> \in told \/ Coming(c, s)
    BY <2>1 DEF ToldInv, WillBeTold, Serving
  <2>3. ~Coming(c, s) BY <2>1 DEF Coming, Early
  <2> QED BY <2>2, <2>3
<1> QED BY <1>1, <1>2, InitList, InitTold, Invariance, PTL DEF Spec
=============================================================================
