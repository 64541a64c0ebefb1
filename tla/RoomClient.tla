----------------------------- MODULE RoomClient -----------------------------
(***************************************************************************)
(* The browser client as far as its rooms go: the connector and its socket *)
(* (static/js/mediastream/connector.js), the heartbeat and the documents   *)
(* of the API (mediastream/api.js), the user interface's reconnect         *)
(* (controllers/uicontroller.js, services/mediastream.js) and the rooms    *)
(* service (services/rooms.js, services/roompin.js), against the part of   *)
(* the server that answers it.                                             *)
(*                                                                         *)
(* The client is one thread: every action of it is one task of the event   *)
(* loop.  "tasks" are the functions it deferred, in order; the timers and  *)
(* the events of the socket come in between as they like.  The events of a *)
(* socket that is not this.conn are ignored by the code, so only the       *)
(* current socket is kept.                                                 *)
(*                                                                         *)
(* Time is abstracted: an armed timer may fire at any time.  No user logs  *)
(* in (appData.authorizing() is false) and the settings name no default    *)
(* room.                                                                   *)
(***************************************************************************)
EXTENDS Naturals, Sequences

CONSTANTS Room,          \* room names
          DefaultRoom,   \* the room named ""
          NoRoom,        \* null
          PIN,           \* PINs a room may be locked with, or a user may type
          NoPIN,         \* no credentials
          Defers,        \* what connecting waits for: the deferreds of continueConnector
          DisabledRooms, \* the default room, when it is not enabled
          Creates,       \* clients may create rooms
          MaxNavs,       \* changes of the location by the user: a bound
          MaxFaults,     \* troubles of the network: a bound
          MaxOthers,     \* what the other clients do to the rooms: a bound
          MaxChats       \* application messages: a bound

ASSUME RoomClientAssumption ==
    /\ DefaultRoom \in Room /\ NoRoom \notin Room
    /\ NoPIN \notin PIN
    /\ DisabledRooms \subseteq {DefaultRoom}
    /\ Creates \in BOOLEAN
    /\ {MaxNavs, MaxFaults, MaxOthers, MaxChats} \subseteq Nat

VARIABLES
    conn,          \* Connector.conn: none, connecting, open, closing
    connected,     \* Connector.connected
    connecting,    \* Connector.connecting: the connection timer is armed
    url,           \* Connector.url is set
    retries,       \* number of pending timers of Connector.reconnect
    queue,         \* Connector.queue
    last_receive,  \* Api: null, heard, overdue
    waiting,       \* continueConnector: the deferreds not resolved yet
    marked,        \* mediaStream: the call waiting for continueConnector
    everConnected, \* appData.flags.connected
    reconnecting,  \* appData.flags.reconnecting: the delay is running
    requested,     \* rooms: requestedRoomName
    prior,         \* rooms: priorRoomName
    helloed,       \* rooms: helloedRoomName
    current,       \* rooms: the name of currentRoom
    pinCache,      \* roompin
    prompts,       \* roompin: the rooms whose PIN the user is asked for
    refused,       \* history: the last Hello was refused for good (disabled, account),
                   \* or its repetition was taken for the one just sent (swallowed)
    tasks,         \* deferred functions, in order
    dead,          \* the network swallows everything
    up,            \* documents on the way to the server
    down,          \* documents on the way to the client
    member,        \* server: the room the session of this socket is in
    left,          \* server: rooms whose worker has not taken it off yet
    exists,        \* server: the rooms
    lock,          \* server: the PIN of each room
    navs, faults, others, chats, \* used up of the bounds
    got,           \* history: application messages the server got
    typed,         \* history: the PINs typed for each room
    late,          \* history: current was set by a Room of another room
    silent         \* history: the socket changed, and nobody was told

connVars  == <<conn, connected, connecting, url, retries>>
wireVars  == <<dead, up, down>>
roomVars  == <<member, left, exists, lock>>
uiVars    == <<waiting, marked, everConnected, reconnecting>>
pinVars   == <<pinCache, prompts, typed>>
showVars  == <<current, prior, late, silent>>
bounds    == <<navs, faults, others, chats>>
vars == <<conn, connected, connecting, url, retries, queue, last_receive,
          waiting, marked, everConnected, reconnecting, requested, prior,
          helloed, current, pinCache, prompts, refused, tasks, dead, up, down,
          member, left, exists, lock, navs, faults, others, chats, got, typed,
          late, silent>>

Hello(r, p) == [type |-> "Hello", room |-> r, pin |-> p]
App(n)      == [type |-> "App", n |-> n]
Alive       == [type |-> "Alive"]
Self        == [type |-> "Self"]
Welcome(r)  == [type |-> "Welcome", room |-> r]
RoomDoc(r)  == [type |-> "Room", room |-> r]
Error(c)    == [type |-> "Error", code |-> c]

Codes == {"default_room_disabled", "invalid_credentials", "authorization_required",
          "authorization_not_required", "room_join_requires_account"}

Join     == [do |-> "join", room |-> NoRoom]
Clear(r) == [do |-> "clear", room |-> r]
Go(r)    == [do |-> "go", room |-> r]

Init ==
    /\ conn = "none" /\ connected = FALSE /\ connecting = FALSE
    /\ url = FALSE /\ retries = 0 /\ queue = <<>>
    /\ last_receive = "null"
    /\ waiting = Defers /\ marked = "connect"
    /\ everConnected = FALSE /\ reconnecting = FALSE
    /\ requested \in Room
    /\ prior = NoRoom /\ helloed = NoRoom /\ current = NoRoom
    /\ pinCache = [r \in Room |-> NoPIN]
    /\ prompts = {} /\ refused = "no" /\ tasks = <<>>
    /\ dead = FALSE /\ up = <<>> /\ down = <<>>
    /\ member = NoRoom /\ left = {} /\ exists = {}
    /\ lock = [r \in Room |-> NoPIN]
    /\ navs = 0 /\ faults = 0 /\ others = 0 /\ chats = 0
    /\ got = <<>> /\ typed = [r \in Room |-> {}]
    /\ late = FALSE /\ silent = FALSE

-----------------------------------------------------------------------------
(* The rooms service: what it does when it is called. *)

\* setCurrentRoom
SetCurrentRoom(r) ==
    /\ current' = r
    /\ prior'   = IF current = NoRoom THEN prior ELSE current
    /\ late' = FALSE /\ silent' = FALSE

\* Connector.send without queueing.  A socket that is still connecting throws,
\* one that is closing drops the document.
Send(m) == up' = IF conn = "open" /\ ~dead THEN Append(up, m) ELSE up

\* joinRequestedRoom, when the room shown becomes cur, the PINs are pins and the
\* other deferred functions are ts.
Joins(cur) == /\ connected
              /\ cur = NoRoom \/ requested # cur
              /\ helloed # requested
JoinRequestedRoom(cur, pins, ts) ==
    \/ /\ Joins(cur)
       /\ helloed' = requested
       /\ tasks'   = Append(ts, Clear(requested))
       /\ Send(Hello(requested, pins[requested]))
       /\ refused' = "no"
    \/ /\ ~Joins(cur)
       /\ tasks' = ts
       /\ UNCHANGED <<helloed, up, refused>>

\* joinPriorOrDefault: the location only changes if it is another one.
PriorOrDefault(p) == IF p = NoRoom \/ requested = p THEN DefaultRoom ELSE p
ThenGo(ts, r)     == IF r = requested THEN ts ELSE Append(ts, Go(r))

-----------------------------------------------------------------------------
(* The connector. *)

\* connect: a new socket takes the place of this.conn, whatever that is.
Connect ==
    IF connecting THEN UNCHANGED <<conn, connected, connecting, url, wireVars, member, left, silent>>
    ELSE /\ conn' = "connecting" /\ connecting' = TRUE /\ url' = TRUE
         /\ dead' = FALSE /\ up' = <<>> /\ down' = <<>>
         /\ member' = NoRoom /\ left' = {}
         /\ silent' = (silent \/ (conn # "none" /\ current # NoRoom))
         /\ UNCHANGED connected

\* close
CloseSocket ==
    /\ conn' = "none" /\ connected' = FALSE /\ connecting' = FALSE
    /\ dead' = FALSE /\ up' = <<>> /\ down' = <<>>
    /\ member' = NoRoom /\ left' = {}

\* reconnect: nothing without a url, which a pending reconnect has taken away.
Reconnect ==
    IF url THEN CloseSocket /\ url' = FALSE /\ retries' = retries + 1
    ELSE UNCHANGED <<connVars, wireVars, member, left>>

\* The handlers of "error" and "close": the rooms service leaves the room, the
\* user interface reconnects after a delay if it was connected before.
LostNoReconnect == /\ SetCurrentRoom(NoRoom)
                   /\ UNCHANGED reconnecting
Lost == /\ SetCurrentRoom(NoRoom)
        /\ reconnecting' = (reconnecting \/ everConnected)

Fault == faults < MaxFaults /\ faults' = faults + 1

\* The socket opens: Self is the first the server sends.  The "open" handlers
\* run, then the queue is flushed.
Flush == queue
OnOpen ==
    /\ conn = "connecting"
    /\ conn' = "open" /\ connected' = TRUE /\ connecting' = FALSE
    /\ everConnected' = TRUE
    /\ up' = Flush /\ queue' = <<>>
    /\ down' = <<Self>>
    /\ UNCHANGED <<url, retries, last_receive, waiting, marked, reconnecting, requested,
                   helloed, refused, tasks, dead, roomVars, pinVars, showVars, bounds, got>>

\* The socket fails: onerror.
OnError ==
    /\ conn # "none"
    /\ Fault /\ CloseSocket /\ Lost
    /\ UNCHANGED <<url, retries, queue, last_receive, waiting, marked, everConnected,
                   requested, helloed, refused, tasks, exists, lock, pinVars, navs,
                   others, chats, got>>

\* The socket closes, by the other side or after close(): onclose.
OnClose ==
    /\ \/ conn \in {"open", "connecting"} /\ Fault
       \/ conn = "closing" /\ UNCHANGED faults
    /\ CloseSocket /\ Lost
    /\ UNCHANGED <<url, retries, queue, last_receive, waiting, marked, everConnected,
                   requested, helloed, refused, tasks, exists, lock, pinVars, navs,
                   others, chats, got>>

\* The connection timer: the "error" handlers, then reconnect.
ConnectTimeout ==
    /\ conn = "connecting" /\ connecting
    /\ Fault /\ Lost /\ Reconnect
    /\ UNCHANGED <<queue, last_receive, waiting, marked, everConnected, requested,
                   helloed, refused, tasks, exists, lock, pinVars, navs, others, chats, got>>

\* The timer of reconnect.
RetryTimer ==
    /\ retries > 0
    /\ retries' = retries - 1
    /\ Connect
    /\ UNCHANGED <<queue, last_receive, uiVars, requested, prior, helloed, current, late,
                   refused, tasks, exists, lock, pinVars, bounds, got>>

\* forgetAndReconnect, when the user drops the account: close() only, the rest is
\* up to onclose.
ForgetAndReconnect ==
    /\ conn = "open" /\ connected
    /\ Fault
    /\ conn' = "closing" /\ up' = <<>> /\ down' = <<>>
    /\ UNCHANGED <<connected, connecting, url, retries, queue, last_receive, uiVars,
                   requested, helloed, refused, tasks, dead, roomVars, pinVars, showVars,
                   navs, others, chats, got>>

\* The network goes silent under an open socket.
Silence ==
    /\ conn = "open" /\ ~dead
    /\ Fault
    /\ dead' = TRUE /\ up' = <<>> /\ down' = <<>>
    /\ UNCHANGED <<connVars, queue, last_receive, uiVars, requested, helloed, refused,
                   tasks, roomVars, pinVars, showVars, navs, others, chats, got>>

\* An application document: sent, or queued while not connected.
Chat ==
    /\ chats < MaxChats /\ chats' = chats + 1
    /\ IF connected THEN Send(App(chats')) /\ UNCHANGED queue
       ELSE queue' = Append(queue, App(chats')) /\ UNCHANGED up
    /\ UNCHANGED <<connVars, last_receive, uiVars, requested, helloed, refused, tasks,
                   dead, down, roomVars, pinVars, showVars, navs, faults, others, got>>

-----------------------------------------------------------------------------
(* The heartbeat. *)

\* Five seconds without a document: ask for one.  A document that is on the way takes
\* less than that.
Overdue ==
    /\ connected /\ last_receive = "heard"
    /\ dead \/ (up = <<>> /\ down = <<>>)
    /\ last_receive' = "overdue"
    /\ Send(Alive)
    /\ UNCHANGED <<connVars, queue, uiVars, requested, helloed, refused, tasks, dead, down,
                   roomVars, pinVars, showVars, bounds, got>>

\* Still nothing: disconnect(true).  An answer that is only slow is a fault.
GiveUp ==
    /\ connected /\ last_receive = "overdue"
    /\ last_receive' = "null"
    /\ IF dead THEN UNCHANGED faults ELSE Fault
    /\ CloseSocket /\ Lost
    /\ UNCHANGED <<url, retries, queue, waiting, marked, everConnected, requested, helloed,
                   refused, tasks, exists, lock, pinVars, navs, others, chats, got>>

Idle ==
    /\ ~connected /\ last_receive # "null"
    /\ last_receive' = "null"
    /\ UNCHANGED <<connVars, queue, uiVars, requested, helloed, refused, tasks, wireVars,
                   roomVars, pinVars, showVars, bounds, got>>

-----------------------------------------------------------------------------
(* Waiting to connect, and the reconnect of the user interface. *)

\* A deferred of continueConnector is resolved: initialized, or media checked.
Resolve ==
    /\ \E d \in waiting : waiting' = waiting \ {d}
    /\ UNCHANGED <<connVars, queue, last_receive, marked, everConnected, reconnecting,
                   requested, helloed, refused, tasks, wireVars, roomVars, pinVars,
                   showVars, bounds, got>>

\* continueConnector runs the last call of mediaStream.connect or reconnect.
RunMarked ==
    /\ marked # "none" /\ waiting = {}
    /\ marked' = "none"
    /\ \/ marked = "connect" /\ Connect /\ UNCHANGED retries
       \/ /\ marked = "reconnect" /\ Reconnect
          /\ silent' = (silent \/ (url /\ current # NoRoom))
    /\ UNCHANGED <<queue, last_receive, waiting, everConnected, reconnecting, requested,
                   prior, helloed, current, late, refused, tasks, exists, lock, pinVars,
                   bounds, got>>

\* The delay of the user interface is over.
DelayOver ==
    /\ reconnecting /\ reconnecting' = FALSE
    /\ marked' = "reconnect"
    /\ UNCHANGED <<connVars, queue, last_receive, waiting, everConnected, requested, helloed,
                   refused, tasks, wireVars, roomVars, pinVars, showVars, bounds, got>>

\* The user asks to reconnect; the button is there when the first connection failed.
UserReconnect ==
    /\ ~everConnected /\ faults > 0
    /\ Reconnect
    /\ UNCHANGED <<queue, last_receive, uiVars, requested, helloed, refused, tasks, exists,
                   lock, pinVars, showVars, bounds, got>>

-----------------------------------------------------------------------------
(* Rooms: the location, the deferred functions, the PIN dialog. *)

\* $locationChangeSuccess
LocationChange(r, ts) ==
    /\ requested' = r
    /\ IF connected THEN tasks' = Append(ts, Join) /\ UNCHANGED marked
       ELSE tasks' = ts /\ marked' = "connect"

Navigate ==
    /\ navs < MaxNavs /\ navs' = navs + 1
    /\ \E r \in Room \ {requested} : LocationChange(r, tasks)
    /\ UNCHANGED <<connVars, queue, last_receive, waiting, everConnected, reconnecting,
                   helloed, refused, wireVars, roomVars, pinVars, showVars, faults, others,
                   chats, got>>

\* The deferred functions run in order.
ClearNever(r)   == UNCHANGED helloed
ClearHelloed(r) == helloed' = IF helloed = r THEN NoRoom ELSE helloed
RunTask ==
    /\ tasks # <<>>
    /\ LET t == Head(tasks) IN
       \/ /\ t.do = "join"
          /\ JoinRequestedRoom(current, pinCache, Tail(tasks))
          /\ UNCHANGED <<requested, marked>>
       \/ /\ t.do = "clear"
          /\ ClearHelloed(t.room)
          /\ tasks' = Tail(tasks)
          /\ UNCHANGED <<requested, marked, refused, up>>
       \/ /\ t.do = "go" /\ t.room # requested
          /\ LocationChange(t.room, Tail(tasks))
          /\ UNCHANGED <<helloed, refused, up>>
       \/ /\ t.do = "go" /\ t.room = requested
          /\ tasks' = Tail(tasks)
          /\ UNCHANGED <<requested, marked, helloed, refused, up>>
    /\ UNCHANGED <<connVars, queue, last_receive, waiting, everConnected, reconnecting, dead,
                   down, roomVars, pinVars, showVars, bounds, got>>

\* The user answers the dialog: the PIN belongs to the room it asked for.
StoreForRequested(r, p) == pinCache' = [pinCache EXCEPT ![requested] = p]
Store(r, p) == pinCache' = [pinCache EXCEPT ![r] = p]
EnterPIN ==
    /\ \E r \in prompts, p \in PIN :
          /\ prompts' = prompts \ {r}
          /\ Store(r, p)
          /\ typed' = [typed EXCEPT ![r] = @ \cup {p}]
    /\ tasks' = Append(tasks, Join)
    /\ UNCHANGED <<connVars, queue, last_receive, uiVars, requested, helloed, refused,
                   wireVars, roomVars, showVars, bounds, got>>

CancelPIN ==
    /\ \E r \in prompts : prompts' = prompts \ {r}
    /\ tasks' = ThenGo(tasks, PriorOrDefault(prior))
    /\ UNCHANGED <<connVars, queue, last_receive, uiVars, requested, helloed, refused,
                   wireVars, roomVars, pinCache, typed, showVars, bounds, got>>

-----------------------------------------------------------------------------
(* Documents of the server. *)

ReceiveSelf == /\ Head(down) = Self
               /\ tasks' = Append(tasks, Join)
               /\ UNCHANGED <<helloed, up, refused, pinCache, prompts, showVars>>

\* The answer to a Hello: setCurrentRoom, and applyRoomUpdate with the same room.
ReceiveWelcome == /\ Head(down).type = "Welcome"
                  /\ SetCurrentRoom(Head(down).room)
                  /\ UNCHANGED <<helloed, up, refused, tasks, pinCache, prompts>>

\* joinFailed.  The error does not say which room it is about.
NoLongerIn == UNCHANGED showVars
LeaveOnError == SetCurrentRoom(NoRoom)
PinsAfter(c) == IF c \in {"invalid_credentials", "authorization_not_required"}
                THEN [pinCache EXCEPT ![requested] = NoPIN]
                ELSE pinCache
ReceiveError ==
    /\ Head(down).type = "Error"
    /\ LET c == Head(down).code
           was == IF current = NoRoom THEN prior ELSE current
       IN /\ pinCache' = PinsAfter(c)
          /\ IF c = "default_room_disabled"
             THEN current' = NoRoom /\ prior' = NoRoom /\ late' = FALSE /\ silent' = FALSE
             ELSE LeaveOnError
          /\ \/ /\ c = "default_room_disabled"
                /\ refused' = "disabled"
                /\ UNCHANGED <<helloed, up, tasks, prompts>>
             \/ /\ c \in {"invalid_credentials", "authorization_required"}
                /\ prompts' = prompts \cup {requested}
                /\ UNCHANGED <<helloed, up, tasks, refused>>
             \/ /\ c = "authorization_not_required" /\ Joins(NoRoom)
                /\ JoinRequestedRoom(NoRoom, PinsAfter(c), tasks)
                /\ UNCHANGED prompts
             \/ /\ c = "authorization_not_required" /\ ~Joins(NoRoom)
                /\ refused' = "swallowed"
                /\ UNCHANGED <<helloed, up, tasks, prompts>>
             \/ /\ c = "room_join_requires_account"
                /\ refused' = "account"
                /\ tasks' = ThenGo(tasks, PriorOrDefault(was))
                /\ UNCHANGED <<helloed, up, prompts>>

\* applyRoomUpdate
ReceiveRoom == /\ Head(down).type = "Room"
               /\ current' = Head(down).room
               /\ late' = (late \/ current # current')
               /\ UNCHANGED <<helloed, up, refused, tasks, pinCache, prompts, prior, silent>>

ReceiveAlive == /\ Head(down) = Alive
                /\ UNCHANGED <<helloed, up, refused, tasks, pinCache, prompts, showVars>>

\* Connector.onmessage and Api.received
Receive ==
    /\ conn = "open" /\ down # <<>>
    /\ down' = Tail(down)
    /\ last_receive' = "heard"
    /\ ReceiveSelf \/ ReceiveWelcome \/ ReceiveError \/ ReceiveRoom \/ ReceiveAlive
    /\ UNCHANGED <<connVars, queue, uiVars, requested, dead, roomVars, typed, bounds, got>>

-----------------------------------------------------------------------------
(* The server. *)

\* JoinRoom: what it answers.
Answer(r, p) ==
    IF r \in DisabledRooms THEN Error("default_room_disabled")
    ELSE IF r \notin exists
         THEN IF Creates THEN Welcome(r) ELSE Error("room_join_requires_account")
    ELSE IF lock[r] = NoPIN
         THEN IF p = NoPIN THEN Welcome(r) ELSE Error("authorization_not_required")
    ELSE IF p = NoPIN THEN Error("authorization_required")
    ELSE IF p = lock[r] THEN Welcome(r) ELSE Error("invalid_credentials")

\* HandleHello: the previous room is left whatever the answer is.
HandleHello(r, p) ==
    /\ down'   = Append(down, Answer(r, p))
    /\ member' = IF Answer(r, p) = Welcome(r) THEN r ELSE NoRoom
    /\ left'   = IF member \in {NoRoom, r} THEN left \ {r} ELSE (left \cup {member}) \ {r}
    /\ IF Answer(r, p) = Welcome(r) /\ r \notin exists
       THEN exists' = exists \cup {r} /\ lock' = [lock EXCEPT ![r] = p]
       ELSE UNCHANGED <<exists, lock>>

Serve ==
    /\ conn = "open" /\ up # <<>>
    /\ up' = Tail(up)
    /\ LET m == Head(up) IN
       \/ m.type = "Hello" /\ HandleHello(m.room, m.pin) /\ UNCHANGED got
       \/ m.type = "Alive" /\ down' = Append(down, m) /\ UNCHANGED <<roomVars, got>>
       \/ m.type = "App" /\ got' = Append(got, m.n) /\ UNCHANGED <<down, roomVars>>
    /\ UNCHANGED <<connVars, queue, last_receive, uiVars, requested, helloed, refused, tasks,
                   dead, pinVars, showVars, bounds>>

\* The other clients create rooms, lock and unlock them, and leave them for good.  A
\* Room goes to the members; the worker of a room just left may still send one.
Other == others < MaxOthers /\ others' = others + 1
OthersCreate ==
    /\ Other
    /\ \E r \in Room \ (exists \cup DisabledRooms), p \in PIN \cup {NoPIN} :
          exists' = exists \cup {r} /\ lock' = [lock EXCEPT ![r] = p]
    /\ UNCHANGED <<member, left, down>>
OthersUpdate ==
    /\ Other
    /\ \E r \in exists, p \in PIN \cup {NoPIN} :
          /\ lock' = [lock EXCEPT ![r] = p]
          /\ down' = IF conn = "open" /\ ~dead /\ (r = member \/ r \in left)
                     THEN Append(down, RoomDoc(r)) ELSE down
    /\ UNCHANGED <<member, left, exists>>
Expire ==
    /\ Other
    /\ \E r \in exists \ {member} :
          exists' = exists \ {r} /\ lock' = [lock EXCEPT ![r] = NoPIN] /\ left' = left \ {r}
    /\ UNCHANGED <<member, down>>
Others ==
    /\ OthersCreate \/ OthersUpdate \/ Expire
    /\ UNCHANGED <<connVars, queue, last_receive, uiVars, requested, helloed, refused, tasks,
                   dead, up, pinVars, showVars, navs, faults, chats, got>>

-----------------------------------------------------------------------------
Next == \/ OnOpen \/ OnError \/ OnClose \/ ConnectTimeout \/ RetryTimer
        \/ ForgetAndReconnect \/ Silence \/ Chat
        \/ Overdue \/ GiveUp \/ Idle
        \/ Resolve \/ RunMarked \/ DelayOver \/ UserReconnect
        \/ Navigate \/ RunTask \/ EnterPIN \/ CancelPIN
        \/ Receive \/ Serve \/ Others

\* The event loop runs what is deferred and armed, an open socket delivers, the
\* server answers and accepts connections.  Users and the network may do nothing.
Fairness ==
    /\ WF_vars(OnOpen) /\ WF_vars(OnClose /\ conn = "closing")
    /\ WF_vars(RetryTimer) /\ WF_vars(DelayOver)
    /\ WF_vars(RunMarked) /\ WF_vars(Resolve) /\ WF_vars(RunTask)
    /\ WF_vars(Overdue) /\ WF_vars(GiveUp)
    /\ WF_vars(Receive) /\ WF_vars(Serve)

Spec == Init /\ [][Next]_vars
FairSpec == Spec /\ Fairness

-----------------------------------------------------------------------------
(* Properties. *)

\* Types, and the shape of the connector: a timer is armed only while its socket
\* connects, and without a socket nothing is connected.
TypeOK ==
    /\ conn \in {"none", "connecting", "open", "closing"}
    /\ connected \in BOOLEAN /\ connecting \in BOOLEAN /\ url \in BOOLEAN
    /\ retries \in Nat
    /\ connecting => conn = "connecting"
    /\ connected => conn # "none"
    /\ conn = "open" => connected
    /\ last_receive \in {"null", "heard", "overdue"}
    /\ waiting \subseteq Defers /\ marked \in {"none", "connect", "reconnect"}
    /\ requested \in Room
    /\ {prior, helloed, current, member} \subseteq Room \cup {NoRoom}
    /\ pinCache \in [Room -> PIN \cup {NoPIN}] /\ lock \in [Room -> PIN \cup {NoPIN}]
    /\ prompts \subseteq Room /\ exists \subseteq Room /\ left \subseteq Room
    /\ refused \in {"no", "disabled", "account", "swallowed"}
    /\ member # NoRoom => member \in exists

\* When all documents are delivered, the client shows the room the server has it
\* in, and no room when it is in none.  There are two ways it may not: a Room of a
\* room just left came after the Welcome (applyRoomUpdate takes any), or the socket
\* was replaced without a "close" or "error" (connect and reconnect of a connector
\* that is connected).
ShowsItsRoom ==
    (conn = "open" /\ ~dead /\ up = <<>> /\ down = <<>> /\ ~late /\ ~silent)
        => current = member

\* A PIN typed for one room is never presented to another one (roompin.js keeps
\* them by room, and the dialog outlives the room it asked for).
PINStaysWithRoom ==
    \A i \in 1..Len(up) :
        (up[i].type = "Hello" /\ up[i].pin # NoPIN) => up[i].pin \in typed[up[i].room]

\* The documents queued while disconnected reach the server once, and in the order
\* they were sent, through all reconnects (Connector.send, onopen).
InOrderOnce == \A i \in 1..Len(got), j \in 1..Len(got) : i < j => got[i] < got[j]

\* A connection the client has heard something on and that goes silent is given up
\* (Api.heartbeat).
SilenceNoticed == (dead /\ last_receive # "null") ~> ~dead

\* A client that was connected gets a new socket whenever it loses the one it has:
\* a reconnect is never lost between connector, continueConnector and user interface.
Reconnects == (everConnected /\ conn = "none") ~> (conn # "none")

\* A client that gets its Self while it is in no room comes to be, on both sides, in
\* the room of its location, or it asks the user for the PIN, or it tells that the
\* room is refused; unless the connection is lost or the user goes elsewhere.
Settled   == current = requested /\ member = requested
AwaitsUser == requested \in prompts \/ refused # "no"
Fresh(n) == /\ conn = "open" /\ ~dead /\ down # <<>> /\ navs = n
            /\ Head(down) = Self /\ current = NoRoom
JoinsRequested ==
    \A n \in 0..MaxNavs :
        Fresh(n) ~> (Settled \/ AwaitsUser \/ conn # "open" \/ dead \/ navs > n)

\* Not satisfied: a Hello refused because its room takes no credentials is repeated without
\* them; joinRequestedRoom takes the room for helloed already (rooms.js:87)
\* (doc/CHANNELING-API.txt:194).
RetriedWithoutCredentials == refused # "swallowed"

\* Not satisfied, when a delayed reconnect replaces a connection that is up again
\* (connector.js:106). doc/CHANNELING-API.txt:179: "Hello document is to be send by the client after
\* connection was established."
HelloAfterConnect ==
    (conn = "open" /\ ~dead /\ down # <<>> /\ Head(down) = Self)
        ~> (member # NoRoom \/ prompts # {} \/ refused # "no" \/ conn # "open" \/ dead)
=============================================================================
