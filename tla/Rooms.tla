------------------------------- MODULE Rooms -------------------------------
(***************************************************************************)
(* The rooms of the channelling server: the room table of the room manager *)
(* (go/channelling/room_manager.go), the worker goroutine of every room    *)
(* (go/channelling/roomworker.go) and the connections whose handlers call  *)
(* them (go/channelling/session.go, go/channelling/api).                   *)
(*                                                                         *)
(* A connection handles its messages one after the other (ReadPump).  A    *)
(* handler is a sequence of calls to the room manager, todo[s]; each call  *)
(* is made of the steps another goroutine can come in between:             *)
(*                                                                         *)
(*    get     look the room up in the table, under the read lock           *)
(*    create  (join only) insert a new worker, under the write lock        *)
(*    send    put the call on the worker's channel                         *)
(*    await   (join, users, update) wait for the worker's answer           *)
(*                                                                         *)
(* A worker runs the jobs of its channel in order until its expiry timer   *)
(* finds the room empty; it then closes the channel and, after that, is    *)
(* taken off the table.                                                    *)
(*                                                                         *)
(* Time is abstracted: the timer may fire whenever the worker waits.  The  *)
(* deployment has no global room and no room of type Conference.           *)
(***************************************************************************)
EXTENDS Naturals, Sequences, FiniteSets

CONSTANTS Session,               \* connections, one session each
          Room,                  \* room ids, as made by MakeRoomID
          Worker,                \* the room workers that may be created: a bound
          PIN,                   \* non-empty room PINs
          NoCredentials,         \* credentials == nil
          EmptyPIN,              \* credentials with an empty PIN
          NoRoom,                \* Roomid of a session that never joined
          NoWorker,              \* no entry in the room table
          NoReply,               \* nothing on a result channel
          DisabledRooms,         \* the default room, when it is not enabled
          Account,               \* sessions of authenticated users
          AuthorizeRoomJoin,     \* joining needs an account (and users are enabled)
          AuthorizeRoomCreation, \* creating needs an account (and users are enabled)
          Rehello,               \* clients may say Hello to the room they are in
          roomMaxWorkers,        \* capacity of a worker's channel
          MaxMessages            \* messages each connection sends: a bound

ASSUME ConstantsAssumption ==
    /\ NoRoom \notin Room
    /\ NoWorker \notin Worker
    /\ NoCredentials \notin PIN /\ EmptyPIN \notin PIN
    /\ NoCredentials # EmptyPIN
    /\ Account \subseteq Session
    /\ AuthorizeRoomJoin \in BOOLEAN /\ AuthorizeRoomCreation \in BOOLEAN
    /\ Rehello \in BOOLEAN
    /\ roomMaxWorkers \in Nat \ {0}
    /\ MaxMessages \in [Session -> Nat]

Credentials == PIN \cup {NoCredentials, EmptyPIN}

\* The documents a session broadcasts to its room.  "Notify" stands for those
\* that carry no membership: Chat, Status, Room.
Broadcasts == {"Joined", "Left", "Notify"}

\* The calls that wait on a result channel.  "welcome" and "users" are GetUsers,
\* for the answer to a Hello and for the answer to a Users message.
Answered == {"join", "welcome", "users", "update"}

Op == Answered \cup Broadcasts \cup {"leave"}

Call  == [op : Op, room : Room, cred : Credentials]
Job   == [op : Op, from : Session, cred : Credentials]
Reply == [ok : BOOLEAN, users : SUBSET Session]

ASSUME ReplyAssumption == NoReply \notin Reply

VARIABLES
    roomTable,    \* room manager: the worker of every room that has one
    wstate,       \* worker: unborn, running, stopping, closed, gone
    wroom,        \* worker: its room
    users,        \* worker: the sessions in the room
    credentials,  \* worker: the PIN required to join
    workers,      \* worker: the channel of jobs
    todo,         \* session: the calls left of the message it handles
    phase,        \* session: step of the first of them
    target,       \* session: the worker that step found
    reply,        \* session: what its result channel holds
    Hello,        \* session: it has joined a room
    Roomid,       \* session: the room it joined
    disconnected, \* session: closed
    sent,         \* session: number of messages handled
    buddies,      \* client: the buddy list it shows
    inRoom        \* client: it has a current room

managerVars == <<roomTable, wstate, wroom>>
workerVars  == <<users, credentials>>
sessionVars == <<Hello, Roomid, disconnected, sent>>
clientVars  == <<buddies, inRoom>>
vars == <<roomTable, wstate, wroom, users, credentials, workers, todo, phase,
          target, reply, Hello, Roomid, disconnected, sent, buddies, inRoom>>

Init ==
    /\ roomTable    = [r \in Room |-> NoWorker]
    /\ wstate       = [w \in Worker |-> "unborn"]
    /\ wroom        = [w \in Worker |-> NoRoom]
    /\ users        = [w \in Worker |-> {}]
    /\ credentials  = [w \in Worker |-> NoCredentials]
    /\ workers      = [w \in Worker |-> <<>>]
    /\ todo         = [s \in Session |-> <<>>]
    /\ phase        = [s \in Session |-> "idle"]
    /\ target       = [s \in Session |-> NoWorker]
    /\ reply        = [s \in Session |-> NoReply]
    /\ Hello        = [s \in Session |-> FALSE]
    /\ Roomid       = [s \in Session |-> NoRoom]
    /\ disconnected = [s \in Session |-> FALSE]
    /\ sent         = [s \in Session |-> 0]
    /\ buddies      = [s \in Session |-> {}]
    /\ inRoom       = [s \in Session |-> FALSE]

-----------------------------------------------------------------------------
(* Messages of a connection. *)

NewCall(op, r, c) == [op |-> op, room |-> r, cred |-> c]
Plain(op, r)      == NewCall(op, r, NoCredentials)

\* doLeaveRoom: leave, then tell those who stay.
LeaveCalls(s) == <<Plain("leave", Roomid[s]), Plain("Left", Roomid[s])>>

\* Close: the same two calls, the broadcast first.
CloseCallsUnleft(s) == <<Plain("Left", Roomid[s])>>
CloseCalls(s)       == <<Plain("Left", Roomid[s]), Plain("leave", Roomid[s])>>

\* JoinRoom, then the user list for the Welcome.
JoinCallsTooSoon(r, c) == <<Plain("Joined", r), NewCall("join", r, c), Plain("welcome", r)>>
JoinCalls(r, c) == <<NewCall("join", r, c), Plain("Joined", r), Plain("welcome", r)>>

\* JoinRoom refuses the default room when it is not enabled, GetOrCreate a
\* session without an account where the configuration asks for one.
MayJoin(s, r) == r \notin DisabledRooms /\ (AuthorizeRoomJoin => s \in Account)
MayCreateAny(s) == TRUE
MayCreate(s)    == AuthorizeRoomCreation => s \in Account

Reads(s) == phase[s] = "idle" /\ ~disconnected[s]

\* s starts the handler whose calls are cs.
Begin(s, cs) ==
    /\ todo'  = [todo EXCEPT ![s] = cs]
    /\ phase' = [phase EXCEPT ![s] = "get"]
    /\ UNCHANGED <<managerVars, workerVars, workers, target, reply, Hello, Roomid>>

Receive(s, cs) ==
    /\ Reads(s) /\ sent[s] < MaxMessages[s]
    /\ sent' = [sent EXCEPT ![s] = @ + 1]
    /\ Begin(s, cs)
    /\ UNCHANGED <<disconnected, clientVars>>

\* JoinRoom leaves the room the session is in, unless it joins the same again.
NeverLeavesFirst(s, r) == FALSE
LeavesFirst(s, r)      == Hello[s] /\ Roomid[s] # r

HandleHello(s, r, c) ==
    /\ Rehello \/ ~(Hello[s] /\ Roomid[s] = r)
    /\ Receive(s, (IF LeavesFirst(s, r) THEN LeaveCalls(s) ELSE <<>>) \o JoinCalls(r, c))

HandleLeave(s) == Hello[s] /\ Receive(s, LeaveCalls(s))

HandleUsers(s) == Hello[s] /\ Receive(s, <<Plain("users", Roomid[s])>>)

\* UpdateRoom: the room is the one the session is in.
MayUpdateLast(s) == Roomid[s] # NoRoom
MayUpdate(s)     == Hello[s]

HandleRoom(s, c) ==
    MayUpdate(s) /\ Receive(s, <<NewCall("update", Roomid[s], c), Plain("Notify", Roomid[s])>>)

HandleChat(s) == Hello[s] /\ Receive(s, <<Plain("Notify", Roomid[s])>>)

\* Session.Close, at the end of the connection: the broadcast comes first.
Close(s) ==
    /\ Reads(s)
    /\ disconnected' = [disconnected EXCEPT ![s] = TRUE]
    /\ IF Hello[s]
         THEN Begin(s, CloseCalls(s))
         ELSE UNCHANGED <<managerVars, workerVars, workers, todo, phase, target,
                          reply, Hello, Roomid>>
    /\ buddies' = [buddies EXCEPT ![s] = {}]
    /\ inRoom'  = [inRoom EXCEPT ![s] = FALSE]
    /\ UNCHANGED sent

-----------------------------------------------------------------------------
(* The steps of a call. *)

At(s, p) == phase[s] = p /\ todo[s] # <<>>
Cur(s)   == Head(todo[s])

\* s.mutex is held for writing: JoinRoom, LeaveRoom and Close keep it during
\* their calls.  A panic unwinds the deferred Unlock of the first two.
LockedThroughout(s) == todo[s] # <<>>
Locked(s) ==
    /\ todo[s] # <<>>
    /\ Cur(s).op \in {"join", "leave", "Joined", "Left"}
    /\ phase[s] = "panicked" => disconnected[s]

\* The call is over; the handler goes on with the next one.
Advance(s) ==
    /\ todo'   = [todo EXCEPT ![s] = Tail(@)]
    /\ phase'  = [phase EXCEPT ![s] = IF Len(todo[s]) = 1 THEN "idle" ELSE "get"]
    /\ target' = [target EXCEPT ![s] = NoWorker]
    /\ reply'  = [reply EXCEPT ![s] = NoReply]

\* What the session and its client do when a call that needs no answer is over.
\* doLeaveRoom ends by clearing Hello; Close leaves it alone.
AdvanceStillHello(s) ==
    Advance(s) /\ UNCHANGED <<Hello, Roomid, disconnected, sent, clientVars>>
AdvancePlain(s) ==
    /\ Advance(s)
    /\ Hello' = [Hello EXCEPT ![s] = @ /\ (Cur(s).op # "Left" \/ disconnected[s])]
    /\ UNCHANGED <<Roomid, disconnected, sent, clientVars>>

\* JoinRoom failed: no room, and the client drops its current one.
JoinFailed(s) ==
    /\ todo'    = [todo EXCEPT ![s] = <<>>]
    /\ phase'   = [phase EXCEPT ![s] = "idle"]
    /\ target'  = [target EXCEPT ![s] = NoWorker]
    /\ reply'   = [reply EXCEPT ![s] = NoReply]
    /\ Hello'   = [Hello EXCEPT ![s] = FALSE]
    /\ buddies' = [buddies EXCEPT ![s] = IF inRoom[s] THEN {} ELSE @]
    /\ inRoom'  = [inRoom EXCEPT ![s] = FALSE]
    /\ UNCHANGED <<Roomid, disconnected, sent>>

\* A user list reaches the client.  In a Welcome it comes with the room: the
\* client leaves the room it had, which empties the list, before it adds them.
ShowUsers(s, us, welcome) ==
    /\ buddies' = [buddies EXCEPT ![s] =
                     (IF welcome /\ inRoom[s] THEN {} ELSE @) \cup (us \ {s})]
    /\ inRoom'  = [inRoom EXCEPT ![s] = @ \/ welcome]

\* The answer to the call arrives at the handler.
Answer(s, rep) ==
    \/ /\ Cur(s).op = "join" /\ rep.ok
       /\ Advance(s)
       /\ Hello'  = [Hello EXCEPT ![s] = TRUE]
       /\ Roomid' = [Roomid EXCEPT ![s] = Cur(s).room]
       /\ UNCHANGED <<disconnected, sent, clientVars>>
    \/ /\ Cur(s).op = "join" /\ ~rep.ok
       /\ JoinFailed(s)
    \/ /\ Cur(s).op \in {"welcome", "users"}
       /\ Advance(s)
       /\ ShowUsers(s, rep.users, Cur(s).op = "welcome")
       /\ UNCHANGED sessionVars
    \/ /\ Cur(s).op = "update"
       /\ Advance(s)
       /\ UNCHANGED <<sessionVars, clientVars>>

Ok == [ok |-> TRUE, users |-> {}]

\* Get: the room has a worker; the call will be put on its channel.
GetFound(s) ==
    /\ At(s, "get") /\ roomTable[Cur(s).room] # NoWorker
    /\ Cur(s).op = "join" => MayJoin(s, Cur(s).room)
    /\ target' = [target EXCEPT ![s] = roomTable[Cur(s).room]]
    /\ phase'  = [phase EXCEPT ![s] = "send"]
    /\ UNCHANGED <<managerVars, workerVars, workers, todo, reply, sessionVars, clientVars>>

\* Get: no such room.  Users are none, an update is accepted, the rest is void.
GetMissing(s) ==
    /\ At(s, "get") /\ roomTable[Cur(s).room] = NoWorker
    /\ Cur(s).op # "join"
    /\ \/ Answer(s, Ok)
       \/ Cur(s).op \notin Answered /\ AdvancePlain(s)
    /\ UNCHANGED <<managerVars, workerVars, workers>>

\* JoinRoom, GetOrCreate: refused before any lookup.
GetRefused(s) ==
    /\ At(s, "get") /\ Cur(s).op = "join" /\ ~MayJoin(s, Cur(s).room)
    /\ JoinFailed(s)
    /\ UNCHANGED <<managerVars, workerVars, workers>>

\* GetOrCreate: no such room under the read lock; take the write lock.
GetForCreate(s) ==
    /\ At(s, "get") /\ Cur(s).op = "join" /\ MayJoin(s, Cur(s).room)
    /\ roomTable[Cur(s).room] = NoWorker
    /\ phase' = [phase EXCEPT ![s] = "create"]
    /\ UNCHANGED <<managerVars, workerVars, workers, todo, target, reply, sessionVars,
                   clientVars>>

Unborn == {w \in Worker : wstate[w] = "unborn"}

\* NewRoomWorker: an empty PIN is no PIN.
RequiredAsGiven(c) == c
RequiredPIN(c) == IF c \in PIN THEN c ELSE NoCredentials

\* Who takes the write lock looks again: the room may be there by now.
NoRecheck(r) == NoWorker
Recheck(r)   == roomTable[r]

\* GetOrCreate under the write lock: look again, then create.
Create(s) ==
    /\ At(s, "create")
    /\ LET r == Cur(s).room  old == Recheck(r) IN
       \/ /\ old # NoWorker
          /\ target' = [target EXCEPT ![s] = old]
          /\ phase'  = [phase EXCEPT ![s] = "send"]
          /\ UNCHANGED <<managerVars, workerVars, todo, reply, sessionVars, clientVars>>
       \/ /\ old = NoWorker /\ ~MayCreate(s)
          /\ JoinFailed(s)
          /\ UNCHANGED <<managerVars, workerVars>>
       \/ /\ old = NoWorker /\ MayCreate(s) /\ Unborn # {}
          /\ LET w == CHOOSE v \in Worker : wstate[v] = "unborn" IN
             /\ roomTable'   = [roomTable EXCEPT ![r] = w]
             /\ wstate'      = [wstate EXCEPT ![w] = "running"]
             /\ wroom'       = [wroom EXCEPT ![w] = r]
             /\ credentials' = [credentials EXCEPT ![w] = RequiredPIN(Cur(s).cred)]
             /\ target'      = [target EXCEPT ![s] = w]
          /\ phase' = [phase EXCEPT ![s] = "send"]
          /\ UNCHANGED <<users, todo, reply, sessionVars, clientVars>>
    /\ UNCHANGED workers

Open(w) == wstate[w] \in {"running", "stopping"}

\* Run: the channel is open; when it is full the job is dropped and the caller,
\* if it waits for an answer, waits all the same.
Send(s) ==
    /\ At(s, "send") /\ Open(target[s])
    /\ LET w == target[s]
           job == [op |-> Cur(s).op, from |-> s, cred |-> Cur(s).cred]
       IN workers' = IF Len(workers[w]) < roomMaxWorkers
                       THEN [workers EXCEPT ![w] = Append(@, job)] ELSE workers
    /\ IF Cur(s).op \in Answered
         THEN /\ phase' = [phase EXCEPT ![s] = "await"]
              /\ UNCHANGED <<todo, target, reply, sessionVars, clientVars>>
         ELSE AdvancePlain(s)
    /\ UNCHANGED <<managerVars, workerVars>>

\* Run: a send on a closed channel panics, also in a select with a default.
\* net/http recovers the panic; the goroutine of the connection is over.
SendPanics(s) ==
    /\ At(s, "send") /\ ~Open(target[s])
    /\ phase' = [phase EXCEPT ![s] = "panicked"]
    /\ UNCHANGED <<managerVars, workerVars, workers, todo, target, reply, sessionVars,
                   clientVars>>

Await(s) ==
    /\ At(s, "await") /\ reply[s] # NoReply
    /\ Answer(s, reply[s])
    /\ UNCHANGED <<managerVars, workerVars, workers>>

-----------------------------------------------------------------------------
(* The worker of a room. *)

Job1(w) == Head(workers[w])

Runs(w, ops) == wstate[w] = "running" /\ workers[w] # <<>> /\ Job1(w).op \in ops

Finish(w) == workers' = [workers EXCEPT ![w] = Tail(@)]

Result(w, ok, us) ==
    reply' = [reply EXCEPT ![Job1(w).from] = [ok |-> ok, users |-> us]]

\* Credentials are refused by a room that requires none, and must match otherwise.
AcceptsNone(w, c) == c \in {NoCredentials, credentials[w]}
Accepts(w, c)     == c = credentials[w]

RunJoin(w) ==
    /\ Runs(w, {"join"})
    /\ LET ok == Accepts(w, Job1(w).cred) IN
       /\ users' = IF ok THEN [users EXCEPT ![w] = @ \cup {Job1(w).from}] ELSE users
       /\ Result(w, ok, {})
    /\ Finish(w)
    /\ UNCHANGED <<managerVars, credentials, todo, phase, target, sessionVars, clientVars>>

RunLeave(w) ==
    /\ Runs(w, {"leave"})
    /\ users' = [users EXCEPT ![w] = @ \ {Job1(w).from}]
    /\ Finish(w)
    /\ UNCHANGED <<managerVars, credentials, todo, phase, target, reply, sessionVars,
                   clientVars>>

\* Update: credentials that are present replace the PIN, an empty one removes it.
RunUpdate(w) ==
    /\ Runs(w, {"update"})
    /\ credentials' = IF Job1(w).cred = NoCredentials THEN credentials
                      ELSE [credentials EXCEPT ![w] = RequiredPIN(Job1(w).cred)]
    /\ Result(w, TRUE, {})
    /\ Finish(w)
    /\ UNCHANGED <<managerVars, users, todo, phase, target, sessionVars, clientVars>>

\* GetUsers reads the Data of every session, which takes its mutex: the worker
\* waits while one of them holds it for writing.
RunUsers(w) ==
    /\ Runs(w, {"welcome", "users"})
    /\ \A u \in users[w] : ~Locked(u)
    /\ Result(w, TRUE, users[w])
    /\ Finish(w)
    /\ UNCHANGED <<managerVars, workerVars, todo, phase, target, sessionVars, clientVars>>

\* Broadcast: to everybody in the room but the sender.
RunBroadcast(w) ==
    /\ Runs(w, Broadcasts)
    /\ LET who == Job1(w).from  to == users[w] \ {who} IN
       buddies' = [s \in Session |->
           IF s \notin to THEN buddies[s]
           ELSE CASE Job1(w).op = "Joined" -> buddies[s] \cup {who}
                  [] Job1(w).op = "Left"   -> buddies[s] \ {who}
                  [] OTHER                 -> buddies[s]]
    /\ Finish(w)
    /\ UNCHANGED <<managerVars, workerVars, todo, phase, target, reply, sessionVars, inRoom>>

ExpiresInUse(w) == TRUE
NotInUse(w)     == users[w] = {}

\* The expiry timer fires and the room is empty: the worker leaves its loop,
\* whatever its channel holds.
Expire(w) ==
    /\ wstate[w] = "running" /\ NotInUse(w)
    /\ wstate' = [wstate EXCEPT ![w] = "stopping"]
    /\ UNCHANGED <<roomTable, wroom, workerVars, workers, todo, phase, target, reply,
                   sessionVars, clientVars>>

CloseWorkers(w) ==
    /\ wstate[w] = "stopping"
    /\ wstate' = [wstate EXCEPT ![w] = "closed"]
    /\ UNCHANGED <<roomTable, wroom, workerVars, workers, todo, phase, target, reply,
                   sessionVars, clientVars>>

\* The goroutine of GetOrCreate, after Start: delete(rooms.roomTable, roomID).
Cleanup(w) ==
    /\ wstate[w] = "closed"
    /\ wstate'    = [wstate EXCEPT ![w] = "gone"]
    /\ roomTable' = [roomTable EXCEPT ![wroom[w]] = NoWorker]
    /\ UNCHANGED <<wroom, workerVars, workers, todo, phase, target, reply, sessionVars,
                   clientVars>>

-----------------------------------------------------------------------------

Message(s) ==
    \/ \E r \in Room, c \in Credentials : HandleHello(s, r, c)
    \/ HandleLeave(s)
    \/ HandleUsers(s)
    \/ \E c \in Credentials : HandleRoom(s, c)
    \/ HandleChat(s)
    \/ Close(s)

CallStep(s) ==
    \/ GetFound(s)
    \/ GetMissing(s)
    \/ GetRefused(s)
    \/ GetForCreate(s)
    \/ Create(s)
    \/ Send(s)
    \/ SendPanics(s)
    \/ Await(s)

RunJob(w) ==
    \/ RunJoin(w)
    \/ RunLeave(w)
    \/ RunUpdate(w)
    \/ RunUsers(w)
    \/ RunBroadcast(w)

WorkerStep(w) ==
    \/ RunJob(w)
    \/ Expire(w)
    \/ CloseWorkers(w)
    \/ Cleanup(w)

Next == \/ \E s \in Session : Message(s) \/ CallStep(s)
        \/ \E w \in Worker : WorkerStep(w)

Spec == Init /\ [][Next]_vars

\* Goroutines are scheduled, and the timer of a worker is armed again on every
\* turn of its loop, so it fires when the worker has nothing else to do.
Fairness == /\ \A s \in Session : WF_vars(CallStep(s))
            /\ \A w \in Worker : WF_vars(RunJob(w)) /\ WF_vars(WorkerStep(w))

FairSpec == Spec /\ Fairness

-----------------------------------------------------------------------------
(* Properties. *)

TypeOK ==
    /\ roomTable    \in [Room -> Worker \cup {NoWorker}]
    /\ wstate       \in [Worker -> {"unborn", "running", "stopping", "closed", "gone"}]
    /\ wroom        \in [Worker -> Room \cup {NoRoom}]
    /\ users        \in [Worker -> SUBSET Session]
    /\ credentials  \in [Worker -> PIN \cup {NoCredentials}]
    /\ workers      \in [Worker -> Seq(Job)]
    /\ todo         \in [Session -> Seq(Call)]
    /\ phase        \in [Session -> {"idle", "get", "create", "send", "await", "panicked"}]
    /\ target       \in [Session -> Worker \cup {NoWorker}]
    /\ reply        \in [Session -> Reply \cup {NoReply}]
    /\ Hello        \in [Session -> BOOLEAN]
    /\ Roomid       \in [Session -> Room \cup {NoRoom}]
    /\ disconnected \in [Session -> BOOLEAN]
    /\ sent         \in [Session -> Nat]
    /\ buddies      \in [Session -> SUBSET Session]
    /\ inRoom       \in [Session -> BOOLEAN]
    /\ \A s \in Session : Hello[s] => Roomid[s] \in Room

Alive(w) == wstate[w] \in {"running", "stopping", "closed"}

\* A room has at most one worker that is not done, and the table knows it: no
\* two connections end up in two rooms of the same name, and the cleanup of an
\* expired worker never takes the entry of its successor (GetOrCreate).
OneWorkerPerRoom ==
    \A w \in Worker :
        Alive(w) <=> \E r \in Room : roomTable[r] = w /\ wroom[w] = r

\* s has begun to leave: its handler is between the first step of doLeaveRoom,
\* or of Close, and the end of it.
Leaving(s) == \E i \in 1..Len(todo[s]) : todo[s][i].op = "Left"

\* A session that says it is in a room is a member of the worker the table has
\* for that room, and that worker runs: expiry never evicts a session, and what
\* the session broadcasts reaches the people it thinks it is with.
HelloIsMember ==
    \A s \in Session : Hello[s] /\ ~disconnected[s] /\ ~Leaving(s) =>
        LET w == roomTable[Roomid[s]] IN
        w # NoWorker /\ wstate[w] = "running" /\ s \in users[w]

LeaveQueued(s, w) ==
    \E i \in 1..Len(workers[w]) : workers[w][i].op = "leave" /\ workers[w][i].from = s

\* The handler s is in has to do with the room of w: it is joining it or has
\* still to leave it.
Concerns(s, w) == \E i \in 1..Len(todo[s]) :
    todo[s][i].op \in {"join", "leave"} /\ todo[s][i].room = wroom[w]

\* A member that is in no room any more: nothing on the way will remove it.
Ghost(s, w) ==
    /\ s \in users[w]
    /\ ~(Hello[s] /\ Roomid[s] = wroom[w] /\ ~disconnected[s])
    /\ ~LeaveQueued(s, w) /\ ~Concerns(s, w)

\* "Any previous room will have been left regardless of whether the response is
\* successful": no worker keeps a session that left, was refused or disconnected
\* (JoinRoom, doLeaveRoom, Close).
NoGhosts == \A w \in Worker, s \in Session : ~Ghost(s, w)

\* Only a member changes the PIN of a room: the check of UpdateRoom, made before
\* the job waits in the channel, still holds when the worker runs the job.
PINChangedByMember ==
    [][\A w \in Worker : credentials'[w] # credentials[w] /\ wstate[w] # "unborn" =>
           Job1(w).from \in users[w]]_vars

\* Not satisfied: a worker that cleans up is "not in use", no handler waits for its
\* answer (roomworker.go:112-116; a join may be queued or about to be sent).
CleanedUpNotInUse ==
    \A s \in Session : phase[s] = "await" /\ reply[s] = NoReply => wstate[target[s]] = "running"

\* Not satisfied: Run refuses a job when the channel is "full or closed"; sending on
\* a closed one panics (roomworker.go:152-160).
RunRefusesWhenClosed == \A s \in Session : phase[s] # "panicked"

\* Nobody is in a room it may not join, and without an account that asked for one
\* there is no room: the checks of JoinRoom and GetOrCreate, made before the lookup
\* and before the creation, are not got round by who comes in between.
AccessControl ==
    /\ \A w \in Worker : \A s \in users[w] :
           wroom[w] \notin DisabledRooms /\ (AuthorizeRoomJoin => s \in Account)
    /\ AuthorizeRoomCreation /\ (\A s \in Account : sent[s] = 0) =>
           \A r \in Room : roomTable[r] = NoWorker

\* Everything that was broadcast has been delivered, and every handler is over.
Quiet == /\ \A s \in Session : phase[s] = "idle"
         /\ \A w \in Worker : wstate[w] = "running" => workers[w] = <<>>

\* The buddy list of a client shows everybody in its room.
ShowsEverybody(s) == users[roomTable[Roomid[s]]] \ {s} \subseteq buddies[s]

\* In the first room of a connection it does in the end: the Welcome "contains all
\* data needed to set up the initial room connection", and Joined the rest.
BuddiesComplete ==
    Quiet => \A s \in Session : Hello[s] /\ ~disconnected[s] /\ sent[s] = 1 => ShowsEverybody(s)

\* Not satisfied: in a later room the Joined of somebody may overtake the Welcome,
\* whose arrival empties the list.
BuddiesAlwaysComplete ==
    Quiet => \A s \in Session : Hello[s] /\ ~disconnected[s] => ShowsEverybody(s)

\* A session joins a room whose worker has not run its leave yet: JoinRoom holds
\* the session's mutex, which a GetUsers queued before that leave waits for.
Rejoining == \E s \in Session :
    /\ phase[s] = "await" /\ Head(todo[s]).op = "join" /\ reply[s] = NoReply
    /\ s \in users[target[s]]

\* A handler that waits gets its answer, unless its worker has expired: "a Welcome
\* document will be returned if joining the room [...] succeeds.  Otherwise an
\* Error document" (Run, Join, GetUsers, Update).
AlwaysAnswers == \A s \in Session :
    phase[s] = "await" ~> (phase[s] # "await" \/ wstate[target[s]] # "running")

\* The same as long as nobody comes back to a room it has hardly left.
Answers == <>Rejoining \/ AlwaysAnswers

\* When every connection is closed the rooms go away: nothing keeps a worker.
RoomsReclaimed ==
    (\A s \in Session : disconnected[s] /\ phase[s] = "idle") ~>
        (\A r \in Room : roomTable[r] = NoWorker)

-----------------------------------------------------------------------------
(* The inductive invariant behind OneWorkerPerRoom and HelloIsMember. *)

\* Table and workers agree, and only a running worker has members.
TableInv ==
    /\ \A r \in Room : roomTable[r] # NoWorker =>
           Alive(roomTable[r]) /\ wroom[roomTable[r]] = r
    /\ \A w \in Worker : Alive(w) => wroom[w] \in Room /\ roomTable[wroom[w]] = w
    /\ \A w \in Worker : wstate[w] # "running" => users[w] = {}
    /\ \A w \in Worker : wstate[w] = "unborn" => workers[w] = <<>>

\* The step a handler is at fits the call, and the worker found is of its room.
CallOK(s) ==
    /\ phase[s] = "idle" <=> todo[s] = <<>>
    /\ phase[s] \in {"send", "await"} =>
           target[s] \in Worker /\ wstate[target[s]] # "unborn" /\ wroom[target[s]] = Cur(s).room
    /\ phase[s] = "create" => Cur(s).op = "join"
    /\ phase[s] = "await" => Cur(s).op \in Answered
    /\ phase[s] # "await" => reply[s] = NoReply

\* A leave is followed by the Left of doLeaveRoom, except in Close; who updates a
\* room is in it.
TodoOK(s) == \A i \in 1..Len(todo[s]) :
    /\ todo[s][i].op = "leave" =>
           disconnected[s] \/ (i + 1 \in 1..Len(todo[s]) /\ todo[s][i + 1].op = "Left")
    /\ todo[s][i].op = "update" =>
           /\ i = 1 /\ Len(todo[s]) = 2 /\ todo[s][2].op = "Notify"
           /\ Hello[s] /\ ~disconnected[s] /\ todo[s][1].room = Roomid[s]

\* A job that is to be answered is the last its session sent, and the session
\* waits for it.
QueueOK(w, i) ==
    LET s == workers[w][i].from IN
    workers[w][i].op \in Answered =>
        /\ phase[s] = "await" /\ target[s] = w /\ reply[s] = NoReply
        /\ Cur(s).op = workers[w][i].op /\ Cur(s).cred = workers[w][i].cred
        /\ \A k \in 1..Len(workers[w]) : k > i => workers[w][k].from # s

\* s is a member for good: the channel holds nothing that removes it.
Member(s, w) == wstate[w] = "running" /\ s \in users[w] /\ ~LeaveQueued(s, w)

ReplyOK(s) ==
    phase[s] = "await" /\ Cur(s).op = "join" /\ reply[s] # NoReply /\ reply[s].ok =>
        Member(s, target[s])

HelloOK(s) == Hello[s] /\ ~disconnected[s] /\ ~Leaving(s) =>
    /\ Roomid[s] \in Room /\ roomTable[Roomid[s]] \in Worker
    /\ Member(s, roomTable[Roomid[s]])

CallInv  == \A s \in Session : CallOK(s)
TodoInv  == \A s \in Session : TodoOK(s)
QueueInv == \A w \in Worker : \A i \in 1..Len(workers[w]) : QueueOK(w, i)
ReplyInv == \A s \in Session : ReplyOK(s)
HelloInv == \A s \in Session : HelloOK(s)

IInv == TypeOK /\ TableInv /\ CallInv /\ TodoInv /\ QueueInv /\ ReplyInv /\ HelloInv

-----------------------------------------------------------------------------
(* The rooms implement the directory of RoomDirectory. *)

OpenRooms == {r \in Room : roomTable[r] # NoWorker /\ wstate[roomTable[r]] = "running"}

\* The call s has got to is a request to the directory.
Asks(s) == todo[s] # <<>> /\ Cur(s).op \in {"join", "update"}

Directory == INSTANCE RoomDirectory WITH
    NoPIN   <- NoCredentials,
    open    <- OpenRooms,
    members <- [r \in Room |-> IF r \in OpenRooms THEN users[roomTable[r]] ELSE {}],
    pin     <- [r \in Room |-> IF r \in OpenRooms THEN credentials[roomTable[r]]
                               ELSE NoCredentials],
    asking  <- [s \in Session |-> IF Asks(s) THEN {Cur(s)} ELSE {}]

\* The members and the PIN of a room change as the directory says: nobody gets in
\* without having given the PIN of the moment, only a member changes it and to
\* what he asked for, a room opens with the PIN of who asked for it and is given up
\* only when it is empty (Join, Update, Start, GetOrCreate).
ImplementsDirectory == Directory!Spec

=============================================================================
