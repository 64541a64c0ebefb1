# A TLA+ model of Spreed WebRTC

Spreed WebRTC is a conferencing server with a browser client. The server (Go,
`src/go/channelling`) is a *channelling* server: it keeps sessions, rooms and
users, and relays the documents by which the clients set up calls among
themselves; the media never passes through it. The client (JavaScript,
`src/static/js`) keeps the room it is in, the buddy list, the calls and the
transfers of files.

This directory holds TLA+ modules that model parts of it, the TLC runs that
check them, and TLAPS proofs. `PROJECT.json` maps every definition to the source
lines it stands for. Section 1 is the inventory, section 2 the modules and what is
left, sections 3 to 10 one component each, section 11 what the code does not
satisfy, section 12 what is not modelled.

## 1. Inventory

| component | state | operations | interacts with |
|---|---|---|---|
| room manager `room_manager.go` | `roomTable` under a RWMutex, room types | `JoinRoom`, `LeaveRoom`, `UpdateRoom`, `RoomUsers`, `Broadcast`, `GetOrCreate`, cleanup goroutine | called by sessions' handlers; starts workers |
| room worker `roomworker.go` | `users`, `credentials`, channel of 10000 jobs, expiry timer | `Run`, `Join`, `Leave`, `Update`, `GetUsers`, `Broadcast`, `Start` | one goroutine per room; reads the sessions' data; writes to the connections |
| session `session.go` | `Hello`, `Roomid`, `userid`, `Nonce`, status, subscriptions and subscribers, `replaced`, `disconnected`, one mutex | `JoinRoom`, `LeaveRoom`, `Broadcast`, `Unicast`, `Close`, `Replace`, `Update`, `Authorize`, `Authenticate`, `Subscribe` | room manager, hub, session manager, other sessions |
| session manager `session_manager.go`, user `user.go` | tables of users, of fake sessions by id and by user | `CreateSession`, `DestroySession`, `Authenticate`, `GetUserSessions` | sessions; REST API |
| hub `hub.go`, client `client.go` | clients by session id | `OnConnect`, `OnDisconnect`, `Unicast`, contact requests | connections, sessions |
| connection `connection.go` | outgoing queue, `isClosed` | `ReadPump`, `WritePump`, `Send`, `Close` | websocket; buffers of `buffercache.go` |
| API handlers `api/` | none | one per type of document | all of the above |
| tokens `tickets.go`, `sessionattestation.go` | secure cookies, attestation with a time | encode, decode, update | REST API, sessions |
| pipelines `pipeline*.go`, bus `bus_manager.go` | pipelines by id, attached sessions, queues, sinks | `GetPipeline`, `Add`, `Attach`, `FlushOutgoing`, `Close`, clean-up ticker, `Trigger` | hub, NATS |
| image cache `imagecache.go` | images by session and by id | `Update`, `Get`, `Delete` | sessions, HTTP handler |
| REST API `server/` | user backends | sessions, rooms, users, stats | session manager |
| client connector `connector.js`, API `api.js` | socket, state, queue, heartbeat | connect, reconnect, send, received | server |
| client rooms `rooms.js`, `roompin.js` | current, requested, prior and helloed room, PINs | navigate, join, retry, enter a PIN | API, location of the page |
| client buddy list `buddylist.js`, `buddydata.js`, `buddysession.js` | scopes by session and by user, sessions of a scope, contacts, render queue | Joined, Left, Status, room left, contact added and removed, frame | API, contacts |
| client calls `webrtc.js`, `peercall.js`, `peerconference.js` | calls by session, conference, waiting documents, camera | dial, accept, reject, hang up, offer, answer, bye, conference | API, browser's peer connections, user interface's timers |
| client file transfer `file*.js`, `peerxfer.js` | plan of chunks, jobs per connection, writer | offer, request, send, write, cancel | token connections, file system of the browser |
| client user interface | layout, ringing, status line | | all client parts |

What is hard here:

* **Interleavings.** Every connection has a goroutine for reading and one for
  writing, every room has a worker, a clean-up goroutine and a timer; a handler
  makes several calls and other goroutines come in between.
* **Lifetime.** Rooms expire, pipelines expire, sessions are replaced by a
  reconnecting client: who looked something up may use it after its end.
* **Locks held across calls.** A session's mutex is held while other components
  are called, some of which call back into sessions.
* **Order of documents.** The answers of a handler and the broadcasts of a room
  reach a client by different ways.
* **Limits.** The channel of a room and the outgoing queue of a connection drop
  what does not fit.
* **Callbacks.** The client is one thread, but it defers: a call waits for the
  camera, a change of state is reported in a later task, a line of the buddy list is
  made in a later frame. What a deferred function finds is not what was there when it
  was deferred.
* **Documents that cross.** Two browsers call each other at once, hang up while an
  answer is on its way, go to another room while a Welcome is.

What makes each part correct:

* rooms: one worker per room; members are exactly those who joined and have not
  left; the PIN is enforced at the moment of joining and changed by members only;
  every caller is answered; empty rooms go away; clients see who is there;
* sessions and hub: a session belongs to one connection, a taken-over session is
  not destroyed by its predecessor, nobody subscribed to a session misses its
  end, closing never deadlocks;
* connections: messages are sent in order or the connection is closed, buffers are
  released once;
* pipelines: what was added goes to the sink once and in order, receivers act for a
  session and end, nothing waits for ever;
* client rooms: the client shows the room the server has it in, joins the one that was
  asked for or says why not, presents a PIN to its own room only, gets connected again;
* buddy list: everybody in the room is shown once and nobody else, contacts stay;
* calls: the camera is on only with consent and only in a call, what rings stops, a
  call with nobody at the other end is ended, the second caller is told "busy";
* file transfer: every chunk is asked for once and written to its place, the download
  ends and leaves no connection open.

`PROJECT.json` lists the hazards at their lines, with the property that covers
each, or why none does.

## 2. Modules

| module | contents | abstract specification | proofs | run(s) |
|---|---|---|---|---|
| `Rooms`, `MCRooms` | room manager, workers, the handlers that call them, what clients show | `RoomDirectory` | `RoomsProofs` | `rooms_two`, `rooms_live`, `finding_deadlock` |
| `SessionRegistry`, `MCSessionRegistry` | hub, clients, users, subscriptions, takeover of a session, and their locks | | `SessionRegistryProofs` | `registry_live`, `registry_contacts` |
| `Connection` | outgoing queue, pumps, ping timer, close, reference counts of shared buffers | `Outbox` | `ConnectionProofs` | `connection` |
| `Pipeline` | pipelines, sinks and sessions of the bus, with the two mutexes | | `PipelineProofs` | `pipeline` |
| `RoomClient` | connector, heartbeat, join state machine with retries and PINs, against a server that answers | | `RoomClientProofs` | `client` |
| `Buddies`, `MCBuddies` | scopes, sessions, merging, contacts, rendering | | `BuddiesProofs` | `buddies` |
| `Calls`, `MCCalls` | calls and conferences of two or three browsers | | `CallsProofs` | `calls_two`, `calls_three` |
| `FileTransfer` | one download over several connections | | `FileTransferProofs` | `files` |

Composition: the server's rooms and sessions are apart, as a session is either taken
over or changes rooms in an interleaving that matters, and both with locks that the
other does not take. `Connection` says what both assume of the way to a client: an
`Outbox` delivers in order what it accepts. `RoomClient` has the server of `Rooms` as
one thread that answers; `Buddies` and `Calls` get what a server sends in its order.

Every `...Proofs` module states what it proves for every value of the constants, from the
named assumptions on them. Each section below gives the inductive invariant and the
argument. Every invariant and every action property of a passing run is a theorem; what
runs check besides is liveness. Still worth proving: `ContactsStay` of `Buddies`, which no
run checks and which needs the contacts in the invariant of section 8.

## 3. Rooms

### How the module corresponds to the code

`Rooms.tla` composes three parts, because their interleaving is the point.

* **Connections.** `ReadPump` handles one message after the other, so a session
  is in at most one handler. A handler is the sequence `todo[s]` of the room
  manager calls it makes: `HandleHello` is `[leave, Left,] join, Joined, welcome`,
  `LeaveRoom` is `leave, Left`, `Close` is `Left, leave`, `UpdateRoom` is
  `update, Notify`. `phase[s]` says where in the first call the handler is:
  `get` (lookup under the read lock), `create` (between the read lock and the
  write lock of `GetOrCreate`), `send` (it has the worker, `target[s]`), `await`
  (it reads its result channel, `reply[s]`), `panicked`.
* **The table.** `roomTable` and, for every worker ever created, `wstate`:
  running, stopping (out of the loop of `Start`), closed (`close(r.workers)`),
  gone (deleted from the table by the goroutine of `GetOrCreate`). A worker has
  an identity of its own, so that two workers of one room could exist.
* **Workers.** `workers[w]` is the channel of closures; one action per kind of
  closure (`RunJoin`, `RunLeave`, `RunUpdate`, `RunUsers`, `RunBroadcast`).
  `RunUsers` waits for the mutexes of the members, which a handler holds for
  writing in `JoinRoom`, `LeaveRoom` and `Close` (`Locked`).
* **Clients.** `buddies[s]` and `inRoom[s]` are what the browser of `s` makes of
  the Welcome, Users, Joined and Left documents (`rooms.js`, `buddylist.js`).

`Send` models `Run` as it is: a full channel drops the job and the result is
ignored. `SendPanics` is the send on a closed channel.

Abstractions: a PIN is a model value; room ids are those `MakeRoomID` returns;
documents carry only what changes membership; time is left out, so the timer may
fire whenever the worker is at its select. The deployment has no global room and
no room of type Conference. A broadcast reaches a client at once: the outgoing
queue of the connection can only delay it, in order (`Connection`). A session
is not taken over by another connection: that is `SessionRegistry`'s subject, which
leaves the rooms out.

`RoomDirectory.tla` is the promise without workers or channels: a room is open or
not, has members and perhaps a PIN; who joins presents the PIN; a member changes
it; a room closes only when it is empty. `Directory` in `Rooms` is the refinement
mapping; a room is open while its worker runs.

### Runs

`MCRooms` gives the numbers of messages. Deadlock is not checked: connections
send a bounded number of messages and then the system stops.

| run | instance | what it shows |
|---|---|---|
| `rooms_two` | 2 sessions, 2 rooms, 3 workers, a PIN; `a` sends 2 messages, `b` 1, and Close | types; one live worker per room through two expiries; membership against expiry when sessions change rooms; no ghosts |
| `rooms_live` | fairness, 2 sessions, a room and a disabled one, 2 workers; `a` may create rooms and sends 3 messages, `b` 1 | the inductive invariant and the refinement; buddy lists are complete when all is delivered; access checks are not got round; the PIN rule; answers come, rooms go |
| `finding_deadlock` | fairness, one room, `a` sends 3 messages | a handler that is never answered (section 11) |

Bounds: two sessions are the least for a race of creators, or of an entrant and
a leaver; three workers let a room expire twice, so that a stale cleanup could
meet a successor; two messages let a session enter and then change rooms, leave or
update, three let it come back; Close is free. In `rooms_live` that `b` may not create
rooms costs no interleaving of `a`, and the disabled room is there for the access
checks. `roomMaxWorkers` is 6, so that nothing is dropped (no run has more jobs in one
channel); that a dropped job is not noticed is in section 11, and the theorems hold for
every capacity. The runs leave repeated Hellos out because they break the properties
(section 11); the client of this repository sends Hello only when it changes rooms
or reconnects. `IInv`, the refinement and the PIN rule hold with them, too: that is
proved, not only checked.

Fairness: weak fairness of every handler and of every worker's jobs is the Go
scheduler's. Weak fairness of `WorkerStep`, and so of `Expire`, is justified by
the timer, which `Start` arms on every turn: a worker that waits at its select
forever gets `expired`. Nothing obliges a client to send.

### Proofs

`RoomsProofs.tla` proves, for any sets of sessions, rooms, workers and PINs, any
capacity of the channels, any number of messages and with repeated Hellos, from
`ConstantsAssumption` (distinct model values and types of the constants) alone:

* `TypeCorrect`: `Spec => []TypeOK`;
* `Invariance`: `Spec => []IInv`;
* `OneWorker`, `Membership`: the safety properties, as consequences of `IInv`;
* `PINByMember`: an action property, from `IInv` and one step;
* `Refinement`: `Rooms` implements `RoomDirectory`.

`IInv` is needed because none of the properties is inductive. "A session that
says Hello is a member" depends on what its handler did last, on what waits in
the worker's channel (a leave would remove it later) and on the answer it is
about to receive. `IInv` therefore says: the table and the workers agree and only
a running worker has members (`TableInv`); the step a handler is at fits its call
and the worker it found is of the room it asked for (`CallInv`); a leave is always
followed by the Left that ends a membership, and an update is made by a session
that is in the room (`TodoInv`); a job to be answered is the last its session
put in the channel, and the session waits for it (`QueueInv`); an accepted
join still holds when its answer arrives (`ReplyInv`); and a session that is in a
room is a member with no leave on the way (`HelloInv`). The member that
updates is one because his update was sent after his join ran, and no leave
of his can be in between. The invariance of each part is one lemma per group of
actions; the step that matters is `Expire`: it needs an empty room, and
`HelloInv` says a session in the room keeps it from being empty.

The second half of the module proves the rest of the safety properties, on top of `IInv`:
who is in a room and who is shown there.

* `Access`: `Spec => []AccessControl`. A handler that is past its lookup has been checked
  (`Checked`), so that the members of every room are sessions that may join it
  (`MembersMay`). Creation is checked a second time, under the write lock; a table with a
  room has seen a message of an account (`MadeByAccount`).
* `GhostsExcluded`: `Spec /\ []NoneFull => []NoGhosts`, without repeated Hellos.
  `MembersAccounted` says of each member that it stays, or has an accepted answer to
  its join, or that its leave is queued or still among the calls of its handler. A job that
  is dropped would lose the leave, and a refused second join leaves a member that says it
  is in no room. Both are behaviours of the code (section 11), hence both hypotheses:
  `NoneFull` says that no channel of a room is full, `~Rehello` that no client says Hello to
  the room it is in, as the client of this repository does not.
* `BuddiesShown`: `Spec /\ []NoneFull => []BuddiesComplete` under the same hypotheses.
  `ShownInv` says why a client in the first room of its connection shows a member, or soon
  will: its Welcome is still to come, or has that member in it; or the member's Joined is
  on the channel or still to be sent; or the member is about to go. The step that
  matters is the answer to the Users job of the Welcome: it is taken from the worker's
  members, so who is not in it joins later, and its Joined is later, too. A Left can
  hide somebody only if he goes (`LeftInv`).

Only model-checked: all liveness, as fairness is out of the proof system's reach.

## 4. Session registry

### How the module corresponds to the code

`SessionRegistry.tla` composes the hub, the session manager with its users, and the
sessions, because what matters happens between their locks.

* **Goroutines.** Every connection `c` has a session of its own, also called `c`,
  under the session id `SessionId[c]` of its token; the session of the same id made
  by a later connection is another `Session` value. Two goroutines act for `c`:
  `Reader(c)` runs `OnConnect`, then one handler after the other, then
  `OnDisconnect`; `Closer(c)` is the goroutine of `ReplaceAndClose` that another
  connection starts to close `c`. `pc[t]` is where a goroutine is, `obj`, `rest`,
  `cur` and `ec` are its local variables.
* **Steps and locks.** A critical section that takes no other lock is one step,
  with the guard that the lock is free. A lock that is held while other locks are
  taken is recorded with its holder: `mutex` of a session (`Close`, `Replace`),
  `userReaders` (`SubscribeSessions`), `managerLock` (`DestroySession`), `statOn`
  (the hub's read lock in `ClientInfo`). A Go writer that waits stops new readers;
  the hub has that (`hubWriters`), the locks of users do not need it, as nobody
  takes one for reading twice.
* **Maps.** `Replace` makes the new session use the *same two Go maps* as the old
  one. `maps[c]` says whose maps `c` uses; `subscriptions` and `subscribers` are
  indexed by that. After `Close` a session has empty maps that nobody reads.
* **Users.** A `User` value outlives its entry in the table: `userTable[u]` is the
  value of the user id, `sessionTable[o]` the sessions of a value. `UserObj` is the
  supply of values, one more than can be in use at a time.
* `told` is a history variable: which ends each connection was sent since it
  subscribed.

`Login`, `SessionId` and `Contacts` are constants: what the tokens of a connection
say. The token may name the user already (`Dial` goes on to `Authenticate`), or the
client authenticates later (`HandleAuthentication`). Left out: rooms and pictures
(`Close` of a session in a room is in `Rooms`), sessions faked for users who are
offline, `Sessions` requests with a session's attestation (they subscribe to
nothing), failures of cryptography, `Unsubscribe` (nobody calls it).

### Runs

Instances are in `MCSessionRegistry`. Deadlock is not checked: all connections end.

| run | instance | what it shows |
|---|---|---|
| `registry_live` | fairness, 2 connections under one id, one user, reports of the hub | types; the hub keeps the newest connection whatever order the stale one ends in; a session is cleaned up once, and not after it handed over its maps; the new connection is served, the old one ends |
| `registry_contacts` | 3 ids of 3 users, three contacts, two of them mutual | subscribers learn of ends; ended sessions are not listed; the inductive invariant |

Bounds: two connections under one id are the least for a takeover, and `HubHasCurrent`
and `CleanedUpOnce` are proved for any number. In `registry_contacts`
every user has one session: with two the property fails (section 11). The
takeover of a session with subscribers is in no passing run: the combination is where
the code breaks.
`UserObj` has at least `|User| + |Conn| - 1` values: the table has one for each
user at most, and every goroutine but the one that needs a new value can keep one
that was dropped.

Fairness: goroutines run, and Go's mutexes pass nobody over for ever, hence strong
fairness of what goroutines do by themselves (an action that waits for a mutex is
enabled again and again, not continuously). `Closer` ends with `oldClient.Close()`,
which ends the `ReadPump` of the old connection: weak fairness of `Lost` after it.
Nothing obliges a client to connect, authenticate, ask or leave.

### Proofs

`SessionRegistryProofs.tla` proves, for any sets of connections, ids, users and
contacts, from `RegistryAssumption` (distinct model values and types of the
constants) alone:

* `TypeCorrect`: `Spec => []TypeOK`;
* `Invariance`: `Spec => []IInv`;
* `HubCurrent`, `CleanupOnce`: the two safety properties, as consequences.

`IInv` is `TypeOK /\ Locals /\ KnownOnce /\ HubHasCurrent /\ MutexHeld /\
CleanedUpOnce`. `HubHasCurrent` alone is not inductive: that a connection is
taken off the table by its own `Unregister` only needs that an entry is under the
id of its connection and that the hub learns of a connection once (`KnownOnce`).
`CleanedUpOnce` needs `MutexHeld`: whoever cleans up, or is about to mark a session
as replaced, holds that session's mutex, so the other goroutine cannot pass
`CloseLock`. `Locals` gives the step of a goroutine the session, user or `User` it
works on. There is one lemma per group of actions.

What contacts are told is proved for deployments in which no session is taken over, as
the code does not satisfy it otherwise (the rows of `SubscribersTold` and `NoGhostFound` in
section 11). The hypothesis is a fact about constants: `OwnIds`, no two connections
present the same session id; for the second theorem also `OwnUsers`, no two sign in as the
same user.

* `NoGhostListed`: `OwnIds` implies `Spec => []NoGhostFound`. `ListInv` says that a `User` on
  the table is of one user, that what it lists are sessions of that user, and that each of
  them is between its `AddSession` and its `RemoveSession`. A user may have any number of
  sessions here.
* `SubscribersAreTold`: with `OwnUsers`, `Spec => []SubscribersTold`. `ToldInv` follows a
  subscription through four places: the subscriber is about to enter itself at the session,
  which its `User` still lists, as the lock is held (`Reading`); it is in the subscribers of
  a session that has not begun to close; it is among those that the `Close` still
  tells; it was told. `OnTable` is what `OwnUsers` is for: a `User` that is
  in use is the one on the table. With two sessions of a user, it may be dropped between
  the lookup and the addition.

Only model-checked: liveness.

## 5. Connection

### How the module corresponds to the code

`Connection.tla` has the server's end of every websocket (`connection.go`) and the
buffers that `buffercache.go` lends, as the queues of several connections share them.

* `queue[c]`, `isClosed[c]` and `ping[c]` are the fields of `Connection`. `isClosed` has
  a value for each part of `Close`: flag set, socket closed, queue cleaned; `closer[c]`
  is who is in there. The timer's callback, `pump[c]` (`WritePump` with its
  `Cond.Wait`) and `reader[c]` (`ReadPump` and `OnDisconnect`) are the goroutines of a
  connection. A critical section of the connection's mutex is one step.
* `sender` are the goroutines that send: a handler answers on its own connection or
  has the hub send to another (`EncodeOutgoing`, `Send`, `Decref`), a room's worker
  broadcasts: one buffer to several connections.
* `refcnt[b]` and `content[b]` are a buffer. `New` takes the free buffer with the least
  number, so that the one released last is used again at once.

`Outbox.tla` is the promise: a connection accepts up to a limit of messages, writes what
it accepted in order, and may end at any time, after which it accepts and writes
nothing. `OutboxOfConn` is the refinement mapping; `Limit` is `maxQueueSize + 1`, as the
pump may hold a message besides the queue.

Left out: the buffer an incoming message is read into (only `ReadPump` has it), the
throttle, the read deadline (a dead peer is `Fail`, at any time), the size limit. A
broadcast that a full room worker drops leaves its buffer to the garbage collector.

### Run

| run | instance | what it shows |
|---|---|---|
| `connection` | fairness, 2 connections, 1 sender, 2 buffers, queue of 1, 2 messages; connection 1 may fail, be taken over and pinged | a buffer's count is the number of its users; the outbox is implemented; what is accepted is written; an end is complete |

Two connections are the least that share a buffer; a queue of one is full
with the first message; with two buffers and two messages one is used again while it may
still be in a queue. `Troubled` names the connections that may go wrong: the other one
is the witness that it is not affected. Fairness: goroutines that can go on do. Nothing
is assumed of `PingDue`, so `Delivered` shows that no wake-up is lost that a ping would
only repair 54 seconds later; nothing makes a socket fail or a handler send.

Two things are as the code has them: a message for a full queue is dropped and only
logged (`connection.go:188`), and so an outbox may skip a message; and the `break` on
an error of `ReadAll` leaves the `switch`, not the loop, and the next read fails.

### Proofs

`ConnectionProofs.tla` proves, for any sets of connections, senders and buffers and any
limits, from the assumptions of the module alone:

* `TypeCorrect`: `Spec => []TypeOK`;
* `CountsAreRight`: `Spec => []RefCounts`;
* `Refinement`: `Spec => ImplementsOutbox`: the initial states are the outbox's, and every
  step is a step of one outbox or a stutter.

The invariant counts by place: the holders of a buffer are the positions of queues, the
pumps and the senders that have it, and the count is the cardinality of that set
(`Counted`). A place that is taken or given up is one element more or less; a position in
a queue that moves up is a bijection. `Close` gives up all positions of a queue at once,
and one buffer may be there several times. `HeldByPump` and `SenderHolds` say
when a pump or a sender has a buffer, and `Filled` that what is in use was not reset. For
the refinement, `Pending` of a connection (what the pump holds, then what is queued)
is a queue of `Outbox`: every step changes it at its ends only, or is the closing of it.

A sender makes a message only while there is a free buffer (`Free # {}`), a bound of the
model: the program would make one more buffer.

## 6. Pipelines and sinks

### How the module corresponds to the code

A call document for a session without a client goes by a *pipeline* to a *sink* of the
bus, and what comes in by the sink is handled by the pipeline's receiver.
`Pipeline.tla` has `Unicast` (`hub.go`), the table, refresh, attach, flush and clean-up
(`pipeline.go`, `pipeline_manager.go`), and the sessions and sinks of the bus
(`bus_manager.go`).

* A goroutine (`Caller`: a `ReadPump`; a number: the receiver of that pipeline) handles a
  document in the steps `get` and `refresh` (`GetPipeline`), `unicast` and `find`
  (`FlushOutgoing` with `FindSinkAndSession`), `bind` (`BindRecvChan`), `add`, `write` and
  `close` (of a Bye).
  `pc`, `doc`, `cur`, `sinkVar`, `place` are its locals.
* `lock` of a pipeline and `plmLock` are the mutexes that are held while the other is
  taken: in `FlushOutgoing` one way, in `GetPipeline` and `cleanup` the other way.
* `SessionCreate` and `SessionClose` are the callbacks of the bus, `TimePasses` and
  `Cleanup...` the ticker, `Disconnect` the end of a caller.
* `bound[k]` is the channel what comes in by sink `k` is put in; `written[k]`, a history
  variable, is what the sink was given.

Abstractions: a critical section that takes no other lock is one step; time does not
pass for a pipeline while a handler uses it (the least duration is half a minute);
a clean-up that finds nothing is no step; a sink goes by the first session it is made
for; a caller that left does not come back. Rooms and status of a session of the bus, the
REST handlers that read and post to a pipeline, the channels' limits and the queue of
triggers are left out. NATS itself is external.

### Run

| run | instance | what it shows |
|---|---|---|
| `pipeline` | fairness, a caller, a session of the bus, one faked session; 2 documents out, 1 in | a receiver has a session to act for; a sink gets everything once and in order; handlers and receivers end |

Two documents let the second meet a pipeline that is attached, expired, closed by a Bye or
being cleaned up; the one that comes in runs against both. The faked session is what
the default sink is for. The same properties hold with three documents out or with two in
when no session is faked (`MaxDocs = 3`, or `MaxIn = 2`, with `Faked = {}`).

Fairness is `WF_vars(Server)`, of all goroutines together: no step undoes another and
all are finite, so each gets its turn. `HandlersEnd` and `ReceiversEnd` except
`Inverted`, the deadlock of section 11: they say that nothing else keeps a handler.

Observed on the way, without a property: what comes in goes to the pipeline that was
attached last, and its Bye leaves the others of that sink deaf; `Attach`, which would
flush what was added earlier, is never called; a POST to a pipeline that was never
attached finds no session.

### Proofs

`PipelineProofs.tla` proves, for any sets of callers, bus sessions, faked sessions and sinks
and any numbers of documents and pipelines, from the module's assumptions on names (no
session is of two kinds, no pipeline has the name of a caller):

* `TypeCorrect`: `Spec => []TypeOK`;
* `ReceiverActsForSession`: `Spec => []ReceiverHasSession`;
* `SinkGetsAll`: `Spec => []SinkMissesNothing`.

Nothing comes in for a pipeline before `BindRecvChan`, which a handler reaches only
with the session that `FindSinkAndSession` gave the pipeline (`Sessions`, `Local`). That a
handler uses the pipeline that the table has (`Kept`, `CleaningUp`) is part of `IInv`: it
rests on the module's clock, which does not pass the expiry of a pipeline while a handler
that refreshed it is still at it. The module bounds the pipelines ever made
(`Len(pipe) + 1 \in Pipe` in `GetNew`).

That a sink gets everything relates the documents a pipeline has counted to the history of
its sink while goroutines are between the two. `SInv` says why nothing is lost or
overtaken: of what was added to an attached pipeline since then, each document is written
or *pending*, with one goroutine at `write` that has its place, and never both (`Told`);
what is pending is the last that was added (`Writes`), as only the `ReadPump` of its caller
uses a pipeline that is attached to a sink (`Attached`, with `Own` and `Local` of `IInv`) and
writes before it adds again; and a sink that was closed is never the sink of the table again (`SinkTables`), so that a sink
which is open is the one each goroutine in these steps goes to. `AttachS` starts the
count anew, `AddS` adds the pending document and `WriteS` writes it; the other actions keep
what a pipeline has (`FrameS`).

Only model-checked: liveness.

## 7. Client: connector and rooms

### How the module corresponds to the code

`RoomClient.tla` has the connector and its socket (`connector.js`), the heartbeat
(`api.js`), the delayed reconnect (`uicontroller.js`, `continueconnector.js`) and the
rooms service with its PINs (`rooms.js`, `roompin.js`), with the least of a server that
answers them: `Serve` handles one document.

* One action is one task of the event loop. `tasks` are the deferred functions, in
  order; timers and events of the socket come in between. `conn`, `connected`,
  `connecting`, `queue` are the connector's; `requested`, `prior`, `helloed`, `current`
  the rooms service's; `pinCache` and `prompts` are `roompin.js`.
* `up` and `down` are what is on its way, `member` the server's view, `exists` and
  `lock` the rooms of the server. `Others` are the other clients: they create, lock and
  drop rooms.
* `late` and `silent` are history variables that note the two ways in which the shown
  room may be wrong; `typed`, `got`, `refused` serve the properties.

Time is left out: an armed timer may fire at any time, an answer may always come too late
for the heartbeat. Only the current socket is kept, as the code ignores events of others.

### Run

| run | instance | what it shows |
|---|---|---|
| `client` | fairness, 2 rooms (the default one disabled), a PIN, 1 navigation, 1 fault, 1 act of others, 1 application message | the client shows the room the server has it in; PINs are not mixed up; reconnects are not lost; the location's room is joined or refused with a reason |

One navigation makes two rooms in turn, which a stale Welcome or error needs; one fault
with any timer is one reconnect, and the retry of `ConnectTimeout` comes on top. The
properties were also found to hold with two navigations (liveness with `MaxOthers` and
`MaxChats` 0; safety with the default room enabled and `MaxChats` 0). Fairness: the event
loop runs what is due, the server accepts and answers; users and network may do nothing.

Observed on the way, each a behaviour of the model: going quickly from A to B and back
leaves the client in B; a stale `invalid_credentials` clears, and asks for, the PIN of
the room requested last; a Room document of a room already left becomes the current
room (`late`); a connection that is silent before its first document is never given up.

### Proofs

`RoomClientProofs.tla` proves, for any rooms and PINs and any numbers of navigations, faults
and acts of others:

* `TypeCorrect`: `Spec => []TypeOK`;
* `ShowsTheRoom`: `Spec => []ShowsItsRoom`;
* `PINsStay`: `Spec => []PINStaysWithRoom`.

For the first, `Agree`: while the socket is open, either the last answer on its way
tells the room in which the server has the client, or no answer is on its way and the
client shows that room (or one of the two exceptions, `late` and `silent`, has happened).
It is the server that decides, so what the client has requested in between, or which
Hellos it has sent, does not enter. `Link` says that a new connection begins with
the client in no room on both sides. For the second, what is on its way with a PIN
presents one that was typed for its room (`Presents`), and so does the cache (`Cached`).

Only model-checked: liveness.

## 8. Client: buddy list

### How the module corresponds to the code

`Buddies.tla` has `buddylist.js`, `buddydata.js`, `buddysession.js` and what
`contacts.js` calls. A scope is a line of the list; `list.heap` holds them with the
sessions each has, `scopes` and `brain` are `buddyData`'s tables (by session and by user),
`sessions` is `buddySession`'s. A handler is an operator from a list to a list, as
handlers call each other (`Get`, `Update`, `OnUserid`, `DelUser`). The events are
`Joined`, `Status`, `Left`, `RoomLeft`, a contact added or removed, and
`Frame`, which makes and removes lines: `dom` is what is on the page.

The environment sends what the server of `Rooms` sends: Joined, Status and Left of a
session that is there, and tells the user when that session has signed in.

Left out: order and text of the lines, the count of buddies (it grows with every repeated
Joined), a frame's limit of 11 lines, the click on a contact without session (whose
answer overwrites a scope, `buddylist.js:684`), faked sessions and
`onContactUpdated`, and a contact's picture.

### Run

| run | instance | what it shows |
|---|---|---|
| `buddies` | 2 sessions of one user, 3 scopes | everybody is shown; nobody else is; a user has one line |

Two sessions of one user are the least to be merged; three scopes are a line for each and
one more after both have gone. The same holds with four scopes, and with three sessions
of the user. No liveness: whether a frame comes is up to the browser, and the
properties speak of the page when the frame has done its work.

### Proofs

`BuddiesProofs.tla` proves, for any numbers of sessions, users, contacts and lines, from the
assumptions that sessions and users are different ids and that every session has a user:

* `EverybodyShown`: `Spec => []EverybodyIsShown`;
* `NobodyElse`: `Spec => []NobodyElseIsShown`;
* `OneLine`: `Spec => []OneLinePerUser`;
* `TablesAgree`: `Spec => []SessionsKnown`, which no run checks.

The properties speak of lines on the page, but a handler works with tables of ids. What holds
in between is `Good(l, P, K, D)`, of a list `l`, the sessions present, those whose user is
known and the lines on the page:

* `Lines`: a line that some id leads to has not been destroyed, has just the ids that
  lead to it as its sessions and its user (`Known`), and is on the page, in the queue or
  dropped (`ShownAt`). Its sessions are different and have told its user, its
  default is one of them, and without any it is a contact's (`Own`).
* `Tables`: the two tables agree on who is present.
* `Brain`: what `buddyData` remembers of one who left is destroyed, or his user still
  has it. Without it an id that waits in the queue could bring back a line that is gone.
* `Auth`: a session whose data are marked has a line with a user: `onBuddySessionUserid` is
  not called again, and need not be.
* `Page`: what is to be removed is destroyed; an element is on the page unless it is.

A handler changes one line, so one lemma does the work for all: `ChangeGood` says that
`Good` is kept when one line changes (`Change`, `BrainChange`) and is as it must be afterwards
(`Fine`). The kinds of changes are lemmas from it: a new line (`FreshLine`), a session that
shares one (`SharedLine`), a user who is told (`SignedLine`), a line that is left by its last
session (`EmptyLine`) or by one of several (`StayLine`), a contact (`FlagLine`); and each
handler is shown to be one or two of them (`UpdateKnown`, `JoinedGood`, `StatusGood`,
`LeftGood`, `ContactAddedGood`, `ContactRemovedGood`, `FrameGood`). A merge is of a line with
one session (`OneSession`): sessions share a line only when their user is known, so that the
line without user which is merged away is that of the session that tells it. `room.left` is
`LeftGood` for one session after the other (`LoopKeeps`), and has them all at the end, as
`buddySession`'s table is the sessions present (`ClosedGood`).

## 9. Client: calls

### How the module corresponds to the code

`Calls.tla` has `webrtc.js`, `peercall.js`, `peerconference.js` and `peerconnection.js` of
two or three browsers, with the timers and the status line of the user interface. A
browser is a record `peer[p]` and its functions are operators from such a record to the
next one (`DoCall`, `ProcessOffer`, `TakeAnswer`, `HangUp`, `Stop`, ...);
`net[p][q]` are the documents from one to another, in order. An action is a click, a
document, an event of the browser's peer connection, a timer or a deferred
function. `gone` are browsers that were killed, of which the server tells by Left.

The call of a browser has a number, because the code keys calls by session id only: `far`
is the number of the call whose description was set, so that one can tell when an
answer belongs to another call.

Abstractions: deferred functions run before a user acts again; timers of one delay fire in
the order in which they were armed, which is all that is kept of time; ICE gives up only when
what is on its way has come; create, set and send of a description are one step;
candidates, tokens, data channels, conference rooms kept by the server and a
`getUserMedia` that throws are left out; so are reconnects to the server, after which
`receivedRoom` sends the Conference document again (`webrtc.js:171`). Nobody asks for
auto-accept: `updateAutoAccept` is never called with the id of one to accept
(`uicontroller.js:282`, `:507`). Renegotiation is enabled.

`pickupTimeout` and `ringerTimeout` are variables of the user interface that hold a timer. A
ring overwrites the first without cancelling what it holds (`uicontroller.js:520`). So
`pickup` is whom the timer of `pickupTimeout` is for, while it runs, and `pickups` the
timers that run without being in the variable any more, the oldest first; `ringer` and
`ringers` are the same of the other (`uicontroller.js:782`). When the last call ends, "done" is
a deferred function (`webrtc.js:793`): a call that rings before it runs is shown as
"waiting", and cannot be accepted.

### Runs

| run | instance | what it shows |
|---|---|---|
| `calls_two` | fairness, 2 browsers that call each other, one may be killed, 2 calls each, 1 trouble | the camera goes off with the last call; a call without its other end is noticed |
| `calls_three` | 1 calls 2, 2 calls 3; 1 acts three times, 2 twice, 3 once, 5 acts together; 1 trouble | the camera is used with consent only; the timer that `pickupTimeout` knows is not left to run when its call is answered; with exceptions (below) |

Two browsers are the least for glare and crossing documents; the third makes a conference
and a call that comes in while another rings. Two calls each let an old document
meet a new call; `MaxCalls` says how often each user calls or accepts, and `MaxActs` how
often all do. In `calls_three` the first user may call three times, so that a ring meets a
pickup timer that still runs and is forgotten. No ringer timer is, in these bounds.
`MaxTrouble` counts hang-ups, lost connections and changes of media.
Fairness: documents arrive, the browser's negotiation and ICE end, deferred functions and
timers run. Users do nothing they need not: nobody has to answer or to hang up.

Observed on the way, each a behaviour of the model: `isOutgoing` looks at `from`, which a
call has only when it comes in, so that `dialerEnabled` is the wrong way round and the
caller's ringer of 35 seconds is never armed (`webrtc.js:580`, `peercall.js:51`); calls
that wait for the camera are not cleared by a hang-up and are offered when it comes
(`webrtc.js:514`, `:806`); waiting documents of a call are kept when it ends while others
go on; after a quick redial the Bye of the old call ends the new one, as calls are
keyed by session; a renegotiation after the other side has given up rings as a new call; an
Offer of the conference that overtakes the Conference document is told "busy"; dialing
while another call rings cancels the pickup timer of the latter.

The properties have three exceptions. Two are named by history fields of a browser; the third
is why `PickupSparesAnswered` speaks of the timer in `pickupTimeout` only. With them the
properties say what is true for any bounds. Within the bounds of `calls_three` only the second
is needed: no camera is on without consent, and no forgotten timer is for an answered call.

* `slipped`. A negotiation that fails (glare, when both renegotiate) removes the call
  while a change of its state is still deferred, and the late report puts the peer into
  `connectedCalls` again (`peerconference.js`, `onConnectionStateChange`). When the user
  calls the peer anew, where it rings, and then a third user, who accepts, the Conference
  document goes to the peer, too, and is followed there, as its sender is the one call in
  the peer's table (`webrtc.js:386`): the camera is asked for though the peer's user has
  accepted nothing. The shortest sequence known has three users, two mutes, a hang-up and 30 steps.
  That a late report makes a conference id without any call is seen in `calls_three`
  (`NoConferenceUnasked` is false).
* `offerless`. A call is accepted, the caller gives up while the camera prompt is open, and
  calls again. The first call, closed, still waits for the camera (`webrtc.js:806`): when it
  comes, it takes the Offer that waits for the new call, and the new call makes an Offer
  itself. The Answer to that leaves the pickup timer armed (`PickupSparesAll` is false).
* Forgotten timers. A call that rings, or was accepted and not yet answered, goes without a
  "peercall" when it is replaced by a new one or its negotiation fails: the pickup timer
  goes on. When the peer calls again, the ring overwrites `pickupTimeout`
  (`uicontroller.js:520`), and "peercall" cancels only the new timer when that call is
  answered (`:474`): the old one then ends it with "pickuptimeout"
  (`ForgottenSpareAnswered` is false).

### Proofs

`CallsProofs.tla` proves, for any finite set of users and any bounds, `TypeOK`,
`CameraOffWhenIdle`, `CameraByConsent` and `PickupSparesAnswered`, under `Spec`, which has
no fairness, with the assumptions of `Calls` only.

*Loops.* Several handlers loop over calls or waiting documents, which the model writes as
folds. A fold is known by the equation that defines it, so the first sections show that it
exists on a finite set and that it is the last of a series of states, each the body of the
loop applied to the one before (`SetRuns`, `SeqRuns`). The induction on natural numbers is
over a set of numbers, from the well-foundedness of `<`. `LoopKeeps` then carries
what holds of the body over to the loop: `TakeQueue`, `CallMembers`, `HangUpAll`,
`PushUpdate`, `Media` and `Become`.

*Invariant.* `IInv` says of each browser that it is well typed and has nothing left to
send (`out`), and `Good`:

* `Counted`: the count is the size of the table of calls; `Stop` depends on it.
* `LostAnswered`, `FreshFar`: only a negotiated call loses its connection; one without a
  peer connection does not know the far call. The second is what turns `PickupWaits` into
  `PickupSparesAnswered`.
* `Consent`: a camera that is on, and also a conference id, come from a click, or `slipped`.
  The id is needed because an Offer of the own conference is accepted without asking.
* `CameraUsed`: the camera is on for some call, or a negotiation failed.
* `Numbered`, `RefsOK`: a reference kept by a call that waits for the camera is to the call
  in the table or to an older one. Without it a closed call could pass for the new one.
* `PickupWaits`: the pickup timer is for a call that came in, that has no peer
  connection and whose Offer still waits, or `offerless`.

`GoodBut` is `Good` with an exception for one call, which operators in the middle of a
handler need (`TakeQueue` processes the waiting Offer of a call that already has its
peer connection), a set of references on their way, and whether the user has just clicked.
Every operator has a lemma of its own, in the order in which handlers call them, and every
action one that ends with `BecomeKeeps`. The changes of the user interface and of what is
sent are `Quiet`: they leave all the invariant reads, except that the timer may stop.

`StrandedCallsEnd` needs fairness and stays with TLC.

## 10. Client: file transfer

### How the module corresponds to the code

`FileTransfer.tla` has a download (`filedownload.js`, the writer of `filedata.js`, the
buttons of `fileinfo.js`), the upload that serves it (`fileupload.js`), and the
connections between them (`peerxfer.js`, `doXfer` of `webrtc.js`). `down` is the
downloader: the next chunk to give to a job, the xfers that are free, the job of
each, the writer's buffer and what is on disk. `up` is the uploader; `reqs[x]` and
`data[x]` are what is on its way over connection `x`.

Abstractions: dialing a connection and its `dataReady` are one step; checksums never fail,
as the channel is reliable while its connection lives; a closed connection may lose what
was sent last; the writer is the one of the FileSystem API, and making it does not fail
(`createWriter` has no callback for an error, `filedata.js:161`). Chunks have two sizes, the
last one its own, as positions are computed from `chunk_size`.

### Run

| run | instance | what it shows |
|---|---|---|
| `files` | fairness, 5 chunks, jobs of 3, 2 connections at a time, 2 ever made, 1 download, 1 trouble | every chunk is asked for once; what is shown as complete is complete; the download ends; it leaves no connection open |

Five chunks are a full job and one that is cut at the end; two connections work at once.
One trouble is a connection interrupted or a write that fails. Fairness: both event loops,
the connections and the file system go on; users need not click. `Completes` excepts what
the code has no answer to: the file is no longer shared, a job's connection is
lost (`Lost`), or the model has no connection left (`Exhausted`).

Observed on the way: `chunk_size` is the size of the chunk that arrives first, which may be the
last one (a file of one chunk more than the others' multiple); a failed write is announced
as `writeerror` and listened for as `writerror` (`filedata.js:169`,
`filedownload.js:101`); a job whose connection is lost is never handed out again and the
download hangs; after a transient "disconnected" the connection is off the list, its job goes
on, and it is never closed; an empty file never completes; a cancel leaves the temporary
file; the ICE state "failed" is not handled by `doXfer`.

### Proofs

`FileTransferProofs.tla` proves, for a file of any size, jobs of any length and any number of
connections, downloads and troubles, from `FileTransferAssumption`:

* `TypeCorrect`: `Spec => []TypeOK`: no job reaches past the end of the file;
* `ChunksOnce`: `Spec => []EachChunkOnce`;
* `FileIsWhole`: `Spec => []WholeFile`, for files that leave no job with the last chunk
  alone (`LastJobIsLong`).

`EachChunkOnce` alone is not inductive: a chunk that comes in is added to what the session
has, and must be the one its connection's job waits for. `FileInv` therefore
follows the documents: over the connection of a job at most one chunk is asked for, being
read or on its way, and it is the last that the job gave out (`Jobs`, `OnlyAsks`); over a
free connection there is nothing, and it is free once (`FreeXfers`, `Quiet`); a session
that has ended has neither (`Ended`), so that what its connections still bring is dropped,
and the next download starts with connections nobody has used. The functions
of the code are functions from downloader to downloader, and `Good` is proved of
each (`FlushFacts`, `CancelGood`, `AddXferGood`, `StartGood`, `StoreGood`); an action is one
of them, or two, and the sending of what they have collected (`BecomeInv`).

`WholeFile` is about the writer: what has arrived is on the disk, being written or in the
buffer, each chunk in its place (`Filed`), while writes, failures and further chunks come in
any order. The place of a chunk is computed from the size that the first one told, so
that no job may begin with the last chunk as long as the size is not known (`Dealt`); and
`done` calls a file finished when the next chunk to be dealt is the last. Both are
right when no job is left with the last chunk alone: `LastJobIsLong` says that of the number
of chunks, and the constants of `files` satisfy it. It cannot be dropped: section 11 has
TLC's counterexample with four chunks.

Only model-checked: liveness.

## 11. What the code does not satisfy

Each row is a formula of a module and a way to make TLC show a counterexample.
`finding_deadlock` is a run; the others are named `Not satisfied` in the modules, or hold
only in the instance of their run.

| statement | how to see it | the code | what is said |
|---|---|---|---|
| `AlwaysAnswers` | run `finding_deadlock` | `JoinRoom` waits for the room's worker with the session's mutex held (`session.go:128`), while `GetUsers` of the worker waits for the mutex of the member that has just left and comes again: a deadlock of the room | Hello is answered (`CHANNELING-API.txt:180`) |
| `NoGhosts` | `rooms_two` with `Rehello = TRUE` | a second Hello for the same room is refused and the session forgets the room, but the room keeps it (`session.go:152`) | "any previous room will have been left regardless" (`CHANNELING-API.txt:182`) |
| `CleanedUpNotInUse` | `INVARIANT` in `rooms_two` | a join may be queued when the timer fires | "not in use" (`roomworker.go:115`) |
| `RunRefusesWhenClosed` | `INVARIANT` in `rooms_two` | `Run` sends on the channel of a worker that has ended, and panics or waits for ever | `roomworker.go:159` |
| `BuddiesAlwaysComplete` | `INVARIANT` in `rooms_two` | a Joined overtakes the Welcome on entering a later room, and the client drops it | `CHANNELING-API.txt:226` |
| `Answers` | `rooms_live` with `roomMaxWorkers = 1` | a job that is dropped is not noticed (`roomworker.go:158`) | |
| `StaleNotCleaned` | `PROPERTY` in `registry_live` | the stale `Close` may come before `Replace` marks the session | `CHANGELOG.md:347` |
| `Served` | `registry_contacts` with `FairSpec`, `SessionId <- SharedId`, `Login <- TwoUsers`, `Contacts <- OneWay`, `Id = {i, k}` | `SubscribeSessions` holds the user's lock and wants the session's mutex (`user.go:85`); a closing session holds its mutex, then the manager's lock, and wants the user's: a deadlock, and the connection that takes that session over waits with them (`client.go:94`) | `CHANGELOG.md:322` |
| `SubscribersTold` | `registry_contacts` with `SessionId <- OwnId`, `Login <- TwoUsers`, `Contacts <- OneWay` | the last session of a user goes and the `User` is dropped, while another is about to be added to it (`session_manager.go:163`): that one is never removed from the dropped `User`, and who has looked it up before subscribes to a session that has ended | `CHANGELOG.md:275` |
| `NoGhostFound` | `INVARIANT` in `registry_contacts` with the constants of the row of `Served` | a connection that never authenticates takes the session over: the old one leaves the clean-up to it, and it has no user to be removed from | `CHANGELOG.md:359` |
| `NotInverted` | `INVARIANT` in `pipeline` | `FlushOutgoing` wants the manager's mutex with the pipeline's held (`pipeline.go:207`), `cleanup` and `GetPipeline` the other way round (`pipeline_manager.go:94`, `:202`): a deadlock of all call documents to sinks | |
| `BothDirections` | `INVARIANT` in `pipeline` | a pipeline closed by a Bye stays in the table and is used again; its receive queue is closed | "in both directions" (`sink.go:28`) |
| `ClosedSinkIsDeaf` | `INVARIANT` in `pipeline` | a sink that is closed between attach and `BindRecvChan` keeps its subscription (`bus_manager.go:272`); documents are handled twice | |
| `HelloAfterConnect` | `PROPERTY` in `client` | a delayed reconnect replaces a connection that is up, without "close", and nobody says Hello on the new one (`connector.js:106`) | `CHANNELING-API.txt:179` |
| `RetriedWithoutCredentials` | `INVARIANT` in `client` with `MaxOthers = 3`, `MaxFaults = 0`, `MaxChats = 0`, `Spec` | the repeated Hello is taken for one already sent (`rooms.js:87`) | `CHANNELING-API.txt:194` |
| `EverybodyIsAlwaysShown`, `ContactsAreShown` | `INVARIANT` in `buddies` | leaving the room drops lines not made yet, contacts' too (`buddylist.js:576`) | |
| `RemovedLinesGo` | `INVARIANT` in `buddies` | a line that was merged away and the line it went into have one id in `lefts`: one stays (`buddylist.js:251`, `:533`) | |
| `NoConferenceUnasked` | `INVARIANT` in `calls_three` shows how the id comes up; the rest is the sequence of section 9, from `slipped` | a Conference document of one whose call merely rings is followed (`webrtc.js:386`) | "Only is allowed if currently active call is in the list of conference participants" (`webrtc.js:393`) |
| `ForgottenSpareAnswered` | `INVARIANT` in `calls_two` with `Spec`, `Crashers = {}`, `Dials = {<<1, 2>>}`, 4 calls each (`MaxCalls`), `MaxActs = 8` | a ring overwrites `pickupTimeout` and leaves the timer in it to run (`uicontroller.js:520`), which ends a call that was answered since | "Kill timeout" (`uicontroller.js:473`) |
| `PickupSparesAll` | `INVARIANT` in `calls_three` | a call closed while it waited for the camera takes the Offer of the next one (`webrtc.js:806`): the pickup timer of an answered call keeps running (`uicontroller.js:520`) | |
| `LoneCallsEnd` | `PROPERTY` in `calls_two` with `Crashers = {}`, 1 call each, `MaxTrouble = 0` | a call closed by an error is removed before its deferred hang-up looks for it: no Bye is sent and the camera stays on (`peercall.js:195`, `webrtc.js:480`) | "To close a call, send a Bye" (`CHANNELING-API.txt:42`) |
| `WholeFile` | `files` with `Spec`, `Chunks = 4`, `MaxTrouble = 0` | `done` compares with `>=` (`filedownload.js:195`): a file whose last job is one chunk is shown as complete without it | `filedownload.js:151` compares with `>` |

The room's deadlock without a repeated Hello: a member leaves and says Hello for the same
room, or goes to another and comes back, while the job of somebody's user list waits in the
channel since before the leave.

## 12. Only model-checked, and not modelled

**Out of the prover's reach.** Liveness under fairness and `ENABLED` have no proof rules in
the installed backends, and the induction theorems over data take an operator as
parameter. All liveness here is TLC's. No module declares a RECURSIVE operator; sequences
are folded. What a fold *keeps* can be proved, though: `CallsProofs` and `BuddiesProofs` show
that a fold runs round by round, by well-founded induction over a set of numbers.

**Checked by TLC only.** All liveness. The
instances are small on purpose: each is the least that has the interleavings of its
hazards, and most were also tried one size larger, as noted.

**Not in the runs.** A few more formulas hold in the instance of their module's run, but are
not in its configuration, where a deeper one covers the same hazard: the type invariants
of `Buddies`, and those of `Connection`, `Pipeline`, `RoomClient`, `Calls` and
`FileTransfer`, which are proved (those of `Rooms` and `SessionRegistry` are conjuncts of
`IInv`), `InOrderOnce` and `SilenceNoticed` of `RoomClient`,
`SessionsKnown` (proved) and `ContactsStay` of `Buddies`, `RingingEnds` of `Calls`, `OneRequest` of `FileTransfer`, `ReplacedEnds` of
`SessionRegistry`. Add the name to the `.cfg` to check it (`RingingEnds` belongs to
`calls_two`).

**Not modelled.**

* Tokens, nonces, contact tokens: cryptography of vendored libraries; a nonce is made,
  compared and cleared in critical sections of one mutex.
* Image cache: two maps under one mutex on which nothing else depends.
* REST API, start-up, configuration: requests that read the other components, and I/O.
* Rooms of type Conference, the global room, `setNatsRoomType`, the limit of the user
  list; `Update` of a session with its revision; sessions faked for offline users in the
  registry.
* Screen sharing, presentations, YouTube: players and documents of third parties; what
  they send goes through connections like those of section 10.
* Layout, text, pictures, sounds of the user interface.
* Vendored code (`static/js/libs`, PDF and ODF viewers, Angular), which is most of the
  JavaScript; the browser's peer connections, NATS and the websocket library are
  external, modelled as the code uses them.
