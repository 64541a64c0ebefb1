------------------------------- MODULE Calls -------------------------------
(***************************************************************************)
(* Calls between browsers: static/js/mediastream/webrtc.js, peercall.js,   *)
(* peerconference.js and peerconnection.js, with what the user interface   *)
(* adds to them (controllers/uicontroller.js: pickup and ringer timeout,   *)
(* failed connections; controllers/statusmessagecontroller.js).            *)
(*                                                                         *)
(* A browser is one thread.  Its state is a record, and the functions of   *)
(* the code are functions from such a record to the next one; what they    *)
(* send is collected in "out".  Documents between two browsers pass the    *)
(* server in order; documents of different senders overtake each other.    *)
(*                                                                         *)
(* Time is abstracted: an armed timer may fire at any time, timers of one  *)
(* delay in the order in which they were armed.  The browser's             *)
(* own peer connection is external: it takes a description its signalling  *)
(* state allows and refuses any other, and the steps of one negotiation    *)
(* (create, set local description, send) are one step.  ICE candidates,    *)
(* tokens (screen sharing, files) and server-managed conference rooms are  *)
(* left out, and so is a reconnect to the server (webrtc.js:167, which     *)
(* sends the Conference again).  Nobody asks for auto-accept               *)
(* (uicontroller.js:507), and getUserMedia never throws.                   *)
(***************************************************************************)
EXTENDS Naturals, Sequences, FiniteSets, FiniteSetsExt, SequencesExt

CONSTANTS Peer,       \* session ids: numbers, compared by the code
          Nobody,     \* null
          Dials,      \* <<p, q>>: user p may call q
          Crashers,   \* browsers that may be killed
          MaxCalls,   \* calls the user of each browser makes or accepts: a bound
          MaxActs,    \* calls all users make or accept: a bound
          MaxTrouble  \* hang-ups of users, drops of ICE, changes of media: a bound

ASSUME CallsAssumption ==
    /\ Peer \subseteq Nat \ {0} /\ IsFiniteSet(Peer) /\ Nobody \notin Peer
    /\ Dials \subseteq Peer \X Peer /\ Crashers \subseteq Peer
    /\ MaxCalls \in [Peer -> Nat] /\ MaxActs \in Nat /\ MaxTrouble \in Nat

VARIABLES
    peer,     \* the state of each browser
    net,      \* documents from one browser to another, in order
    gone,     \* browsers that were killed
    trouble   \* used up of MaxTrouble

vars == <<peer, net, gone, trouble>>

NoConf == <<>>
NoCall == [n |-> 0]

\* PeerCall.  "n" tells the calls of a browser apart, "out" that doCall made it,
\* "auto" that its descriptions carry the conference id, "pc" is the signalling
\* state (none: no peer connection; done: both descriptions set), "far" the call
\* whose description was set last, "needs" that negotiationneeded is to fire, "ice"
\* the state of the connection.
NewCall(n, isOut, auto) ==
    [n |-> n, out |-> isOut, auto |-> auto, pc |-> "none", far |-> 0,
     needs |-> FALSE, ice |-> "new"]

\* WebRTC, its PeerConference and the user interface.
Idle(p, n) ==
    [me       |-> p,             \* api.id
     calls    |-> [q \in Peer |-> NoCall],
     count    |-> 0,             \* callsCount
     linked   |-> {},            \* connectedCalls
     lost     |-> {},            \* disconnectedCalls
     conf     |-> NoConf,        \* conference.id
     confs    |-> 0,             \* conferences
     media    |-> "off",         \* usermedia, usermediaReady
     pending  |-> <<>>,          \* pendingMediaCalls
     queues   |-> [q \in Peer |-> <<>>], \* msgQueues: Offers not answered yet
     tasks    |-> <<>>,          \* deferred functions
     ghosts   |-> {},            \* closed calls that got a peer connection
     status   |-> "waiting",     \* what the status line shows
     who      |-> Nobody,        \* incoming or dialing
     shown    |-> Nobody,        \* scope.peer
     isConf   |-> FALSE,         \* scope.conferenceObject is set
     pickup   |-> Nobody,        \* who the timer of pickupTimeout is for, while it runs
     pickups  |-> <<>>,          \* timers that run and pickupTimeout has forgotten
     dialer   |-> FALSE,         \* dialerEnabled
     ringer   |-> FALSE,         \* ringerTimeout, while it runs
     ringers  |-> 0,             \* timers that run and ringerTimeout has forgotten
     n        |-> n,             \* calls made so far
     acts     |-> 0,             \* used up of MaxCalls
     agreed   |-> FALSE,         \* history: the user called or accepted
     failed   |-> FALSE,         \* history: a call was closed by an error
     slipped  |-> FALSE,         \* history: got a conference id while ~agreed
     offerless |-> {},           \* history: whose call lost its Offer to a closed call
     out      |-> <<>>]          \* documents to send

Init ==
    /\ peer = [p \in Peer |-> Idle(p, 0)]
    /\ net = [pq \in Peer \X Peer |-> <<>>]
    /\ gone = {} /\ trouble = 0

Offer(n, conf)      == [type |-> "Offer", n |-> n, conf |-> conf]
Answer(n)           == [type |-> "Answer", n |-> n]
Bye(reason)         == [type |-> "Bye", reason |-> reason]
Conference(id, ids) == [type |-> "Conference", id |-> id, ids |-> ids]

Send(S, q, m) == [S EXCEPT !.out = Append(@, <<q, m>>)]

-----------------------------------------------------------------------------
(* The user interface. *)

\* "status" arms the ringer timer or cancels the last one.  One that is armed while
\* another runs replaces it in ringerTimeout; the other runs on.
Status(S, st, q) ==
    LET arms == st = "connecting" /\ S.dialer
    IN  [S EXCEPT !.status = st, !.who = q, !.ringer = arms,
                  !.ringers = IF arms /\ S.ringer THEN @ + 1 ELSE @]

HasCall(S, q) == S.calls[q] # NoCall
CallIds(S)    == {q \in Peer : HasCall(S, q)}

\* setConnectedStatus, updatePeerFromConference
Connected(S) ==
    LET ids  == CallIds(S)
        peerShown == IF ~S.isConf \/ S.shown \in ids THEN S.shown
                     ELSE IF ids = {} THEN Nobody ELSE Min(ids)
        T    == [S EXCEPT !.shown = peerShown]
    IN  IF peerShown = Nobody THEN T ELSE Status(T, "connected", Nobody)

\* The pickup timer goes on.
ShowCallOnly(S, q, call) == Connected([S EXCEPT !.dialer = ~call.out, !.shown = q])

\* "peercall" with a call: the pickup timer is cancelled and the line shows the call.
\* isOutgoing() asks for a "from", which only incoming calls have.
ShowCall(S, q, call) ==
    Connected([S EXCEPT !.pickup = Nobody, !.dialer = ~call.out, !.shown = q])

\* "peerconference"
ShowConference(S, isConf) == Connected([S EXCEPT !.isConf = isConf])

\* What ends the last call: "peercall" and "peerconference" without one, "stop".
ShowNoCall(S) ==
    Status([S EXCEPT !.pickup = Nobody, !.dialer = FALSE, !.shown = Nobody, !.isConf = FALSE],
           "waiting", Nobody)

\* "offer": ring.  A pickup timer that runs is not cancelled: pickupTimeout is set to
\* the new one, and nobody can cancel the old one any more.
Ring(S, q) ==
    [Status(S, "ringing", q) EXCEPT
        !.pickup = q,
        !.pickups = IF S.pickup = Nobody THEN @ ELSE Append(@, S.pickup)]

-----------------------------------------------------------------------------
(* PeerConference. *)

\* getCall
Gets(S, q) == HasCall(S, q) /\ q \notin S.lost

\* removeCall, and the close of the call.
RemoveCall(S, q) ==
    IF HasCall(S, q)
    THEN [S EXCEPT !.calls[q] = NoCall, !.count = @ - 1,
                   !.linked = @ \ {q}, !.lost = @ \ {q}]
    ELSE S

\* _addCallWithState: a call that is only disconnected makes room.
MayAdd(S, q) == ~HasCall(S, q) \/ q \in S.lost
Add(S, q, call) ==
    [RemoveCall(S, q) EXCEPT !.calls[q] = call, !.count = @ + 1, !.n = call.n,
                             !.offerless = @ \ {q}]

\* getOrCreateId
GetOrCreateId(S) ==
    IF S.conf = NoConf
    THEN [S EXCEPT !.confs = @ + 1, !.conf = <<S.me, S.confs + 1>>,
                   !.slipped = @ \/ ~S.agreed]
    ELSE S

\* pushUpdate
PushUpdate(S) ==
    LET T == GetOrCreateId(S)
        m == Conference(T.conf, S.linked \cup {S.me})
    IN  IF Cardinality(S.linked) > 1
        THEN FoldSet(LAMBDA q, U : Send(U, q, m), T, S.linked)
        ELSE S

-----------------------------------------------------------------------------
(* Hanging up. *)

\* The camera is left on.
StopKeepsCamera(S) ==
    ShowNoCall([S EXCEPT !.linked = {}, !.count = 0, !.conf = NoConf,
                         !.queues = [q \in Peer |-> <<>>],
                         !.agreed = FALSE, !.failed = FALSE,
                         !.slipped = FALSE, !.offerless = {}])

\* stop.  Its callers have removed all calls, conference.close() finds none.
\* pendingMediaCalls and disconnectedCalls stay as they are.
Stop(S) ==
    ShowNoCall([S EXCEPT !.linked = {}, !.count = 0, !.conf = NoConf,
                         !.media = "off", !.queues = [q \in Peer |-> <<>>],
                         !.agreed = FALSE, !.failed = FALSE,
                         !.slipped = FALSE, !.offerless = {}])

\* doHangup with an id
HangUp(S, reason, q) ==
    LET T    == RemoveCall(S, q)
        U    == IF reason = "receivedbye" THEN T ELSE Send(T, q, Bye(reason))
        left == CallIds(U)
    IN  IF ~HasCall(S, q) THEN S
        ELSE IF left = {} THEN Stop([U EXCEPT !.tasks = Append(@, [do |-> "done"])])
        ELSE IF Cardinality(left) = 1
             THEN LET r == CHOOSE r \in left : TRUE
                  IN  ShowCall(ShowConference([U EXCEPT !.conf = NoConf], FALSE), r, U.calls[r])
             ELSE U

\* doHangup without one
HangUpAll(S, reason) ==
    Stop(FoldSet(LAMBDA q, T : HangUp(T, reason, q), S, CallIds(S)))

\* A description could not be set: the call closes and thereby removes itself, the
\* hang-up is deferred.
Fail(S, q) ==
    [RemoveCall(S, q) EXCEPT !.tasks = Append(@, [do |-> "hangup", who |-> q]),
                         !.failed = TRUE]

-----------------------------------------------------------------------------
(* Offers, and starting calls. *)

\* setRemoteDescription with an Offer, then createAnswer and sendAnswer.
TakeOffer(S, q, m) ==
    LET call == S.calls[q]
        T    == IF call.auto THEN GetOrCreateId(S) ELSE S
    IN  CASE call.pc = "none"  -> S
          [] call.pc = "local" -> Fail(S, q)
          [] OTHER -> Send(ShowCall([T EXCEPT !.calls[q].pc = "done",
                                              !.calls[q].far = m.n,
                                              !.calls[q].needs = FALSE],
                                    q, call),
                           q, Answer(call.n))

Busy(S, q) == Send(S, q, Bye("busy"))

\* An Offer of one who is not in a call with us, and not of our conference.
Incoming(S, q, m) ==
    IF S.count > 0 /\ q \notin S.lost THEN Busy(S, q)
    ELSE IF ~MayAdd(S, q) THEN S
    ELSE Ring([Add(S, q, NewCall(S.n + 1, FALSE, FALSE)) EXCEPT !.queues[q] = <<m>> \o @], q)

\* processPendingMessages, before the handler of an Offer that finds no call.
\* What it would queue again is popped by the same loop and ignored.
TakeWaiting(T, q, m) ==
    IF Gets(T, q) THEN TakeOffer(T, q, m)
    ELSE [Incoming(T, q, m) EXCEPT !.queues[q] = <<>>, !.offerless = @ \cup {q}]
TakeQueue(S, q) ==
    FoldLeft(LAMBDA T, m : TakeWaiting(T, q, m), [S EXCEPT !.queues[q] = <<>>], S.queues[q])

\* maybeStart.  A call that was closed while it waited for the camera is started
\* all the same.
Alive(S, c) == S.calls[c.id].n = c.n
StartLive(S, c, auto) ==
    LET T == IF auto THEN S ELSE Status(S, "connecting", c.id)
        U == [T EXCEPT !.calls[c.id].pc = "stable", !.calls[c.id].needs = TRUE]
    IN  IF S.calls[c.id].pc # "none" THEN S
        ELSE IF c.out THEN U ELSE TakeQueue(U, c.id)
StartClosed(S, c, auto) ==
    LET T == IF auto THEN S ELSE Status(S, "connecting", c.id)
        U == [T EXCEPT !.ghosts = @ \cup {c}]
    IN  IF c \in S.ghosts THEN S
        ELSE IF c.out THEN U ELSE TakeQueue([U EXCEPT !.offerless = @ \cup {c.id}], c.id)
MaybeStart(S, c, auto) ==
    IF Alive(S, c) THEN StartLive(S, c, auto) ELSE StartClosed(S, c, auto)

Ref(S, q) == [id |-> q, n |-> S.calls[q].n, out |-> S.calls[q].out, auto |-> S.calls[q].auto]

\* _doCallUserMedia: the camera is asked for once, calls wait for it.
DoCallUserMedia(S, c) ==
    CASE S.media = "off"    -> Status([S EXCEPT !.media = "asking", !.pending = Append(@, c)],
                                      "waitforusermedia", c.id)
      [] S.media = "asking" -> [S EXCEPT !.pending = Append(@, c)]
      [] S.media = "ready"  -> MaybeStart(S, c, FALSE)

\* _doAutoStartCall, or the above when there is no camera to share.
AutoStart(S, c) ==
    CASE S.media = "off"    -> DoCallUserMedia(S, c)
      [] S.media = "asking" -> [S EXCEPT !.pending = Append(@, c)]
      [] S.media = "ready"  -> MaybeStart(S, c, TRUE)

\* doCall
DoCall(S, q, auto) ==
    LET c == NewCall(S.n + 1, TRUE, auto /\ S.count > 0)
        T == ShowCall(Add(S, q, c), q, c)
        U == IF auto THEN T ELSE Status(T, "connecting", q)
        V == IF S.count = 1 THEN ShowConference(U, TRUE) ELSE U
    IN  IF ~MayAdd(S, q) THEN S
        ELSE IF S.count > 0 THEN AutoStart(V, Ref(V, q)) ELSE DoCallUserMedia(V, Ref(V, q))

\* The Offer of a conference is accepted without asking.
AcceptOffer(S, q, m) ==
    LET T == [Add(S, q, NewCall(S.n + 1, FALSE, FALSE)) EXCEPT !.queues[q] = <<m>> \o @]
    IN  AutoStart(T, Ref(T, q))

\* The conference id is not compared.
ProcessAnyOffer(S, q, m) ==
    IF Gets(S, q) THEN TakeOffer(S, q, m)
    ELSE IF m.conf = NoConf THEN Incoming(S, q, m)
    ELSE IF MayAdd(S, q) THEN AcceptOffer(S, q, [m EXCEPT !.conf = NoConf])
    ELSE S

\* _processOffer
ProcessOffer(S, q, m) ==
    IF Gets(S, q) THEN TakeOffer(S, q, m)
    ELSE IF m.conf = NoConf THEN Incoming(S, q, m)
    ELSE IF S.conf # m.conf THEN Busy(S, q)
    ELSE IF MayAdd(S, q) THEN AcceptOffer(S, q, [m EXCEPT !.conf = NoConf])
    ELSE S

-----------------------------------------------------------------------------
(* The other documents. *)

\* _processAnswer
TakeAnswer(S, q, m) ==
    LET call == S.calls[q]
    IN  CASE ~Gets(S, q) \/ call.pc = "none" -> S
          [] Gets(S, q) /\ call.pc = "local" ->
                 [S EXCEPT !.calls[q].pc = "done", !.calls[q].far = m.n]
          [] OTHER -> Fail(S, q)

\* _processConference: call those of the list whose id is greater.
CallMembers(S, ids) ==
    FoldSet(LAMBDA q, T : DoCall(T, q, TRUE), S, {q \in ids : S.me < q})
TakeConference(S, q, m) ==
    LET ids  == CallIds(S)
        mine == Cardinality(ids) = 1 /\ ids = {q} /\ q \in m.ids
    IN  IF \/ mine
           \/ Cardinality(ids) > 1 /\ S.conf = m.id
        THEN ShowConference(CallMembers([S EXCEPT !.conf = m.id,
                                                  !.slipped = @ \/ ~S.agreed], m.ids), TRUE)
        ELSE S

\* processReceivedMessage
Process(S, q, m) ==
    CASE m.type = "Offer"      -> ProcessOffer(S, q, m)
      [] m.type = "Answer"     -> TakeAnswer(S, q, m)
      [] m.type = "Bye"        -> HangUp(S, "receivedbye", q)
      [] m.type = "Conference" -> TakeConference(S, q, m)

\* A failed connection is left to the peer.
StateChangeShows(S, t) ==
    IF t.ice = "connected"
    THEN Connected(IF t.who \in S.linked THEN S
                   ELSE PushUpdate([S EXCEPT !.linked = @ \cup {t.who}]))
    ELSE S

\* The deferred functions: statechange, for the conference and for the interface, and
\* the hang-up of an error.
StateChange(S, t) ==
    CASE t.ice = "connected" ->
             LET T == IF t.who \in S.linked THEN S
                      ELSE PushUpdate([S EXCEPT !.linked = @ \cup {t.who}])
             IN  Connected(T)
      [] t.ice = "failed"    -> HangUp(S, "failed", t.who)
      [] OTHER               -> S
Run(S, t) ==
    CASE t.do = "hangup" -> HangUp(S, "error", t.who)
      [] t.do = "state"  -> StateChange(S, t)
      [] t.do = "done"   -> Status(S, "waiting", Nobody)

-----------------------------------------------------------------------------
(* What happens. *)

\* Browser p goes from its state to S: what S sends is on its way.  The server drops
\* what is for a session that is gone.
Mail(q, out) ==
    FoldLeft(LAMBDA ms, e : IF e[1] = q THEN Append(ms, e[2]) ELSE ms, <<>>, out)
Become(p, S, read) ==
    /\ peer' = [peer EXCEPT ![p] = [S EXCEPT !.out = <<>>]]
    /\ net' = [pq \in Peer \X Peer |->
                  IF pq[1] = p /\ pq[2] \notin gone
                  THEN net[pq] \o Mail(pq[2], S.out)
                  ELSE IF pq = <<read, p>> THEN Tail(net[pq]) ELSE net[pq]]
    /\ UNCHANGED gone

Here(p) == p \notin gone
\* Deferred functions run before a user gets to do anything.
Users(p) == Here(p) /\ \A q \in Peer : peer[q].tasks = <<>>
MayAct(p) ==
    /\ peer[p].acts < MaxCalls[p]
    /\ MapThenSumSet(LAMBDA r : peer[r].acts, Peer) < MaxActs
Spend   == trouble < MaxTrouble /\ trouble' = trouble + 1

\* The user calls.
Dial(p, q) ==
    /\ Users(p) /\ p # q /\ <<p, q>> \in Dials
    /\ MayAct(p)
    /\ Become(p, DoCall([peer[p] EXCEPT !.acts = @ + 1, !.agreed = TRUE], q, FALSE), Nobody)
    /\ UNCHANGED trouble

\* doAccept, while the line says who is calling.
Accept(p) ==
    LET S == peer[p]
    IN  /\ Users(p) /\ S.status = "ringing" /\ Gets(S, S.who)
        /\ MayAct(p)
        /\ Become(p, DoCallUserMedia([S EXCEPT !.acts = @ + 1, !.agreed = TRUE], Ref(S, S.who)), Nobody)
        /\ UNCHANGED trouble

\* doReject, doHangup of the status line: all calls.
Reject(p) ==
    /\ Users(p) /\ Spend
    /\ peer[p].status \in {"ringing", "connected", "waitforusermedia"}
    /\ Become(p, HangUpAll(peer[p], IF peer[p].status = "ringing" THEN "reject" ELSE "none"), Nobody)

\* doAbort: the call that is dialed.
Abort(p) ==
    /\ Users(p) /\ Spend /\ peer[p].status = "connecting"
    /\ Become(p, HangUp(peer[p], "abort", peer[p].who), Nobody)

\* The user lets the browser use the camera, or does not: both start the calls.
Media(p) ==
    LET S == peer[p]
    IN  /\ Here(p) /\ S.media = "asking"
        /\ Become(p, FoldLeft(LAMBDA T, c : MaybeStart(T, c, FALSE),
                              [S EXCEPT !.media = "ready", !.pending = <<>>], S.pending), Nobody)
        /\ UNCHANGED trouble

\* negotiationneeded, sendOfferWhenNegotiationNeeded and createOffer
SendOffer(p, q) ==
    LET S == peer[p]
        T == IF S.calls[q].auto THEN GetOrCreateId(S) ELSE S
        m == Offer(S.calls[q].n, IF S.calls[q].auto THEN T.conf ELSE NoConf)
    IN  /\ Here(p) /\ HasCall(S, q) /\ S.calls[q].needs
        /\ S.calls[q].pc \in {"stable", "done"}
        /\ Become(p, Send([T EXCEPT !.calls[q].needs = FALSE, !.calls[q].pc = "local"], q, m), Nobody)
        /\ UNCHANGED trouble

\* The same of a call that is closed.
SendGhostOffer(p) ==
    LET S == peer[p]
    IN  \E c \in S.ghosts :
            LET T == IF c.auto THEN GetOrCreateId(S) ELSE S
            IN  /\ Here(p)
                /\ Become(p, Send([T EXCEPT !.ghosts = @ \ {c}], c.id,
                                  Offer(c.n, IF c.auto THEN T.conf ELSE NoConf)), Nobody)
                /\ UNCHANGED trouble

\* The user mutes: the local stream is replaced at every peer connection.
Mute(p) ==
    /\ Users(p) /\ Spend /\ peer[p].media = "ready"
    /\ \E q \in Peer : peer[p].calls[q].n > 0 /\ peer[p].calls[q].pc # "none"
    /\ Become(p, [peer[p] EXCEPT !.calls = [q \in Peer |->
                    IF @[q] # NoCall /\ @[q].pc # "none" THEN [@[q] EXCEPT !.needs = TRUE] ELSE @[q]]],
              Nobody)

Receive(q, p) ==
    /\ Here(p) /\ net[<<q, p>>] # <<>>
    /\ Become(p, Process(peer[p], q, Head(net[<<q, p>>])), q)
    /\ UNCHANGED trouble

Deferred(p) ==
    /\ Here(p) /\ peer[p].tasks # <<>>
    /\ Become(p, Run([peer[p] EXCEPT !.tasks = Tail(@)], Head(peer[p].tasks)), Nobody)
    /\ UNCHANGED trouble

\* The oldest pickup timer: a forgotten one is older than the one of pickupTimeout.
PickupTimeout(p) ==
    LET S == peer[p]
        q == IF S.pickups = <<>> THEN S.pickup ELSE Head(S.pickups)
        T == IF S.pickups = <<>> THEN [S EXCEPT !.pickup = Nobody]
             ELSE [S EXCEPT !.pickups = Tail(@)]
    IN  /\ Here(p) /\ q # Nobody
        /\ Become(p, HangUp(T, "pickuptimeout", q), Nobody)
        /\ UNCHANGED trouble

\* The oldest ringer timer of who calls.
RingerTimeout(p) ==
    LET S == peer[p]
        T == IF S.ringers = 0 THEN [S EXCEPT !.ringer = FALSE]
             ELSE [S EXCEPT !.ringers = @ - 1]
    IN  /\ Here(p) /\ (S.ringer \/ S.ringers > 0)
        /\ Become(p, HangUpAll(T, "ringertimeout"), Nobody)
        /\ UNCHANGED trouble

\* Both ends have the description of each other.
Negotiated(p, q) ==
    LET a == peer[p].calls[q]
        b == peer[q].calls[p]
    IN  /\ p \notin gone /\ q \notin gone
        /\ a # NoCall /\ b # NoCall
        /\ a.pc # "none" /\ b.pc # "none"
        /\ a.far = b.n /\ b.far = a.n

\* The connection of a call comes up, is interrupted or is given up: the browser
\* connects what is negotiated and finds out about what is not.
SetIce(p, q, ice) ==
    LET S == peer[p]
        T == [S EXCEPT !.calls[q].ice = ice,
                       !.tasks = Append(@, [do |-> "state", ice |-> ice, who |-> q])]
    IN  Become(p, IF ice = "connected" THEN T ELSE [T EXCEPT !.lost = @ \cup {q}], Nobody)
IceConnects(p, q) ==
    /\ Negotiated(p, q) /\ peer[p].calls[q].ice \in {"new", "disconnected"}
    /\ SetIce(p, q, "connected") /\ UNCHANGED trouble
IceDrops(p, q) ==
    /\ Negotiated(p, q) /\ peer[p].calls[q].ice = "connected" /\ Spend
    /\ SetIce(p, q, "disconnected")
IceFails(p, q) ==
    /\ Here(p) /\ HasCall(peer[p], q) /\ peer[p].calls[q].far # 0
    /\ ~Negotiated(p, q) /\ peer[p].calls[q].ice # "failed"
    /\ net[<<p, q>>] = <<>> /\ net[<<q, p>>] = <<>>
    /\ SetIce(p, q, "failed") /\ UNCHANGED trouble

\* A browser is killed; the server lets the others know nothing about calls.
Crash(p) ==
    /\ Here(p) /\ p \in Crashers
    /\ gone' = gone \cup {p}
    /\ peer' = [peer EXCEPT ![p] = Idle(p, 0)]
    /\ net' = [pq \in Peer \X Peer |-> IF pq[2] = p THEN <<>> ELSE net[pq]]
    /\ UNCHANGED trouble

Next ==
    \/ \E p, q \in Peer : \/ Dial(p, q) \/ SendOffer(p, q) \/ Receive(q, p)
                          \/ IceConnects(p, q) \/ IceDrops(p, q) \/ IceFails(p, q)
    \/ \E p \in Peer : \/ Accept(p) \/ Reject(p) \/ Abort(p) \/ Media(p) \/ Mute(p)
                       \/ SendGhostOffer(p) \/ Deferred(p) \/ PickupTimeout(p)
                       \/ RingerTimeout(p) \/ Crash(p)

Spec == Init /\ [][Next]_vars

-----------------------------------------------------------------------------
(* Documents arrive, timers fire, deferred functions run and browsers      *)
(* negotiate; users need do nothing.                                       *)

Fairness ==
    \A p, q \in Peer :
        /\ WF_vars(Receive(q, p)) /\ WF_vars(SendOffer(p, q))
        /\ WF_vars(IceConnects(p, q)) /\ WF_vars(IceFails(p, q))
        /\ WF_vars(Deferred(p)) /\ WF_vars(PickupTimeout(p)) /\ WF_vars(RingerTimeout(p))

FairSpec == Spec /\ Fairness

-----------------------------------------------------------------------------
(* What is true of calls. *)

\* The browser's tables agree: callsCount is the number of calls, whatever closes,
\* fails or is replaced (peerconference.js:83, 128).
TypeOK ==
    /\ \A p \in Peer :
         LET S == peer[p]
         IN  /\ S.media \in {"off", "asking", "ready"}
             /\ S.count = Cardinality(CallIds(S))
             /\ S.linked \cup S.lost \subseteq Peer
             /\ S.out = <<>>
             /\ \A q \in CallIds(S) :
                  /\ S.calls[q].pc \in {"none", "stable", "local", "done"}
                  /\ S.calls[q].ice \in {"new", "connected", "disconnected", "failed"}
    /\ gone \subseteq Crashers /\ trouble <= MaxTrouble

\* The camera is only on while there is a call.  The exception is the call that was
\* closed by an error: its deferred hang-up finds nothing to hang up (webrtc.js:480).
CameraOffWhenIdle ==
    \A p \in Peer : peer[p].media # "off" => peer[p].count > 0 \/ peer[p].failed

\* The camera is not asked for, or used, unless the user called somebody or accepted a
\* call since it was last off: conferences are joined without asking only from within a
\* call (webrtc.js:309, CHANNELING-API.txt:921).  The exception is a conference id that
\* got in without consent: see NoConferenceUnasked.
CameraByConsent ==
    \A p \in Peer : peer[p].media # "off" => peer[p].agreed \/ peer[p].slipped

\* The timer of pickupTimeout, which ends the call with who rings, is not left to run when
\* that call is answered (uicontroller.js:474).  Two exceptions: timers that another ring
\* made pickupTimeout forget run on whatever happens (uicontroller.js:520); and a call whose
\* Offer was taken for an older, closed call of the same session, which waited for the camera
\* (webrtc.js:806, 825), is not answered but makes an Offer itself, and the Answer to that
\* leaves the timer alone.
PickupSparesAnswered ==
    \A p, q \in Peer :
        peer[p].pickup = q /\ HasCall(peer[p], q) /\ q \notin peer[p].offerless
        => peer[p].calls[q].far = 0

\* Not satisfied: the same of forgotten timers, and without the other exception: "Kill
\* timeout" (uicontroller.js:473) leaves some to run.
ForgottenSpareAnswered ==
    \A p \in Peer : \A q \in Range(peer[p].pickups) \ peer[p].offerless :
        HasCall(peer[p], q) => peer[p].calls[q].far = 0
PickupSparesAll ==
    \A p, q \in Peer : peer[p].pickup = q /\ HasCall(peer[p], q) => peer[p].calls[q].far = 0

\* Not satisfied: "Only is allowed if currently active call is in the list of conference
\* participants" (webrtc.js:393).  The call need not be active: a Conference document of
\* one who rings is followed, and the camera is asked for before the user did anything.
\* He sends it when he still has a connection that ended in connectedCalls (README).
NoConferenceUnasked == \A p \in Peer : ~peer[p].slipped

\* A call that is answered and whose other end is gone, or belongs to another call,
\* ends or is put right: by a Bye, or because the connection fails (uicontroller.js:636).
Stranded(p, q) == HasCall(peer[p], q) /\ peer[p].calls[q].far # 0 /\ ~Negotiated(p, q)
StrandedCallsEnd == \A p, q \in Peer : Stranded(p, q) ~> ~Stranded(p, q)

\* It does not ring for ever (uicontroller.js:520).
Rings(p) == peer[p].status = "ringing"
RingingEnds == \A p \in Peer : Rings(p) ~> ~Rings(p)

\* Not satisfied: "To close a call, send a Bye document" (CHANNELING-API.txt:42): whoever has a call
\* with one who has none with it gets to know.  A call that fails by itself sends no Bye
\* (webrtc.js:480-483, peercall.js:195).
Lone(p, q) == p \notin gone /\ HasCall(peer[p], q) /\ ~HasCall(peer[q], p)
LoneCallsEnd == \A p, q \in Peer : Lone(p, q) ~> ~Lone(p, q)
=============================================================================
