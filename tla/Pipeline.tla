------------------------------ MODULE Pipeline ------------------------------
(***************************************************************************)
(* Pipelines carry the call documents of a session to one that has no      *)
(* client, if a sink stands for it: pipeline.go, pipeline_manager.go, the  *)
(* sinks of bus_manager.go and Unicast of hub.go.                          *)
(*                                                                         *)
(* Goroutines handle documents one after the other: the ReadPump of a      *)
(* caller, and the receiver of a pipeline, which acts for the session the  *)
(* pipeline leads to.  The NATS callbacks create and close the session of  *)
(* a sink; a ticker cleans up.  A critical section that takes no other     *)
(* lock is one step.  The manager's mutex is held while a pipeline's is    *)
(* taken (GetPipeline, cleanup), and the other way round (FlushOutgoing).  *)
(***************************************************************************)
EXTENDS Integers, Sequences, FiniteSets

CONSTANTS Caller,        \* sessions with a client
          BusSession,    \* sessions that sessionCreate makes for the one bus id
          Faked,         \* sessions faked for users who are offline
          MaxDocs,       \* state space limiter: documents the callers send
          MaxIn,         \* state space limiter: documents that come in by sinks
          Leaving,       \* state space limiter: callers whose connection ends
          None, Cleaner  \* no session, sink, pipeline or holder; the goroutine of start()

ASSUME SessionAssumption == /\ Caller \cap (BusSession \cup Faked) = {}
                            /\ BusSession \cap Faked = {}
ASSUME LimitAssumption == MaxDocs \in Nat /\ MaxIn \in Nat

Callee    == BusSession \cup Faked
Session   == Caller \cup Callee
Sink      == BusSession \* a sink goes by the first session it is made for
Pipe      == 1 .. (MaxDocs + MaxIn * Cardinality(Sink)) \* one for each time a document is handled
Goroutine == Caller \cup Pipe \* the receiver of a pipeline goes by its number

\* Offer, Answer and Candidate are alike here.
Doc == [from : Session, to : Session, type : {"call", "bye"}]

\* Callers are not numbers, and nobody and the ticker are none of the others.
ASSUME NameAssumption == /\ Caller \cap Pipe = {}
                         /\ None \notin Session \cup Pipe \cup Doc
                         /\ Cleaner \notin Goroutine \cup {None}

VARIABLES
    pipelineTable, \* <<from, to>> -> the pipeline of that id
    pipe,          \* the pipelines made so far
    sinkTable,     \* sessionSinkTable: session id -> sink
    busSession,    \* sessionByBusIDTable of the bus id
    defaultSinkID,
    isOpen,        \* the sinks that are made and not closed
    bound,         \* sink -> the pipeline whose recvQueue gets what comes in by the sink
    written,       \* what each sink was given: pairs of a pipeline and a place in its data
    online,        \* callers whose client the hub has
    plmLock,       \* who holds the mutex of the manager for writing
    pc, doc, cur, sinkVar, place, \* locals of a goroutine; place: where Add put the document
    cleaning,      \* pipelines cleanup has not looked at yet
    looking,       \* the pipeline it has come to
    found,         \* that one is expired
    made, sent, received          \* sessions made, documents sent and come in

pvars == <<pipelineTable, pipe>>
svars == <<sinkTable, busSession, defaultSinkID, isOpen, bound, written>>
gvars == <<pc, doc, cur, sinkVar, place>>
cvars == <<cleaning, looking, found>>
mvars == <<made, sent, received>>
vars  == <<pvars, svars, gvars, cvars, mvars, online, plmLock>>

NewPipeline(from, to) ==
    [id |-> <<from, to>>, expires |-> "later", data |-> 0, sink |-> None, to |-> None,
     queue |-> <<>>, closed |-> FALSE, lock |-> None, since |-> 0]

Init ==
    /\ pipelineTable = [id \in Session \X Session |-> None]
    /\ pipe = <<>>
    /\ sinkTable = [s \in Session |-> None] /\ busSession = None /\ defaultSinkID = None
    /\ isOpen = {} /\ bound = [k \in Sink |-> None] /\ written = [k \in Sink |-> <<>>]
    /\ online = Caller /\ plmLock = None
    /\ pc = [g \in Goroutine |-> "idle"] /\ doc = [g \in Goroutine |-> None]
    /\ cur = [g \in Goroutine |-> None] /\ sinkVar = [g \in Goroutine |-> None]
    /\ place = [g \in Goroutine |-> 0]
    /\ cleaning = {} /\ looking = None /\ found = FALSE
    /\ made = {} /\ sent = 0 /\ received = 0

-----------------------------------------------------------------------------
(* The steps of a goroutine that handles a document.                       *)

Goto(g, label) == pc' = [pc EXCEPT ![g] = label]
Update(p, f)   == pipe' = [pipe EXCEPT ![p] = f]
Free(p)        == pipe[p].lock = None
Refreshed(P)   == [P EXCEPT !.expires = "later"]

\* Close of a pipeline; its data stay.
Closed(P) == IF P.closed THEN P ELSE [P EXCEPT !.expires = "nil", !.sink = None, !.closed = TRUE]

Done(g) == /\ pc' = [pc EXCEPT ![g] = "idle"]
           /\ doc' = [doc EXCEPT ![g] = None] /\ cur' = [cur EXCEPT ![g] = None]
           /\ sinkVar' = [sinkVar EXCEPT ![g] = None] /\ place' = [place EXCEPT ![g] = 0]

\* A document has been passed on: Bye goes on to Close.
Passed(g) == IF doc[g].type = "bye"
             THEN Goto(g, "close") /\ UNCHANGED <<doc, cur, sinkVar, place>>
             ELSE Done(g)

\* A caller sends a document; ReadPump calls OnIncoming.
Send(c, to, type) ==
    /\ pc[c] = "idle" /\ c \in online /\ sent < MaxDocs
    /\ to \in made \cup Faked
    /\ sent' = sent + 1
    /\ doc' = [doc EXCEPT ![c] = [from |-> c, to |-> to, type |-> type]]
    /\ Goto(c, "get")
    /\ UNCHANGED <<pvars, svars, cvars, cur, sinkVar, place, made, received, online, plmLock>>

\* GetPipeline of an id the table does not have; Pipe is large enough never to run out.
GetNew(g) ==
    LET id == <<doc[g].from, doc[g].to>> IN
    /\ pc[g] = "get" /\ plmLock = None /\ pipelineTable[id] = None
    /\ Len(pipe) + 1 \in Pipe
    /\ pipe' = Append(pipe, NewPipeline(doc[g].from, doc[g].to))
    /\ pipelineTable' = [pipelineTable EXCEPT ![id] = Len(pipe')]
    /\ cur' = [cur EXCEPT ![g] = Len(pipe')]
    /\ Goto(g, "unicast")
    /\ UNCHANGED <<svars, cvars, mvars, doc, sinkVar, place, online, plmLock>>

\* GetPipeline of one it has: Refresh is called with the lock of the manager.
GetOld(g) ==
    LET p == pipelineTable[<<doc[g].from, doc[g].to>>] IN
    /\ pc[g] = "get" /\ plmLock = None /\ p # None
    /\ cur' = [cur EXCEPT ![g] = p]
    /\ plmLock' = g
    /\ Goto(g, "refresh")
    /\ UNCHANGED <<pvars, svars, cvars, mvars, doc, sinkVar, place, online>>

\* Mutant of Refresh: the manager's lock is not given back.
RefreshKeepsLock(g) ==
    /\ pc[g] = "refresh" /\ Free(cur[g])
    /\ Update(cur[g], Refreshed(pipe[cur[g]]))
    /\ Goto(g, "unicast")
    /\ UNCHANGED <<svars, cvars, mvars, pipelineTable, doc, cur, sinkVar, place, online, plmLock>>

Refresh(g) ==
    /\ pc[g] = "refresh" /\ Free(cur[g])
    /\ Update(cur[g], Refreshed(pipe[cur[g]]))
    /\ plmLock' = None
    /\ Goto(g, "unicast")
    /\ UNCHANGED <<svars, cvars, mvars, pipelineTable, doc, cur, sinkVar, place, online>>

\* Unicast of the hub, to somebody who has a client.
UnicastClient(g) ==
    /\ pc[g] = "unicast" /\ doc[g].to \in online
    /\ Passed(g)
    /\ UNCHANGED <<pvars, svars, cvars, mvars, online, plmLock>>

\* FindSinkAndSession: the sink of the session itself, or the default one for a session that
\* the session manager knows, which are the faked ones.
FindSink(to) ==
    IF sinkTable[to] # None THEN sinkTable[to]
    ELSE IF defaultSinkID # None /\ to \in Faked THEN sinkTable[defaultSinkID]
    ELSE None

\* Mutants of Find: the session is not kept; who attaches does not write.
FindKeepsNoSession(g) ==
    LET p == cur[g]
        P == [pipe[p] EXCEPT !.lock = None]
        k == FindSink(doc[g].to)
    IN
    /\ plmLock = None
    /\ sinkVar' = [sinkVar EXCEPT ![g] = k]
    /\ IF k = None \/ P.sink # None THEN Update(p, P) /\ Goto(g, "add")
       ELSE Update(p, [P EXCEPT !.sink = k, !.since = P.data + 1]) /\ Goto(g, "bind")

FindOnlyAttaches(g) ==
    LET p == cur[g]
        P == [pipe[p] EXCEPT !.lock = None]
        k == FindSink(doc[g].to)
        Q == [P EXCEPT !.to = doc[g].to]
    IN
    /\ plmLock = None
    /\ sinkVar' = [sinkVar EXCEPT ![g] = None]
    /\ IF k = None THEN Update(p, P)
       ELSE IF P.sink # None THEN Update(p, Q)
       ELSE Update(p, [Q EXCEPT !.sink = k, !.since = P.data + 1])
    /\ Goto(g, "add")

\* An attached pipeline stays with its sink, but the document goes to the one that was found.
Find(g) ==
    LET p == cur[g]
        P == [pipe[p] EXCEPT !.lock = None]
        k == FindSink(doc[g].to)
        Q == [P EXCEPT !.to = doc[g].to]
    IN
    /\ plmLock = None
    /\ sinkVar' = [sinkVar EXCEPT ![g] = k]
    /\ IF k = None THEN Update(p, P) /\ Goto(g, "add")
       ELSE IF P.sink # None THEN Update(p, Q) /\ Goto(g, "add")
       ELSE Update(p, [Q EXCEPT !.sink = k, !.since = P.data + 1]) /\ Goto(g, "bind")

\* Unicast to somebody who has none: FlushOutgoing takes the lock of the pipeline, and looks
\* for a sink with it if it knows none.
FlushOutgoing(g) ==
    LET p == cur[g] IN
    /\ pc[g] = "unicast" /\ doc[g].to \notin online /\ Free(p)
    /\ \/ /\ pipe[p].sink \in isOpen
          /\ sinkVar' = [sinkVar EXCEPT ![g] = pipe[p].sink]
          /\ Goto(g, "add") /\ UNCHANGED pipe
       \/ /\ pipe[p].sink \notin isOpen
          /\ Find(g)
       \/ /\ pipe[p].sink \notin isOpen /\ plmLock # None
          /\ Update(p, [pipe[p] EXCEPT !.lock = g])
          /\ Goto(g, "find") /\ UNCHANGED sinkVar
    /\ UNCHANGED <<svars, cvars, mvars, pipelineTable, doc, cur, place, online, plmLock>>

\* It had to wait for the lock of the manager.
FindAtLast(g) ==
    /\ pc[g] = "find" /\ Find(g)
    /\ UNCHANGED <<svars, cvars, mvars, pipelineTable, doc, cur, place, online, plmLock>>

\* BindRecvChan: the sink's subscription moves from the pipeline that had it.
BindRecvChan(g) ==
    /\ pc[g] = "bind"
    /\ bound' = [bound EXCEPT ![sinkVar[g]] = cur[g]]
    /\ Goto(g, "add")
    /\ UNCHANGED <<pvars, cvars, mvars, sinkTable, busSession, defaultSinkID, isOpen, written,
                   doc, cur, sinkVar, place, online, plmLock>>

\* Add keeps the document for the REST API, and has it expire anew.
Add(g) ==
    LET p == cur[g] IN
    /\ pc[g] = "add" /\ Free(p)
    /\ Update(p, Refreshed([pipe[p] EXCEPT !.data = @ + 1]))
    /\ IF sinkVar[g] = None
       THEN Passed(g)
       ELSE /\ place' = [place EXCEPT ![g] = pipe[p].data + 1] /\ Goto(g, "write")
            /\ UNCHANGED <<doc, cur, sinkVar>>
    /\ UNCHANGED <<svars, cvars, mvars, pipelineTable, online, plmLock>>

\* Write of the sink: nothing once it is closed.
Write(g) ==
    LET k == sinkVar[g] IN
    /\ pc[g] = "write"
    /\ written' = IF k \in isOpen
                  THEN [written EXCEPT ![k] = Append(@, <<cur[g], place[g]>>)] ELSE written
    /\ Passed(g)
    /\ UNCHANGED <<pvars, cvars, mvars, sinkTable, busSession, defaultSinkID, isOpen, bound,
                   online, plmLock>>

\* The Bye closes the pipeline, which stays in the table.
Close(g) ==
    /\ pc[g] = "close" /\ Free(cur[g])
    /\ Update(cur[g], Closed(pipe[cur[g]]))
    /\ Done(g)
    /\ UNCHANGED <<svars, cvars, mvars, pipelineTable, online, plmLock>>

-----------------------------------------------------------------------------
(* What comes in by a sink, and the receiver of a pipeline.                *)

\* All sinks of a bus id have the same subject, and every subscription to it gets the document.
\* The NATS library puts it in the channel; of a closed channel it recovers, and drops the
\* subscription.
Incoming(to, type) ==
    LET Hears(p) == ~pipe[p].closed /\ \E k \in Sink : bound[k] = p IN
    /\ received < MaxIn /\ \E k \in Sink : bound[k] # None
    /\ received' = received + 1
    /\ pipe' = [p \in DOMAIN pipe |->
                   IF Hears(p)
                   THEN [pipe[p] EXCEPT !.queue = Append(@, [to |-> to, type |-> type])]
                   ELSE pipe[p]]
    /\ bound' = [k \in Sink |-> IF bound[k] # None /\ Hears(bound[k]) THEN bound[k] ELSE None]
    /\ UNCHANGED <<gvars, cvars, pipelineTable, sinkTable, busSession, defaultSinkID, isOpen,
                   written, made, sent, online, plmLock>>

\* The receiver handles a document for ToSession(); without one, the handler panics.
Receive(p) ==
    /\ p \in DOMAIN pipe /\ pc[p] = "idle" /\ Free(p)
    /\ pipe[p].queue # <<>>
    /\ Update(p, [pipe[p] EXCEPT !.queue = Tail(@)])
    /\ LET d == Head(pipe[p].queue) IN
       IF pipe[p].to = None
       THEN Goto(p, "panicked") /\ UNCHANGED doc
       ELSE /\ doc' = [doc EXCEPT ![p] = [from |-> pipe[p].to, to |-> d.to, type |-> d.type]]
            /\ Goto(p, "get")
    /\ UNCHANGED <<svars, cvars, mvars, pipelineTable, cur, sinkVar, place, online, plmLock>>

ReceiveEnds(p) ==
    /\ p \in DOMAIN pipe /\ pc[p] = "idle"
    /\ pipe[p].closed /\ pipe[p].queue = <<>>
    /\ Goto(p, "ended")
    /\ UNCHANGED <<pvars, svars, cvars, mvars, doc, cur, sinkVar, place, online, plmLock>>

-----------------------------------------------------------------------------
(* The callbacks of the bus, the end of a connection, time, and cleanup.   *)

\* A sink is kept for the next session of the same bus id.
SessionCreate(s, asDefault) ==
    LET old  == busSession
        kept == IF old = None THEN None ELSE sinkTable[old]
    IN
    /\ plmLock = None /\ s \in BusSession \ made /\ (asDefault => Faked # {})
    /\ LET k == IF kept = None THEN s ELSE kept IN
          /\ isOpen' = isOpen \cup {k}
          /\ sinkTable' = [t \in Session |-> IF t = s THEN k
                                             ELSE IF t = old THEN None ELSE sinkTable[t]]
    /\ busSession' = s /\ made' = made \cup {s}
    /\ defaultSinkID' = IF asDefault THEN s ELSE defaultSinkID
    /\ UNCHANGED <<pvars, gvars, cvars, bound, written, sent, received, online, plmLock>>

\* The sink is closed, which ends its subscription.
SessionClose ==
    LET k == sinkTable[busSession] IN
    /\ plmLock = None /\ busSession # None
    /\ isOpen' = isOpen \ {k} /\ bound' = [bound EXCEPT ![k] = None]
    /\ sinkTable' = [sinkTable EXCEPT ![busSession] = None]
    /\ busSession' = None
    /\ UNCHANGED <<pvars, gvars, cvars, mvars, defaultSinkID, written, online, plmLock>>

Disconnect(c) ==
    /\ c \in online \cap Leaving /\ pc[c] = "idle"
    /\ online' = online \ {c}
    /\ UNCHANGED <<pvars, svars, gvars, cvars, mvars, plmLock>>

\* The time a pipeline was given runs out: 30 or 60 seconds, more than a handler needs that
\* is not waiting for a lock for ever.
TimePasses(p) ==
    /\ p \in DOMAIN pipe /\ pipe[p].expires = "later"
    /\ \A g \in Goroutine : cur[g] # p
    /\ Update(p, [pipe[p] EXCEPT !.expires = "past"])
    /\ UNCHANGED <<svars, gvars, cvars, mvars, pipelineTable, online, plmLock>>

InTable == {pipelineTable[id] : id \in DOMAIN pipelineTable} \ {None}
Expired(p) == pipe[p].expires # "later"

\* The ticker, when there is something to clean up: cleanup takes the lock of the manager, then
\* that of one pipeline after the other.
Cleanup ==
    /\ plmLock = None /\ \E p \in InTable : Expired(p)
    /\ plmLock' = Cleaner /\ cleaning' = InTable
    /\ UNCHANGED <<pvars, svars, gvars, mvars, looking, found, online>>

\* It comes to a pipeline.  If that is locked it waits, and for ever: whoever keeps the lock of
\* a pipeline for more than a step waits for the manager's.
CleanupNext(p) ==
    /\ p \in cleaning /\ looking = None
    /\ cleaning' = cleaning \ {p}
    /\ looking' = IF Free(p) /\ ~Expired(p) THEN None ELSE p
    /\ found' = (Free(p) /\ Expired(p))
    /\ UNCHANGED <<pvars, svars, gvars, mvars, online, plmLock>>

\* Mutant of CleanupClose: the pipeline is only dropped.
CleanupDrops ==
    /\ found /\ Free(looking)
    /\ pipelineTable' = [pipelineTable EXCEPT ![pipe[looking].id] = None]
    /\ looking' = None /\ found' = FALSE
    /\ UNCHANGED <<pipe, svars, gvars, mvars, cleaning, online, plmLock>>

CleanupClose ==
    /\ found /\ Free(looking)
    /\ Update(looking, Closed(pipe[looking]))
    /\ pipelineTable' = [pipelineTable EXCEPT ![pipe[looking].id] = None]
    /\ looking' = None /\ found' = FALSE
    /\ UNCHANGED <<svars, gvars, mvars, cleaning, online, plmLock>>

CleanupEnds ==
    /\ plmLock = Cleaner /\ cleaning = {} /\ looking = None
    /\ plmLock' = None
    /\ UNCHANGED <<pvars, svars, gvars, cvars, mvars, online>>

-----------------------------------------------------------------------------
Step(g) == \/ GetNew(g) \/ GetOld(g) \/ Refresh(g) \/ UnicastClient(g) \/ FlushOutgoing(g)
           \/ FindAtLast(g) \/ BindRecvChan(g) \/ Add(g) \/ Write(g) \/ Close(g)

Receiver(p) == Step(p) \/ Receive(p) \/ ReceiveEnds(p)

CleanupStep ==
    \/ Cleanup \/ CleanupClose \/ CleanupEnds
    \/ \E p \in Pipe : CleanupNext(p)

Clients ==
    \/ \E c \in Caller : Disconnect(c)
    \/ \E c \in Caller, to \in Callee, type \in {"call", "bye"} : Send(c, to, type)

Bus ==
    \/ \E to \in Caller, type \in {"call", "bye"} : Incoming(to, type)
    \/ \E s \in BusSession, asDefault \in BOOLEAN : SessionCreate(s, asDefault)
    \/ SessionClose

Server ==
    \/ \E c \in Caller : Step(c)
    \/ \E p \in Pipe : Receiver(p) \/ TimePasses(p)
    \/ CleanupStep

Next == Clients \/ Bus \/ Server

Spec == Init /\ [][Next]_vars

\* Goroutines run, the ticker ticks and time passes: as long as the server can do something, it
\* does.  That is enough, as no step undoes another: documents are limited, and a clean-up
\* starts when there is something to clean up.  Nobody has to send, close or disconnect.
Fairness == WF_vars(Server)

FairSpec == Spec /\ Fairness

-----------------------------------------------------------------------------
(* Properties.                                                             *)

PipelineRecord == [id : Session \X Session, expires : {"later", "past", "nil"}, data : Nat,
                   sink : Sink \cup {None}, to : Callee \cup {None},
                   queue : Seq([to : Caller, type : {"call", "bye"}]), closed : BOOLEAN,
                   lock : Goroutine \cup {None}, since : Nat]

\* Types; what is bound and attached are pipelines and sinks.
TypeOK ==
    /\ pipelineTable \in [Session \X Session -> Pipe \cup {None}]
    /\ pipe \in Seq(PipelineRecord) /\ DOMAIN pipe \subseteq Pipe
    /\ sinkTable \in [Session -> Sink \cup {None}]
    /\ busSession \in BusSession \cup {None} /\ defaultSinkID \in BusSession \cup {None}
    /\ isOpen \subseteq Sink /\ bound \in [Sink -> Pipe \cup {None}]
    /\ written \in [Sink -> Seq(Pipe \X Nat)]
    /\ online \subseteq Caller /\ plmLock \in Goroutine \cup {Cleaner, None}
    /\ pc \in [Goroutine -> {"idle", "get", "refresh", "unicast", "find", "bind", "add",
                             "write", "close", "panicked", "ended"}]
    /\ doc \in [Goroutine -> Doc \cup {None}] /\ cur \in [Goroutine -> Pipe \cup {None}]
    /\ sinkVar \in [Goroutine -> Sink \cup {None}] /\ place \in [Goroutine -> Nat]
    /\ cleaning \subseteq Pipe /\ looking \in Pipe \cup {None} /\ found \in BOOLEAN
    /\ made \subseteq BusSession /\ sent \in 0 .. MaxDocs /\ received \in 0 .. MaxIn

Handling(g) == pc[g] \notin {"idle", "panicked", "ended"}

\* The receiver always has a session to act for, whichever pipeline the sink's subscription
\* was moved to and back (pipeline.go:75).
ReceiverHasSession == \A p \in DOMAIN pipe : pc[p] # "panicked"

\* What was added since a pipeline was attached has all gone to its sink, once and in order,
\* while the sink is open and nobody is at it (pipeline.go:188-243).
SinkMissesNothing ==
    \A p \in DOMAIN pipe :
        LET k     == pipe[p].sink
            since == pipe[p].since
            Ours  == {i \in DOMAIN written[k] : written[k][i][1] = p /\ written[k][i][2] >= since}
        IN  k \in isOpen /\ (\A g \in Goroutine : cur[g] # p) =>
                /\ {written[k][i][2] : i \in Ours} = since .. pipe[p].data
                /\ \A i, j \in Ours : i < j => written[k][i][2] < written[k][j][2]

\* One holds the manager's lock and waits for a pipeline's, the other the other way round:
\* FlushOutgoing against cleanup or GetPipeline.  Nothing ever ends this.
Inverted ==
    \/ looking # None /\ ~Free(looking)
    \/ \E g \in Goroutine : pc[g] = "refresh" /\ ~Free(cur[g])

\* Every document that is handled is done with, but for the inversion of the locks
\* (pipeline.go:195-224, pipeline_manager.go:94, 196-206).
HandlersEnd == []<>(Inverted \/ \A g \in Goroutine : ~Handling(g))

\* No receiver is left behind: cleanup closes every pipeline in the end, also one that was
\* closed by a Bye and used again (pipeline.go:66, 119, pipeline_manager.go:93).
ReceiversEnd == []<>(Inverted \/ \A p \in DOMAIN pipe : pc[p] = "ended")

\* Not satisfied: the locks are never taken both ways round.
NotInverted == ~Inverted

\* Not satisfied: a sink connects "in both directions by getting attached" (sink.go:28): as
\* long as a pipeline is attached to it, somebody hears what comes in.
BothDirections ==
    \A p \in DOMAIN pipe :
        pipe[p].sink \in isOpen /\ (\A g \in Goroutine : ~Handling(g)) =>
            LET b == bound[pipe[p].sink] IN b # None /\ ~pipe[b].closed

\* Not satisfied: a closed sink has no subscription (bus_manager.go:272-283), so that what comes
\* in is not handled twice.
ClosedSinkIsDeaf == \A k \in made : k \notin isOpen => bound[k] = None
=============================================================================
