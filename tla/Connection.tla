----------------------------- MODULE Connection -----------------------------
(***************************************************************************)
(* The server's end of the clients' websockets: the read pump, the write   *)
(* pump with its queue and its pings, Close, and the reference-counted     *)
(* buffers that the queues of several connections share.                   *)
(*                                                                         *)
(* A critical section of a connection's mutex is one step: nothing is      *)
(* waited for inside, except by Cond.Wait, which is a state of the write   *)
(* pump of its own. Handlers and room workers are goroutines that send: to *)
(* one connection (a reply, Hub.Unicast) or, as the job of a broadcast, to *)
(* several. The buffer an incoming message is read into is left out: only  *)
(* the read pump uses it.                                                  *)
(***************************************************************************)
EXTENDS Naturals, Sequences, SequencesExt, FiniteSetsExt

CONSTANTS Conn,
          Sender,        \* the goroutines that send: handlers and room workers
          Buffer,        \* the buffers there ever are, numbered
          maxQueueSize,  \* messages in the queue of a connection
          MaxMessages,   \* state space limiter: messages handlers encode
          Troubled,      \* state space limiter: connections that fail, are taken over, are pinged
          NoBuffer

ASSUME BufferAssumption == Buffer \subseteq Nat /\ NoBuffer \notin Buffer
ASSUME LimitAssumption == maxQueueSize \in Nat \ {0} /\ MaxMessages \in Nat
ASSUME TroubledAssumption == Troubled \subseteq Conn

VARIABLES
    queue,    \* connection.queue
    isClosed, \* how far Close is: "open", "claimed" (isClosed set), "shut" (socket closed), "clean"
    closer,   \* who is inside Close past its first check: "reader", "pump", "other" or "nobody"
    ping,     \* WritePump's ping
    pump,     \* where WritePump is
    held,     \* the message WritePump took off the queue
    timer,    \* its timer: armed, in the callback after its critical section, or off
    reader,   \* where ReadPump is
    ws,       \* the websocket: "open", "failed" or "closed"
    sender,   \* a sender's buffer and the connections still to serve
    refcnt,   \* Buffer.refcnt
    content,  \* the message in a buffer, 0 when it has been reset
    made      \* messages encoded so far

connVars == <<queue, isClosed, closer, ping, pump, held, timer, reader, ws>>
vars == <<queue, isClosed, closer, ping, pump, held, timer, reader, ws,
          sender, refcnt, content, made>>

Closed(c) == isClosed[c] # "open"

(***************************************************************************)
(* The buffers. New takes the free buffer with the least number: free ones *)
(* are alike, and the lowest is the one that was in use before.            *)
(***************************************************************************)
Free == {b \in Buffer : refcnt[b] = 0}
New == CHOOSE b \in Free : \A d \in Free : b <= d

\* Decref of the buffers of a sequence; a buffer nobody holds is Reset for reuse.
Decref(s) ==
    /\ refcnt'  = [b \in Buffer |-> refcnt[b] - Cardinality({i \in DOMAIN s : s[i] = b})]
    /\ content' = [b \in Buffer |-> IF refcnt'[b] = 0 THEN 0 ELSE content[b]]

\* Cond.Signal: the write pump, if it waits, looks again.
Signal(c) == pump' = [pump EXCEPT ![c] = IF @ = "waiting" THEN "top" ELSE @]

(***************************************************************************)
(* Send                                                                    *)
(***************************************************************************)
\* Mutants of Send: without the reference of the queue, without the signal.
SendBorrows(c, b) ==
    IF Closed(c) \/ Len(queue[c]) >= maxQueueSize
    THEN UNCHANGED <<queue, refcnt, pump>>
    ELSE /\ queue' = [queue EXCEPT ![c] = Append(@, b)]
         /\ Signal(c)
         /\ UNCHANGED refcnt

SendSilent(c, b) ==
    IF Closed(c) \/ Len(queue[c]) >= maxQueueSize
    THEN UNCHANGED <<queue, refcnt, pump>>
    ELSE /\ queue' = [queue EXCEPT ![c] = Append(@, b)]
         /\ refcnt' = [refcnt EXCEPT ![b] = @ + 1]
         /\ UNCHANGED pump

\* The message is put on the queue, or dropped.
Send(c, b) ==
    IF Closed(c) \/ Len(queue[c]) >= maxQueueSize
    THEN UNCHANGED <<queue, refcnt, pump>>
    ELSE /\ queue' = [queue EXCEPT ![c] = Append(@, b)]
         /\ refcnt' = [refcnt EXCEPT ![b] = @ + 1]
         /\ Signal(c)

(***************************************************************************)
(* Close, run by whoever is first; the mutex is free while the socket is   *)
(* closed.                                                                 *)
(***************************************************************************)
Claim(c, who) ==
    /\ ~Closed(c)
    /\ isClosed' = [isClosed EXCEPT ![c] = "claimed"]
    /\ closer' = [closer EXCEPT ![c] = who]

CloseSocket(c) ==
    /\ isClosed[c] = "claimed"
    /\ isClosed' = [isClosed EXCEPT ![c] = "shut"]
    /\ ws' = [ws EXCEPT ![c] = "closed"]
    /\ UNCHANGED <<queue, closer, ping, pump, held, timer, reader, sender, refcnt, content, made>>

\* A mutant of CleanQueue: the write pump is not told.
CleanQueueSilent(c) ==
    /\ isClosed[c] = "shut"
    /\ isClosed' = [isClosed EXCEPT ![c] = "clean"]
    /\ closer' = [closer EXCEPT ![c] = "nobody"]
    /\ Decref(queue[c])
    /\ queue' = [queue EXCEPT ![c] = <<>>]
    /\ UNCHANGED <<ping, pump, held, timer, reader, ws, sender, made>>

CleanQueue(c) ==
    /\ isClosed[c] = "shut"
    /\ isClosed' = [isClosed EXCEPT ![c] = "clean"]
    /\ closer' = [closer EXCEPT ![c] = "nobody"]
    /\ Decref(queue[c])
    /\ queue' = [queue EXCEPT ![c] = <<>>]
    /\ Signal(c)
    /\ UNCHANGED <<ping, held, timer, reader, ws, sender, made>>

\* The call of Close by who has returned.
Returned(c, who) == Closed(c) /\ closer[c] # who

\* ReplaceAndClose: the session was taken over by a newer connection.
Replaced(c) ==
    /\ c \in Troubled
    /\ Claim(c, "other")
    /\ UNCHANGED <<queue, ping, pump, held, timer, reader, ws, sender, refcnt, content, made>>

(***************************************************************************)
(* WritePump                                                               *)
(***************************************************************************)
\* The top of its loop, the queue and the ping not being looked at yet.
NothingToDo(c) == ~ping[c] /\ ~Closed(c) /\ queue[c] = <<>>

Wait(c) ==
    /\ pump[c] = "top" /\ NothingToDo(c)
    /\ pump' = [pump EXCEPT ![c] = "waiting"]
    /\ UNCHANGED <<queue, isClosed, closer, ping, held, timer, reader, ws, sender, refcnt, content, made>>

FastExit(c) ==
    /\ pump[c] = "top" /\ Closed(c)
    /\ pump' = [pump EXCEPT ![c] = "cleanup"]
    /\ UNCHANGED <<queue, isClosed, closer, ping, held, timer, reader, ws, sender, refcnt, content, made>>

\* The flush loop takes a message; a ping that is due goes out before it.
\* isClosed is not looked at again between two messages.
Flush(c) ==
    /\ \/ pump[c] = "top" /\ ~Closed(c) /\ ~NothingToDo(c)
       \/ pump[c] = "flushing"
    /\ held' = [held EXCEPT ![c] = IF queue[c] = <<>> THEN NoBuffer ELSE Head(queue[c])]
    /\ queue' = [queue EXCEPT ![c] = IF @ = <<>> THEN @ ELSE Tail(@)]
    /\ ping' = [ping EXCEPT ![c] = FALSE]
    /\ pump' = [pump EXCEPT ![c] = IF ping[c] THEN "pinging" ELSE IF queue[c] = <<>> THEN "top" ELSE "writing"]
    /\ UNCHANGED <<isClosed, closer, timer, reader, ws, sender, refcnt, content, made>>

DropHeld(c) ==
    /\ Decref(IF held[c] = NoBuffer THEN <<>> ELSE <<held[c]>>)
    /\ held' = [held EXCEPT ![c] = NoBuffer]

\* A write on a socket that failed may still be taken.
Ping(c) ==
    /\ pump[c] = "pinging" /\ ws[c] # "closed"
    /\ pump' = [pump EXCEPT ![c] = IF held[c] = NoBuffer THEN "top" ELSE "writing"]
    /\ UNCHANGED <<queue, isClosed, closer, ping, held, timer, reader, ws, sender, refcnt, content, made>>

Write(c) ==
    /\ pump[c] = "writing" /\ ws[c] # "closed"
    /\ DropHeld(c)
    /\ pump' = [pump EXCEPT ![c] = "flushing"]
    /\ UNCHANGED <<queue, isClosed, closer, ping, timer, reader, ws, sender, made>>

\* A mutant of WriteError: the message that failed is not released.
WriteErrorKeeps(c) ==
    /\ pump[c] \in {"pinging", "writing"} /\ ws[c] # "open"
    /\ held' = [held EXCEPT ![c] = NoBuffer]
    /\ pump' = [pump EXCEPT ![c] = "cleanup"]
    /\ UNCHANGED <<queue, isClosed, closer, ping, timer, reader, ws, sender, refcnt, content, made>>

WriteError(c) ==
    /\ pump[c] \in {"pinging", "writing"} /\ ws[c] # "open"
    /\ DropHeld(c)
    /\ pump' = [pump EXCEPT ![c] = "cleanup"]
    /\ UNCHANGED <<queue, isClosed, closer, ping, timer, reader, ws, sender, made>>

\* A callback that is past its critical section arms the timer again all the same.
StopTimer(c) ==
    /\ pump[c] = "cleanup"
    /\ timer' = [timer EXCEPT ![c] = IF @ = "armed" THEN "off" ELSE @]
    /\ pump' = [pump EXCEPT ![c] = "closing"]
    /\ UNCHANGED <<queue, isClosed, closer, ping, held, reader, ws, sender, refcnt, content, made>>

PumpCloses(c) ==
    /\ pump[c] = "closing"
    /\ Claim(c, "pump")
    /\ UNCHANGED <<queue, ping, pump, held, timer, reader, ws, sender, refcnt, content, made>>

PumpEnds(c) ==
    /\ pump[c] = "closing" /\ Returned(c, "pump")
    /\ pump' = [pump EXCEPT ![c] = "done"]
    /\ UNCHANGED <<queue, isClosed, closer, ping, held, timer, reader, ws, sender, refcnt, content, made>>

WritePump(c) ==
    \/ Wait(c) \/ FastExit(c) \/ Flush(c) \/ Ping(c) \/ Write(c) \/ WriteError(c)
    \/ StopTimer(c) \/ PumpCloses(c) \/ PumpEnds(c)

(***************************************************************************)
(* The callback of the ping timer.                                         *)
(***************************************************************************)
PingDue(c) ==
    /\ c \in Troubled
    /\ timer[c] = "armed" /\ ~Closed(c)
    /\ timer' = [timer EXCEPT ![c] = "resetting"]
    /\ ping' = [ping EXCEPT ![c] = TRUE]
    /\ Signal(c)
    /\ UNCHANGED <<queue, isClosed, closer, held, reader, ws, sender, refcnt, content, made>>

TimerAfterClose(c) ==
    /\ timer[c] = "armed" /\ Closed(c)
    /\ timer' = [timer EXCEPT ![c] = "off"]
    /\ UNCHANGED <<queue, isClosed, closer, ping, pump, held, reader, ws, sender, refcnt, content, made>>

ResetTimer(c) ==
    /\ timer[c] = "resetting"
    /\ timer' = [timer EXCEPT ![c] = "armed"]
    /\ UNCHANGED <<queue, isClosed, closer, ping, pump, held, reader, ws, sender, refcnt, content, made>>

(***************************************************************************)
(* ReadPump                                                                *)
(***************************************************************************)
ReadError(c) ==
    /\ reader[c] = "reading" /\ ws[c] # "open"
    /\ reader' = [reader EXCEPT ![c] = "closing"]
    /\ UNCHANGED <<queue, isClosed, closer, ping, pump, held, timer, ws, sender, refcnt, content, made>>

ReaderCloses(c) ==
    /\ reader[c] = "closing"
    /\ Claim(c, "reader")
    /\ UNCHANGED <<queue, ping, pump, held, timer, reader, ws, sender, refcnt, content, made>>

OnDisconnect(c) ==
    /\ reader[c] = "closing" /\ Returned(c, "reader")
    /\ reader' = [reader EXCEPT ![c] = "done"]
    /\ UNCHANGED <<queue, isClosed, closer, ping, pump, held, timer, ws, sender, refcnt, content, made>>

ReadPump(c) == ReadError(c) \/ ReaderCloses(c) \/ OnDisconnect(c)

(***************************************************************************)
(* Senders. The connections are those the hub or the room knew when the    *)
(* message was made: some may be closed by the time it comes to them.      *)
(***************************************************************************)
\* EncodeOutgoing: a buffer with one reference, the sender's. That one is free
\* is the limit of Buffer: the code allocates when its pool is empty.
EncodeOutgoing(s) ==
    /\ sender[s].buf = NoBuffer /\ made < MaxMessages /\ Free # {}
    /\ made' = made + 1
    /\ refcnt' = [refcnt EXCEPT ![New] = 1]
    /\ content' = [content EXCEPT ![New] = made']
    /\ \E cs \in (SUBSET Conn) \ {{}} : sender' = [sender EXCEPT ![s] = [buf |-> New, to |-> cs]]
    /\ UNCHANGED connVars

SendTo(s, c) ==
    /\ c \in sender[s].to
    /\ Send(c, sender[s].buf)
    /\ sender' = [sender EXCEPT ![s].to = @ \ {c}]
    /\ UNCHANGED <<isClosed, closer, ping, held, timer, reader, ws, content, made>>

\* The sender's own reference goes.
Sent(s) ==
    /\ sender[s].buf # NoBuffer /\ sender[s].to = {}
    /\ Decref(<<sender[s].buf>>)
    /\ sender' = [sender EXCEPT ![s].buf = NoBuffer]
    /\ UNCHANGED <<connVars, made>>

Goroutine(s) == Sent(s) \/ \E c \in Conn : SendTo(s, c)

\* The connection is lost, or the client closes it.
Fail(c) ==
    /\ c \in Troubled /\ ws[c] = "open"
    /\ ws' = [ws EXCEPT ![c] = "failed"]
    /\ UNCHANGED <<queue, isClosed, closer, ping, pump, held, timer, reader, sender, refcnt, content, made>>

Init ==
    /\ queue = [c \in Conn |-> <<>>]
    /\ isClosed = [c \in Conn |-> "open"]
    /\ closer = [c \in Conn |-> "nobody"]
    /\ ping = [c \in Conn |-> FALSE]
    /\ pump = [c \in Conn |-> "top"]
    /\ held = [c \in Conn |-> NoBuffer]
    /\ timer = [c \in Conn |-> "armed"]
    /\ reader = [c \in Conn |-> "reading"]
    /\ ws = [c \in Conn |-> "open"]
    /\ refcnt = [b \in Buffer |-> 0]
    /\ content = [b \in Buffer |-> 0]
    /\ sender = [s \in Sender |-> [buf |-> NoBuffer, to |-> {}]]
    /\ made = 0

Next ==
    \/ \E s \in Sender : EncodeOutgoing(s) \/ Goroutine(s)
    \/ \E c \in Conn :
          \/ WritePump(c) \/ ReadPump(c) \/ PingDue(c) \/ TimerAfterClose(c) \/ ResetTimer(c)
          \/ CloseSocket(c) \/ CleanQueue(c) \/ Replaced(c) \/ Fail(c)

Spec == Init /\ [][Next]_vars

\* Goroutines that can go on do. Nothing is assumed of clients and network
\* (EncodeOutgoing, Fail), of takeovers (Replaced), nor that the ping timer,
\* which comes every 54 seconds, is of any help (PingDue).
Fairness ==
    /\ \A s \in Sender : WF_vars(Goroutine(s))
    /\ \A c \in Conn :
          /\ WF_vars(WritePump(c))
          /\ WF_vars(ReadPump(c))
          /\ WF_vars(CloseSocket(c) \/ CleanQueue(c))
          /\ WF_vars(TimerAfterClose(c) \/ ResetTimer(c))

FairSpec == Spec /\ Fairness

(***************************************************************************)
(* Properties                                                              *)
(***************************************************************************)
\* Every variable holds what its declaration says; connection.go:74-91.
TypeOK ==
    /\ queue \in [Conn -> SeqOf(Buffer, maxQueueSize)]
    /\ isClosed \in [Conn -> {"open", "claimed", "shut", "clean"}]
    /\ closer \in [Conn -> {"nobody", "reader", "pump", "other"}]
    /\ ping \in [Conn -> BOOLEAN]
    /\ pump \in [Conn -> {"top", "waiting", "pinging", "writing", "flushing", "cleanup", "closing", "done"}]
    /\ held \in [Conn -> Buffer \cup {NoBuffer}]
    /\ timer \in [Conn -> {"armed", "resetting", "off"}]
    /\ reader \in [Conn -> {"reading", "closing", "done"}]
    /\ ws \in [Conn -> {"open", "failed", "closed"}]
    /\ refcnt \in [Buffer -> Nat]
    /\ content \in [Buffer -> 0 .. MaxMessages]
    /\ made \in 0 .. MaxMessages
    /\ sender \in [Sender -> [buf : Buffer \cup {NoBuffer}, to : SUBSET Conn]]

\* Those who hold a buffer: queues, write pumps and senders.
Holders(b) ==
    (UNION { {<<"queue", c, i>> : i \in {j \in DOMAIN queue[c] : queue[c][j] = b}} : c \in Conn })
    \cup {<<"pump", c>>  : c \in {d \in Conn : held[d] = b}}
    \cup {<<"sender", s>> : s \in {t \in Sender : sender[t].buf = b}}

\* Whatever the order in which Send, the write pump and Close come, the count of
\* a buffer is the number of those who still use it: it is reused neither too
\* early nor never; connection.go:103-126, 181-195, 226-256.
RefCounts == \A b \in Buffer : refcnt[b] = Cardinality(Holders(b))

\* What the write pump will still write if the socket lets it.
Pending(c) ==
    IF pump[c] \in {"cleanup", "closing", "done"} THEN <<>>
    ELSE [i \in 1 .. Len(queue[c]) + (IF held[c] = NoBuffer THEN 0 ELSE 1) |->
             content[IF held[c] = NoBuffer THEN queue[c][i]
                     ELSE IF i = 1 THEN held[c] ELSE queue[c][i - 1]]]

\* Messages of handlers and rooms that share buffers and are sent, written,
\* dropped and closed over in any order still come out of each connection in
\* the order they were accepted, once and unchanged, and none is lost but the
\* end of a connection that is closed; connection.go:181-276.
OutboxOfConn == INSTANCE Outbox WITH
    Message <- 1 .. MaxMessages,
    Limit   <- maxQueueSize + 1,
    open    <- [c \in Conn |-> ~Closed(c) /\ pump[c] \notin {"cleanup", "closing", "done"}],
    pending <- [c \in Conn |-> Pending(c)]

ImplementsOutbox == OutboxOfConn!Spec

\* A message a connection accepted is written, or the connection is closed: no
\* wake-up of the write pump is lost, even if no ping ever comes to help.
Delivered ==
    \A c \in Conn, m \in 1 .. MaxMessages :
        (m \in ToSet(Pending(c))) ~> (m \notin ToSet(Pending(c)))

Ended(c) ==
    /\ pump[c] = "done" /\ reader[c] = "done" /\ timer[c] = "off"
    /\ isClosed[c] = "clean" /\ queue[c] = <<>> /\ held[c] = NoBuffer

\* Once the socket fails, or anyone closes the connection, both pumps and the
\* timer end, OnDisconnect has been called and no buffer is kept,
\* whoever is first to close and whatever is being sent; connection.go:103-126, 174-177, 272-276.
Ends == \A c \in Conn : (ws[c] # "open" \/ Closed(c)) ~> Ended(c)
=============================================================================
