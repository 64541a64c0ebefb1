---------------------------- MODULE FileTransfer ----------------------------
(***************************************************************************)
(* One browser downloads a file that another one shares:                   *)
(* static/js/services/filedownload.js, fileupload.js and filedata.js with  *)
(* the connections of mediastream/peerxfer.js, WebRTC.doXfer of webrtc.js, *)
(* tokens.js and the buttons of directives/fileinfo.js.                    *)
(*                                                                         *)
(* The downloader asks for ranges of chunks over several connections       *)
(* (xfers), one chunk at a time over each, and writes what it gets through *)
(* the FileSystem API, which takes one write at a time.  A browser is one  *)
(* thread: the downloader's state is a record, its functions are functions *)
(* from such a record to the next one, what they send is collected in      *)
(* "out".                                                                  *)
(*                                                                         *)
(* The negotiation of an xfer and its "dataReady" are one step.  Checksums *)
(* never fail: the data channel is reliable and ordered while its          *)
(* connection lives.                                                       *)
(***************************************************************************)
EXTENDS Naturals, Sequences, FiniteSets, SequencesExt

CONSTANTS Chunks,      \* chunks of the file
          Fragments,   \* a job is this many chunks, and one more
          Concurrent,  \* xfers at a time
          Xfer,        \* ids of xfers: a bound on how many are made
          NoXfer,
          NoJob,
          Bye,         \* the message of that name
          MaxStarts,   \* clicks on Download: a bound
          MaxTrouble   \* interrupted connections, failed writes: a bound

ASSUME FileTransferAssumption ==
    /\ Chunks \in Nat \ {0} /\ Fragments \in Nat /\ Concurrent \in Nat \ {0}
    /\ NoXfer \notin Xfer
    /\ NoJob \notin [chunk : Nat, end : Nat] /\ Bye \notin Nat
    /\ MaxStarts \in Nat /\ MaxTrouble \in Nat

VARIABLES
    down,     \* the downloader
    up,       \* the uploader
    reqs,     \* on its way to the uploader, for each xfer: chunks asked for, or a bye
    data,     \* on its way to the downloader: chunks
    trouble   \* used up of MaxTrouble

vars == <<down, up, reqs, data, trouble>>

End == Chunks - 1

\* All chunks have the same size but the last one.
Size(c) == IF c = End THEN 1 ELSE 2

-----------------------------------------------------------------------------
(* A download: Session of filedownload.js, File and FileWriterFileSystem   *)
(* of filedata.js, the scope of fileinfo.js.                               *)

Fresh ==
    [running |-> FALSE,
     chunk   |-> 0,                      \* the next one to give to a job
     all     |-> {},                     \* xfer_all
     connected |-> <<>>,                 \* xfer_connected
     first   |-> NoXfer,                 \* the xfer whose connection starts the download
     job     |-> [x \in Xfer |-> NoJob], \* the job whose handler listens to an xfer
     size    |-> 0,                      \* chunk_size, 0 while unknown
     got     |-> {},                     \* history: chunks received
     writer  |-> "none",
     buffer  |-> {},                     \* writeBuffer: position and chunk
     flight  |-> {},                     \* what is being written
     disk    |-> {},                     \* what was written
     finished |-> FALSE,                 \* File.complete
     spoiled |-> FALSE,                  \* history: a write failed
     downloading |-> FALSE,              \* of the scope, as are the next three
     shown   |-> FALSE,                  \* complete, with a url
     error   |-> FALSE,
     cancelled |-> FALSE,
     mine    |-> [x \in Xfer |-> "unused"], \* of the browser: its ends of the xfers
     closing |-> {},                        \* xfers to be closed soon
     starts  |-> 0,                         \* used up of MaxStarts
     out     |-> [x \in Xfer |-> <<>>]]     \* to send

Init ==
    /\ down = Fresh
    /\ up = [running |-> TRUE, connections |-> {},
             far     |-> [x \in Xfer |-> "none"],              \* the other ends
             reading |-> {}]                                   \* chunks being read
    /\ reqs = [x \in Xfer |-> <<>>] /\ data = [x \in Xfer |-> <<>>]
    /\ trouble = 0

\* xfer.send, while the data channel is open
Open(S, x)    == S.mine[x] \in {"up", "cut"}
Send(S, x, m) == IF Open(S, x) THEN [S EXCEPT !.out[x] = Append(@, m)] ELSE S

\* The writer takes the first part of its buffer that has no gap.
Run(buffer) ==
    {e \in buffer : \A d \in buffer :
        d[1] < e[1] => \E c \in buffer : c[1] = d[1] + Size(d[2])}

\* flush
Flush(S) ==
    IF S.writer # "idle" THEN S
    ELSE IF S.buffer # {}
         THEN [S EXCEPT !.writer = "writing", !.flight = Run(S.buffer),
                        !.buffer = @ \ Run(S.buffer)]
         ELSE IF S.finished THEN [S EXCEPT !.shown = TRUE] ELSE S

\* Only the xfers that are free are closed.
CancelLeavesBusy(S) ==
    [S EXCEPT !.running = FALSE, !.all = {}, !.connected = <<>>,
              !.out = [x \in Xfer |-> IF x \in S.all /\ Open(S, x) THEN Append(@[x], Bye) ELSE @[x]],
              !.closing = @ \cup Range(S.connected),
              !.job = [x \in Xfer |-> NoJob]]

\* Session.cancel.  With its file gone, the session takes no more data.
CancelSession(S) ==
    [S EXCEPT !.running = FALSE, !.all = {}, !.connected = <<>>,
              !.out = [x \in Xfer |-> IF x \in S.all /\ Open(S, x) THEN Append(@[x], Bye) ELSE @[x]],
              !.closing = @ \cup S.all,
              !.job = [x \in Xfer |-> NoJob]]

\* addXfer, doXfer.  No xfer is made when the bound is reached.
Unused(S) == {x \in Xfer : S.mine[x] = "unused"}
AddXfer(S) ==
    IF Unused(S) = {} THEN S
    ELSE LET x == CHOOSE x \in Unused(S) : TRUE
         IN  [S EXCEPT !.mine[x] = "dialing", !.all = @ \cup {x},
                       !.first = IF S.first = NoXfer THEN x ELSE @]

\* rmXfer.  The job of the xfer stays as it is.
RmXfer(S, x) == [S EXCEPT !.all = @ \ {x}, !.connected = RemoveFirst(@, x)]

\* The jobs that are not done are forgotten.
FinishedEarly(S) == S.chunk >= End

\* The test of done
Finished(S) == S.chunk >= End /\ \A x \in Xfer : S.job[x] = NoJob

\* done: the xfer is free for another job; the last one finishes the file.
Done(S, x) ==
    LET T == [S EXCEPT !.job[x] = NoJob, !.connected = Append(@, x)]
    IN  IF Finished(T) THEN CancelSession(Flush([T EXCEPT !.finished = TRUE])) ELSE T

\* job.next
JobNext(S, x) ==
    IF S.job[x].chunk > S.job[x].end THEN Done(S, x)
    ELSE [Send(S, x, S.job[x].chunk) EXCEPT !.job[x].chunk = @ + 1]

JobEnd(S) == IF S.chunk + Fragments > End THEN End ELSE S.chunk + Fragments

\* The next job starts with the last chunk of this one.
StartOverlapping(S) ==
    LET x == Head(S.connected)
    IN  JobNext([S EXCEPT !.connected = Tail(@), !.chunk = JobEnd(S),
                          !.job[x] = [chunk |-> S.chunk, end |-> JobEnd(S)]], x)

\* The first of the free xfers gets a job.
Start(S) ==
    LET x == Head(S.connected)
    IN  JobNext([S EXCEPT !.connected = Tail(@), !.chunk = JobEnd(S) + 1,
                          !.job[x] = [chunk |-> S.chunk, end |-> JobEnd(S)]], x)

\* process
Process(S) ==
    IF S.running /\ S.all = {} THEN AddXfer(S)
    ELSE IF S.running /\ S.chunk <= End /\ S.connected # <<>> THEN Start(S)
    ELSE S

\* The interval: more xfers for a file that is large enough.
WantsMore(S) ==
    /\ S.running /\ Cardinality(S.all) < Concurrent /\ S.chunk <= End
    /\ Chunks >= Fragments * (Cardinality(S.all) - 2)

-----------------------------------------------------------------------------
(* The downloader. *)

Become(S) ==
    /\ down' = [S EXCEPT !.out = [x \in Xfer |-> <<>>]]
    /\ reqs' = [x \in Xfer |-> IF up.far[x] = "up" \/ down.mine[x] = "dialing"
                              THEN reqs[x] \o S.out[x] ELSE reqs[x]]

Spend == trouble < MaxTrouble /\ trouble' = trouble + 1

\* The user clicks Download, or Retry after an error.
Download ==
    /\ down.starts < MaxStarts
    /\ ~down.shown /\ (~down.downloading \/ down.error)
    /\ Become(AddXfer([Fresh EXCEPT !.running = TRUE, !.writer = "opening", !.downloading = TRUE,
                                    !.mine = down.mine, !.closing = down.closing,
                                    !.starts = down.starts + 1]))
    /\ UNCHANGED <<up, data, trouble>>

\* The user clicks Cancel: the file is purged, the scope reset.
Cancel ==
    /\ down.downloading /\ ~down.shown /\ ~down.error
    /\ Become([CancelSession(down) EXCEPT !.writer = "stopped", !.buffer = {}, !.flight = {},
                                          !.downloading = FALSE, !.cancelled = TRUE])
    /\ UNCHANGED <<up, data, trouble>>

Tick ==
    /\ down.running
    /\ LET S == Process(down) IN Become(IF WantsMore(S) THEN AddXfer(S) ELSE S)
    /\ UNCHANGED <<up, data, trouble>>

\* The timeout of Session.cancel: what was sent last may be lost.
Close(x) ==
    /\ x \in down.closing
    /\ down' = [down EXCEPT !.closing = @ \ {x}, !.mine[x] = "closed"]
    /\ data' = [data EXCEPT ![x] = <<>>]
    /\ \E lost \in BOOLEAN : reqs' = IF lost THEN [reqs EXCEPT ![x] = <<>>] ELSE reqs
    /\ UNCHANGED <<up, trouble>>

\* handleData.  A session that was cancelled has no file any more.
Store(S, x, c) ==
    LET size == IF S.size = 0 THEN Size(c) ELSE S.size
    IN  JobNext(Flush([S EXCEPT !.size = size, !.got = @ \cup {c},
                                !.buffer = @ \cup {<<size * c, c>>}]), x)
HandleData(x) ==
    /\ data[x] # <<>> /\ down.mine[x] = "up"
    /\ Become(IF down.job[x] = NoJob THEN down ELSE Store(down, x, Head(data[x])))
    /\ data' = [data EXCEPT ![x] = Tail(@)]
    /\ UNCHANGED <<up, trouble>>

\* The file was created and filled.
Opened ==
    /\ down.writer = "opening"
    /\ Become(Flush([down EXCEPT !.writer = "idle"]))
    /\ UNCHANGED <<up, data, trouble>>

\* It could not be created: "failed" or "error".
OpenFails ==
    /\ down.writer = "opening" /\ Spend
    /\ Become([CancelSession(down) EXCEPT !.writer = "failed", !.error = TRUE])
    /\ UNCHANGED <<up, data>>

\* What came while the write went on is left alone.
WriteEndOnly ==
    /\ down.writer = "writing"
    /\ Become([down EXCEPT !.writer = "idle", !.disk = @ \cup down.flight, !.flight = {}])
    /\ UNCHANGED <<up, data, trouble>>

\* onwriteend
WriteEnd ==
    /\ down.writer = "writing"
    /\ Become(Flush([down EXCEPT !.writer = "idle", !.disk = @ \cup down.flight, !.flight = {}]))
    /\ UNCHANGED <<up, data, trouble>>

\* onerror and then onwriteend: nobody listens to "writeerror", Session binds "writerror".
WriteFails ==
    /\ down.writer = "writing" /\ Spend
    /\ Become(Flush([down EXCEPT !.writer = "idle", !.spoiled = TRUE, !.flight = {}]))
    /\ UNCHANGED <<up, data>>

-----------------------------------------------------------------------------
(* The uploader. *)

\* The Offer of an xfer is answered, its data channel opens.
Connect(x) ==
    LET S == [down EXCEPT !.mine[x] = "up", !.connected = IF x \in down.all THEN Append(@, x) ELSE @]
    IN  /\ down.mine[x] = "dialing" /\ up.running
        /\ Become(IF x = S.first THEN Process(S) ELSE S)
        /\ up' = [up EXCEPT !.far[x] = "up"]
        /\ UNCHANGED <<data, trouble>>

\* handleRequest.  The handler of the token is gone when the file is not shared any more.
Request(x) ==
    /\ reqs[x] # <<>> /\ up.far[x] = "up" /\ down.mine[x] # "cut"
    /\ reqs' = [reqs EXCEPT ![x] = Tail(@)]
    /\ up' = CASE ~up.running        -> up
               [] Head(reqs[x]) = Bye -> [up EXCEPT !.connections = @ \ {x}, !.far[x] = "closed"]
               [] OTHER -> [up EXCEPT !.connections = @ \cup {x},
                                      !.reading = @ \cup {<<x, Head(reqs[x])>>}]
    /\ UNCHANGED <<down, data, trouble>>

\* getChunk calls back.
SendChunk(x, c) ==
    /\ <<x, c>> \in up.reading
    /\ up' = [up EXCEPT !.reading = @ \ {<<x, c>>}]
    /\ data' = IF up.running /\ up.far[x] = "up" /\ Open(down, x)
               THEN [data EXCEPT ![x] = Append(@, c)] ELSE data
    /\ UNCHANGED <<down, reqs, trouble>>

\* The user does not share the file any more.
Unshare ==
    /\ up.running
    /\ up' = [up EXCEPT !.running = FALSE, !.connections = {},
                        !.far = [x \in Xfer |-> IF x \in up.connections THEN "closed" ELSE @[x]]]
    /\ UNCHANGED <<down, reqs, data, trouble>>

-----------------------------------------------------------------------------
(* Connections. *)

\* ICE reports that a connection is interrupted, also when the other end is closed.
Cut(x) ==
    /\ down.mine[x] = "up" /\ up.far[x] = "up" /\ Spend
    /\ Become([RmXfer(down, x) EXCEPT !.mine[x] = "cut"])
    /\ UNCHANGED <<up, data>>
FarGone(x) ==
    /\ Open(down, x) /\ up.far[x] = "closed"
    /\ Become([RmXfer(down, x) EXCEPT !.mine[x] = "dead"])
    /\ data' = [data EXCEPT ![x] = <<>>]
    /\ UNCHANGED <<up, trouble>>

\* It comes back, or is given up.
Heal(x) ==
    /\ down.mine[x] = "cut" /\ Become([down EXCEPT !.mine[x] = "up"])
    /\ UNCHANGED <<up, data, trouble>>
Die(x) ==
    /\ down.mine[x] = "cut"
    /\ down' = [down EXCEPT !.mine[x] = "dead"]
    /\ reqs' = [reqs EXCEPT ![x] = <<>>] /\ data' = [data EXCEPT ![x] = <<>>]
    /\ UNCHANGED <<up, trouble>>

Next ==
    \/ Download \/ Cancel \/ Tick \/ Opened \/ OpenFails \/ WriteEnd \/ WriteFails \/ Unshare
    \/ \E x \in Xfer : \/ Close(x) \/ HandleData(x) \/ Connect(x) \/ Request(x)
                       \/ Cut(x) \/ FarGone(x) \/ Heal(x) \/ Die(x)
                       \/ \E c \in 0..End : SendChunk(x, c)

Spec == Init /\ [][Next]_vars

\* Timers fire, reads and writes end, and what is sent over a live connection arrives.
Fairness ==
    /\ WF_vars(Tick) /\ WF_vars(Opened) /\ WF_vars(WriteEnd)
    /\ \A x \in Xfer : /\ WF_vars(Close(x)) /\ WF_vars(HandleData(x)) /\ WF_vars(Connect(x))
                       /\ WF_vars(Request(x)) /\ WF_vars(FarGone(x))
                       /\ \A c \in 0..End : WF_vars(SendChunk(x, c))

FairSpec == Spec /\ Fairness

-----------------------------------------------------------------------------
(* Properties *)

State == {"none", "up", "closed"}
Piece == {<<Size(0) * c, c>> : c \in 0..End} \cup {<<Size(End) * c, c>> : c \in 0..End}

\* No job reaches past the end of the file, and no chunk but the file's is asked for.
TypeOK ==
    /\ down.running \in BOOLEAN /\ down.chunk \in 0..Chunks
    /\ down.all \subseteq Xfer /\ Range(down.connected) \subseteq Xfer
    /\ down.first \in Xfer \cup {NoXfer}
    /\ down.job \in [Xfer -> {NoJob} \cup [chunk : 1..Chunks, end : 0..End]]
    /\ down.size \in 0..2 /\ down.got \subseteq 0..End
    /\ down.writer \in {"none", "opening", "idle", "writing", "failed", "stopped"}
    /\ down.buffer \subseteq Piece /\ down.flight \subseteq Piece /\ down.disk \subseteq Piece
    /\ down.mine \in [Xfer -> {"unused", "dialing", "up", "cut", "dead", "closed"}]
    /\ down.closing \subseteq Xfer /\ down.starts \in 0..MaxStarts
    /\ up.connections \subseteq Xfer /\ up.far \in [Xfer -> State]
    /\ up.reading \subseteq Xfer \X (0..End)
    /\ \A x \in Xfer : /\ Range(reqs[x]) \subseteq (0..End) \cup {Bye}
                       /\ Range(data[x]) \subseteq 0..End
    /\ trouble \in 0..MaxTrouble

\* What a job still waits for: the chunk it asked for and those after it.
Owed(x) == IF down.job[x] = NoJob THEN {} ELSE (down.job[x].chunk - 1)..down.job[x].end

\* While a download runs, each chunk that was given to a job has arrived or is owed
\* by exactly one job, and no other chunk has arrived: however many xfers come and
\* go, nothing is downloaded twice and nothing is left out.
EachChunkOnce ==
    down.running =>
        /\ \A c \in 0..End :
               c < down.chunk <=> (c \in down.got \/ \E x \in Xfer : c \in Owed(x))
        /\ \A x \in Xfer : /\ Owed(x) \cap down.got = {}
                           /\ \A y \in Xfer \ {x} : Owed(x) \cap Owed(y) = {}

\* Chunks are requested "sequentially, and waiting for each chunk to be complete
\* before sending the request for the next one" (doc/CHANNELING-API.txt:1022): over
\* each xfer at most one chunk is asked for, being read or on its way.
Outstanding(x) ==
    Len(SelectSeq(reqs[x], LAMBDA m : m # Bye)) + Len(data[x])
        + Cardinality({r \in up.reading : r[1] = x})
OneRequest == \A x \in Xfer : Outstanding(x) <= 1

\* A file that is shown as complete has every chunk in its place, unless a write failed.
\* This depends on Chunks: it is false where one chunk is left for the last job
\* (filedownload.js:151, 195; README).
WholeFile ==
    down.shown /\ ~down.spoiled => down.disk = {<<Size(0) * c, c>> : c \in 0..End}

\* A job is lost when its xfer was taken from the session's list.
Lost == \E x \in Xfer : down.job[x] # NoJob /\ x \notin down.all

\* No xfer is left to make: a bound of the model.
Exhausted == down.all = {} /\ Unused(down) = {}

\* A download ends, with the file, with an error or because the user cancels it,
\* unless the file is not shared any more or a job is lost.
Completes ==
    down.downloading ~> \/ down.shown \/ down.error \/ ~down.downloading
                        \/ ~up.running \/ Lost \/ Exhausted

\* When a download ends, by itself or by the user, all its xfers are closed, but for
\* those that are interrupted at some time.
XfersClosed ==
    (\E x \in Xfer : down.mine[x] \in {"dialing", "up"})
        ~> \/ down.running \/ trouble > 0
           \/ \A x \in Xfer : down.mine[x] \notin {"dialing", "up"}

=============================================================================
