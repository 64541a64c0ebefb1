------------------------- MODULE FileTransferProofs -------------------------
(***************************************************************************)
(* That nothing is downloaded twice and nothing left out, for a file of    *)
(* any size and any number of xfers that come and go.                      *)
(***************************************************************************)
EXTENDS FileTransfer, SequenceTheorems, TLAPS

-----------------------------------------------------------------------------
(* Types. *)

\* The downloader is a record of these fields.
Downloader ==
    [running : BOOLEAN, chunk : 0..Chunks, all : SUBSET Xfer, connected : Seq(Xfer),
     first : Xfer \cup {NoXfer}, job : [Xfer -> {NoJob} \cup [chunk : 0..Chunks, end : 0..End]],
     size : {0, Size(0), Size(End)}, got : SUBSET (0..End),
     writer : {"none", "opening", "idle", "writing", "failed", "stopped"},
     buffer : SUBSET Piece, flight : SUBSET Piece, disk : SUBSET Piece,
     finished : BOOLEAN, spoiled : BOOLEAN, downloading : BOOLEAN, shown : BOOLEAN,
     error : BOOLEAN, cancelled : BOOLEAN,
     mine : [Xfer -> {"unused", "dialing", "up", "cut", "dead", "closed"}],
     closing : SUBSET Xfer, starts : 0..MaxStarts, out : [Xfer -> Seq((0..End) \cup {Bye})]]

Uploader ==
    [running : BOOLEAN, connections : SUBSET Xfer, far : [Xfer -> State],
     reading : SUBSET (Xfer \X (0..End))]

\* Every variable has its type.
Types ==
    /\ down \in Downloader /\ up \in Uploader
    /\ reqs \in [Xfer -> Seq((0..End) \cup {Bye})] /\ data \in [Xfer -> Seq(0..End)]
    /\ trouble \in 0..MaxTrouble

-----------------------------------------------------------------------------
(* What is on its way. *)

\* A connection over which the downloader has asked for nothing: d is what is on its way
\* to it, out what it is about to send.
Quiet(x, d, out) ==
    /\ reqs[x] = <<>> /\ d[x] = <<>> /\ out[x] = <<>>
    /\ \A c \in 0..End : <<x, c>> \notin up.reading

\* At most one chunk is asked for, being read or on its way, and it is k.
OnlyAsks(x, k, d, out) ==
    /\ \/ reqs[x] = <<>>
       \/ reqs[x] = <<k>> /\ out[x] = <<>> /\ d[x] = <<>> /\ <<x, k>> \notin up.reading
    /\ \/ out[x] = <<>>
       \/ out[x] = <<k>> /\ reqs[x] = <<>> /\ d[x] = <<>> /\ <<x, k>> \notin up.reading
    /\ \/ d[x] = <<>>
       \/ d[x] = <<k>> /\ reqs[x] = <<>> /\ out[x] = <<>> /\ <<x, k>> \notin up.reading
    /\ \A c \in 0..End : <<x, c>> \in up.reading => c = k

-----------------------------------------------------------------------------
(* What the functions from downloader to downloader preserve. *)

Connected(S) == Range(S.connected)
Waits(S, x)  == IF S.job[x] = NoJob THEN {} ELSE (S.job[x].chunk - 1)..S.job[x].end

\* A session that has ended has no jobs.
Ended(S) == S.running \/ (S.all = {} /\ S.connected = <<>> /\ \A x \in Xfer : S.job[x] = NoJob)

\* The free xfers: each is there once, is connected, has no job and has asked for nothing.
FreeXfers(S, d) ==
    /\ \A i, j \in 1..Len(S.connected) : S.connected[i] = S.connected[j] => i = j
    /\ \A x \in Connected(S) : S.job[x] = NoJob /\ Quiet(x, d, S.out)
    /\ \A x \in Xfer : S.mine[x] \in {"unused", "dialing"} =>
          x \notin Connected(S) /\ S.job[x] = NoJob /\ Quiet(x, d, S.out)

\* The busy ones have asked for one chunk, the last that their job gave out.
Jobs(S, d) == \A x \in Xfer : LET j == S.job[x] IN
    j # NoJob => /\ j.chunk \in 1..(j.end + 1) /\ OnlyAsks(x, j.chunk - 1, d, S.out)

\* Each chunk is with one job, or there.
Once(S) == S.running =>
    /\ \A c \in 0..End : c < S.chunk <=> (c \in S.got \/ \E x \in Xfer : c \in Waits(S, x))
    /\ \A x \in Xfer : /\ Waits(S, x) \cap S.got = {}
                       /\ \A y \in Xfer \ {x} : Waits(S, x) \cap Waits(S, y) = {}

\* S is as it should be when d is on its way to the downloader.
Good(S, d) == S \in Downloader /\ Ended(S) /\ FreeXfers(S, d) /\ Jobs(S, d) /\ Once(S)

\* The inductive invariant.
FileInv == Types /\ Good(down, data) /\ down.out = [x \in Xfer |-> <<>>]

-----------------------------------------------------------------------------
(* One function after the other. *)

\* What Good speaks of is the same.
Same(S, T) ==
    /\ T.running = S.running /\ T.chunk = S.chunk /\ T.all = S.all /\ T.connected = S.connected
    /\ T.job = S.job /\ T.got = S.got /\ T.mine = S.mine /\ T.out = S.out

LEMMA SameGood ==
    ASSUME NEW S, NEW d, Good(S, d), NEW T \in Downloader, Same(S, T)
    PROVE  Good(T, d)
<1>1. Ended(T) /\ Once(T) BY DEF Good, Same, Ended, Once, Waits
<1>2. FreeXfers(T, d) /\ Jobs(T, d) BY DEF Good, Same, FreeXfers, Jobs, Connected
<1> QED BY <1>1, <1>2 DEF Good

\* The constants have their types.
LEMMA FileFacts ==
    /\ End \in Nat /\ Chunks = End + 1 /\ NoJob \notin [chunk : Nat, end : Nat] /\ Bye \notin Nat
    /\ Fragments \in Nat /\ MaxStarts \in Nat /\ MaxTrouble \in Nat
BY FileTransferAssumption DEF End

\* S when a write begins.
Writing(S, R, B) == [S EXCEPT !.writer = "writing", !.flight = R, !.buffer = B]

LEMMA WriteFacts ==
    ASSUME NEW S \in Downloader, NEW R \in SUBSET Piece, NEW B \in SUBSET Piece
    PROVE  Writing(S, R, B) \in Downloader
<1> DEFINE T == [S EXCEPT !.flight = R]
<1>1. T \in Downloader BY DEF Downloader
<1>2. Writing(S, R, B) = [T EXCEPT !.writer = "writing", !.buffer = B]
  BY DEF Downloader, Writing
<1> HIDE DEF T
<1>3. [T EXCEPT !.writer = "writing", !.buffer = B] \in Downloader BY <1>1 DEF Downloader
<1> QED BY <1>2, <1>3

\* flush writes what it takes from the buffer.
LEMMA FlushFacts ==
    ASSUME NEW S \in Downloader
    PROVE  Flush(S) \in Downloader /\ Same(S, Flush(S))
<1>1. Run(S.buffer) \in SUBSET Piece /\ S.buffer \ Run(S.buffer) \in SUBSET Piece
  BY DEF Run, Downloader
<1>2. CASE S.writer = "idle" /\ S.buffer # {}
  <2> DEFINE R == Run(S.buffer)
             B == S.buffer \ R
  <2>1. Flush(S) = [S EXCEPT !.writer = "writing", !.flight = R, !.buffer = B]
    BY <1>2 DEF Flush
  <2>2. R \in SUBSET Piece /\ B \in SUBSET Piece BY <1>1
  <2> HIDE DEF R, B
  <2>3. Flush(S) \in Downloader
    <3>1. Flush(S) = Writing(S, R, B) BY <2>1 DEF Writing
    <3> QED BY <2>2, <3>1, WriteFacts
  <2>4. Same(S, Flush(S)) BY <2>1 DEF Downloader, Same
  <2> QED BY <2>3, <2>4
<1>3. CASE ~(S.writer = "idle" /\ S.buffer # {})
  <2>1. Flush(S) \in {S, [S EXCEPT !.shown = TRUE]} BY <1>3 DEF Flush
  <2>2. CASE Flush(S) = S BY <2>2 DEF Same
  <2>3. CASE Flush(S) = [S EXCEPT !.shown = TRUE]
    <3>1. Flush(S) \in Downloader BY <2>3 DEF Downloader
    <3>2. Same(S, Flush(S)) BY <2>3 DEF Downloader, Same
    <3> QED BY <3>1, <3>2
  <2> QED BY <2>1, <2>2, <2>3
<1> QED BY <1>2, <1>3

\* cancel says bye over what is connected, and forgets the jobs.
LEMMA CancelGood ==
    ASSUME NEW S \in Downloader, NEW d,
           \A x \in Xfer : S.mine[x] \in {"unused", "dialing"} => Quiet(x, d, S.out)
    PROVE  Good(CancelSession(S), d)
<1> DEFINE T == CancelSession(S)
           out == [x \in Xfer |-> IF x \in S.all /\ Open(S, x) THEN Append(S.out[x], Bye)
                                  ELSE S.out[x]]
           job == [x \in Xfer |-> NoJob]
<1>1. out \in [Xfer -> Seq((0..End) \cup {Bye})]
      /\ \A x \in Xfer : S.mine[x] \in {"unused", "dialing"} => out[x] = S.out[x]
  BY DEF Downloader, Open
<1>2. job \in [Xfer -> {NoJob} \cup [chunk : 0..Chunks, end : 0..End]]
      /\ \A x \in Xfer : job[x] = NoJob
  OBVIOUS
<1>3. T = [S EXCEPT !.running = FALSE, !.all = {}, !.connected = <<>>, !.out = out,
                    !.closing = S.closing \cup S.all, !.job = job]
  BY DEF CancelSession
<1> HIDE DEF out, job, T
<1>4. T \in Downloader
  <2>1. S.closing \cup S.all \in SUBSET Xfer /\ <<>> \in Seq(Xfer) BY DEF Downloader
  <2> QED BY <1>1, <1>2, <1>3, <2>1 DEF Downloader
<1>5. /\ T.running = FALSE /\ T.all = {} /\ T.connected = <<>> /\ T.out = out /\ T.job = job
      /\ T.mine = S.mine
  BY <1>3 DEF Downloader
<1>6. Ended(T) /\ Jobs(T, d) /\ Once(T) BY <1>2, <1>5 DEF Ended, Jobs, Once
<1>7. Connected(T) = {} BY <1>5 DEF Connected, Range
<1>8. FreeXfers(T, d)
  BY <1>1, <1>2, <1>5, <1>7 DEF FreeXfers, Quiet
<1> QED BY <1>4, <1>6, <1>8 DEF Good, T

\* addXfer makes a connection nobody has used.
LEMMA AddXferType == ASSUME NEW S \in Downloader PROVE AddXfer(S) \in Downloader
<1> DEFINE x == CHOOSE x \in Unused(S) : TRUE
           mine == [S.mine EXCEPT ![x] = "dialing"]
           all == S.all \cup {x}
           first == IF S.first = NoXfer THEN x ELSE S.first
           T == AddXfer(S)
<1>1. CASE Unused(S) = {} BY <1>1 DEF AddXfer
<1>2. CASE Unused(S) # {}
  <2>1. x \in Xfer BY <1>2 DEF Unused
  <2>2. T = [S EXCEPT !.mine = mine, !.all = all, !.first = first] BY <1>2 DEF AddXfer
  <2> HIDE DEF x, T
  <2>3. /\ mine \in [Xfer -> {"unused", "dialing", "up", "cut", "dead", "closed"}]
        /\ all \in SUBSET Xfer /\ first \in Xfer \cup {NoXfer}
    BY <2>1 DEF Downloader
  <2> HIDE DEF mine, all, first
  <2>4. T \in Downloader BY <2>2, <2>3 DEF Downloader
  <2> QED BY <2>4 DEF T
<1> QED BY <1>1, <1>2

LEMMA AddXferGood ==
    ASSUME NEW S, NEW d, Good(S, d), S.running
    PROVE  Good(AddXfer(S), d)
<1> DEFINE x == CHOOSE x \in Unused(S) : TRUE
<1>1. CASE Unused(S) = {} BY <1>1 DEF AddXfer
<1>2. CASE Unused(S) # {}
  <2> DEFINE T == AddXfer(S)
  <2>1. T = [S EXCEPT !.mine[x] = "dialing", !.all = @ \cup {x},
                      !.first = IF S.first = NoXfer THEN x ELSE @]
    BY <1>2 DEF AddXfer
  <2>2. x \in Xfer /\ S.mine[x] = "unused" BY <1>2 DEF Unused
  <2> HIDE DEF x
  <2>3. T \in Downloader BY AddXferType DEF Good
  <2> HIDE DEF T
  <2>4. /\ T.running = S.running /\ T.chunk = S.chunk /\ T.connected = S.connected
        /\ T.job = S.job /\ T.got = S.got /\ T.out = S.out
        /\ T.mine = [S.mine EXCEPT ![x] = "dialing"]
    BY <2>1 DEF Downloader, Good
  <2>5. \A y \in Xfer : T.mine[y] \in {"unused", "dialing"} => S.mine[y] \in {"unused", "dialing"}
    BY <2>2, <2>4 DEF Downloader, Good
  <2>6. Ended(T) /\ Once(T) BY <2>4 DEF Good, Ended, Once, Waits
  <2>7. FreeXfers(T, d) /\ Jobs(T, d)
    BY <2>4, <2>5 DEF Good, FreeXfers, Jobs, Connected
  <2> QED BY <2>3, <2>6, <2>7 DEF Good, T
<1> QED BY <1>1, <1>2

\* S with these messages to send.
WithOut(S, o) == [S EXCEPT !.out = o]

\* What is sent: one message over one connection, if that is open.
LEMMA SendFacts ==
    ASSUME NEW S \in Downloader, NEW x \in Xfer, NEW m \in 0..End
    PROVE  \E o \in [Xfer -> Seq((0..End) \cup {Bye})] :
              /\ Send(S, x, m) = WithOut(S, o)
              /\ o[x] \in {S.out[x], Append(S.out[x], m)}
              /\ \A y \in Xfer \ {x} : o[y] = S.out[y]
<1>1. CASE ~Open(S, x)
  <2>1. S = [S EXCEPT !.out = S.out] BY DEF Downloader
  <2> QED BY <1>1, <2>1 DEF Send, Downloader, WithOut
<1>2. CASE Open(S, x)
  <2> DEFINE o == [S.out EXCEPT ![x] = Append(@, m)]
  <2>1. Send(S, x, m) = [S EXCEPT !.out = o] BY <1>2 DEF Send
  <2>2. /\ o \in [Xfer -> Seq((0..End) \cup {Bye})] /\ o[x] = Append(S.out[x], m)
        /\ \A y \in Xfer \ {x} : o[y] = S.out[y]
    BY DEF Downloader
  <2>3. Send(S, x, m) = WithOut(S, o) BY <2>1 DEF WithOut
  <2> HIDE DEF o
  <2> QED BY <2>2, <2>3
<1> QED BY <1>1, <1>2

\* The next chunk of a job.
LEMMA JobFacts ==
    ASSUME NEW j \in [chunk : 0..Chunks, end : 0..End]
    PROVE  [j EXCEPT !.chunk = @ + 1] = [chunk |-> j.chunk + 1, end |-> j.end]
OBVIOUS

\* job.next asks for the next chunk of the job.
LEMMA AskFacts ==
    ASSUME NEW S \in Downloader, NEW x \in Xfer, S.job[x] # NoJob,
           S.job[x].chunk <= S.job[x].end
    PROVE  LET T == JobNext(S, x)  j == S.job[x] IN
           /\ T \in Downloader
           /\ T.running = S.running /\ T.chunk = S.chunk /\ T.all = S.all
           /\ T.connected = S.connected /\ T.got = S.got /\ T.mine = S.mine
           /\ T.job[x] = [chunk |-> j.chunk + 1, end |-> j.end]
           /\ T.out[x] \in {S.out[x], Append(S.out[x], j.chunk)}
           /\ \A y \in Xfer \ {x} : T.job[y] = S.job[y] /\ T.out[y] = S.out[y]
<1> DEFINE j == S.job[x]
           k == j.chunk
           T == JobNext(S, x)
<1>1. /\ j \in [chunk : 0..Chunks, end : 0..End] /\ k \in 0..End /\ k + 1 \in 0..Chunks
      /\ ~(k > j.end)
  BY FileFacts DEF Downloader
<1>2. T = [Send(S, x, k) EXCEPT !.job[x].chunk = @ + 1] BY <1>1 DEF JobNext
<1>3. PICK o \in [Xfer -> Seq((0..End) \cup {Bye})] :
         /\ Send(S, x, k) = WithOut(S, o)
         /\ o[x] \in {S.out[x], Append(S.out[x], k)}
         /\ \A y \in Xfer \ {x} : o[y] = S.out[y]
  <2>1. k \in 0..End BY <1>1
  <2> HIDE DEF k, T
  <2> QED BY <2>1, SendFacts
<1> DEFINE n == [chunk |-> k + 1, end |-> j.end]
           job == [S.job EXCEPT ![x] = n]
<1>4. n \in [chunk : 0..Chunks, end : 0..End] BY <1>1
<1>5. [j EXCEPT !.chunk = @ + 1] = n BY <1>1, JobFacts
<1>6. T = [S EXCEPT !.out = o, !.job = job]
  <2> HIDE DEF n, j
  <2>1. [S EXCEPT !.out = o].job = S.job BY DEF Downloader
  <2>2. T = [[S EXCEPT !.out = o] EXCEPT
                !.job = [S.job EXCEPT ![x] = [S.job[x] EXCEPT !.chunk = @ + 1]]]
    BY <1>2, <1>3, <2>1 DEF WithOut
  <2>3. T = [[S EXCEPT !.out = o] EXCEPT !.job = job] BY <1>5, <2>2 DEF j
  <2> HIDE DEF job, T
  <2> QED BY <2>3 DEF Downloader
<1> HIDE DEF n
<1>7. /\ job \in [Xfer -> {NoJob} \cup [chunk : 0..Chunks, end : 0..End]]
      /\ job[x] = n /\ \A y \in Xfer \ {x} : job[y] = S.job[y]
  BY <1>4 DEF Downloader
<1> HIDE DEF job, T
<1>8. T \in Downloader BY <1>6, <1>7 DEF Downloader
<1>9. /\ T.running = S.running /\ T.chunk = S.chunk /\ T.all = S.all
      /\ T.connected = S.connected /\ T.got = S.got /\ T.mine = S.mine
      /\ T.job = job /\ T.out = o
  BY <1>6 DEF Downloader
<1> QED BY <1>3, <1>7, <1>8, <1>9 DEF n, T

\* The first free xfer gets the chunks up to JobEnd, and asks for the first of them.
LEMMA StartFacts ==
    ASSUME NEW S \in Downloader, S.chunk <= End, S.connected # <<>>
    PROVE  LET T == Start(S)  x == Head(S.connected)  n == JobEnd(S) IN
           /\ T \in Downloader /\ x \in Xfer /\ n \in S.chunk..End
           /\ T.running = S.running /\ T.all = S.all /\ T.got = S.got /\ T.mine = S.mine
           /\ T.connected = Tail(S.connected) /\ T.chunk = n + 1
           /\ T.job[x] = [chunk |-> S.chunk + 1, end |-> n]
           /\ T.out[x] \in {S.out[x], Append(S.out[x], S.chunk)}
           /\ \A y \in Xfer \ {x} : T.job[y] = S.job[y] /\ T.out[y] = S.out[y]
<1> DEFINE T == Start(S)
           x == Head(S.connected)
           n == JobEnd(S)
           k == S.chunk
           j == [chunk |-> k, end |-> n]
           job == [S.job EXCEPT ![x] = j]
           R == [S EXCEPT !.connected = Tail(@), !.chunk = n + 1, !.job[x] = j]
<1>1. /\ x \in Xfer /\ Tail(S.connected) \in Seq(Xfer) /\ k \in 0..End
      /\ S.job \in [Xfer -> {NoJob} \cup [chunk : 0..Chunks, end : 0..End]]
  BY FileFacts DEF Downloader
<1>2. n \in k..End /\ n \in 0..End /\ n + 1 \in 0..Chunks
  BY <1>1, FileFacts DEF JobEnd
<1>3. T = JobNext(R, x) BY DEF Start
<1>4. j \in [chunk : 0..Chunks, end : 0..End] /\ j # NoJob /\ j.chunk = k /\ j.end = n
  BY <1>1, <1>2, FileFacts
<1> HIDE DEF n, k, j
<1>5. /\ job \in [Xfer -> {NoJob} \cup [chunk : 0..Chunks, end : 0..End]]
      /\ job[x] = j /\ \A y \in Xfer \ {x} : job[y] = S.job[y]
  BY <1>1, <1>4
<1>6. R = [S EXCEPT !.connected = Tail(S.connected), !.chunk = n + 1, !.job = job]
  OBVIOUS
<1> HIDE DEF R, job, x, T
<1>7. R \in Downloader BY <1>1, <1>2, <1>5, <1>6 DEF Downloader
<1>8. /\ R.running = S.running /\ R.all = S.all /\ R.got = S.got /\ R.mine = S.mine
      /\ R.connected = Tail(S.connected) /\ R.chunk = n + 1 /\ R.job = job /\ R.out = S.out
  BY <1>6 DEF Downloader
<1>9. /\ T \in Downloader
      /\ T.running = R.running /\ T.chunk = R.chunk /\ T.all = R.all
      /\ T.connected = R.connected /\ T.got = R.got /\ T.mine = R.mine
      /\ T.job[x] = [chunk |-> k + 1, end |-> n]
      /\ T.out[x] \in {R.out[x], Append(R.out[x], k)}
      /\ \A y \in Xfer \ {x} : T.job[y] = R.job[y] /\ T.out[y] = R.out[y]
  <2>1. R.job[x] = j /\ R.job[x] # NoJob /\ R.job[x].chunk <= R.job[x].end
    BY <1>1, <1>2, <1>4, <1>5, <1>8
  <2> DEFINE N == JobNext(R, x)
  <2>2. /\ N \in Downloader
        /\ N.running = R.running /\ N.chunk = R.chunk /\ N.all = R.all
        /\ N.connected = R.connected /\ N.got = R.got /\ N.mine = R.mine
        /\ N.job[x] = [chunk |-> R.job[x].chunk + 1, end |-> R.job[x].end]
        /\ N.out[x] \in {R.out[x], Append(R.out[x], R.job[x].chunk)}
        /\ \A y \in Xfer \ {x} : N.job[y] = R.job[y] /\ N.out[y] = R.out[y]
    BY <1>1, <1>7, <2>1, AskFacts
  <2>3. R.job[x].chunk = k /\ R.job[x].end = n BY <1>4, <2>1
  <2>4. T = N BY <1>3
  <2> HIDE DEF N
  <2> QED BY <2>2, <2>3, <2>4
<1> QED BY <1>1, <1>2, <1>5, <1>8, <1>9 DEF T, x, n, k

\* What the queue of the free xfers has after the first.
LEMMA TailFacts ==
    ASSUME NEW q \in Seq(Xfer), q # <<>>,
           \A i, j \in 1..Len(q) : q[i] = q[j] => i = j
    PROVE  /\ Head(q) \in Range(q) /\ Head(q) \notin Range(Tail(q))
           /\ Range(Tail(q)) \subseteq Range(q)
           /\ \A i, j \in 1..Len(Tail(q)) : Tail(q)[i] = Tail(q)[j] => i = j
<1>1. /\ Len(q) \in Nat \ {0} /\ Head(q) = q[1] /\ Len(Tail(q)) = Len(q) - 1
      /\ \A i \in 1..Len(Tail(q)) : Tail(q)[i] = q[i + 1]
      /\ DOMAIN q = 1..Len(q) /\ DOMAIN Tail(q) = 1..Len(Tail(q))
  OBVIOUS
<1>2. \A i \in 1..Len(Tail(q)) : i + 1 \in 1..Len(q) /\ i + 1 # 1 BY <1>1
<1>3. 1 \in 1..Len(q) BY <1>1
<1> QED BY <1>1, <1>2, <1>3 DEF Range

\* process gives the first free xfer the next chunks.
LEMMA StartGood ==
    ASSUME NEW S, NEW d, Good(S, d), S.running, S.chunk <= End, S.connected # <<>>
    PROVE  Good(Start(S), d)
<1> DEFINE T == Start(S)
           x == Head(S.connected)
           n == JobEnd(S)
           k == S.chunk
<1>1. /\ T \in Downloader /\ x \in Xfer /\ n \in k..End
      /\ T.running = S.running /\ T.all = S.all /\ T.got = S.got /\ T.mine = S.mine
      /\ T.connected = Tail(S.connected) /\ T.chunk = n + 1
      /\ T.job[x] = [chunk |-> k + 1, end |-> n]
      /\ T.out[x] \in {S.out[x], Append(S.out[x], k)}
      /\ \A y \in Xfer \ {x} : T.job[y] = S.job[y] /\ T.out[y] = S.out[y]
  BY StartFacts DEF Good
<1> HIDE DEF T, n
<1>2. k \in 0..End /\ S.connected \in Seq(Xfer) /\ S.got \subseteq 0..End
  BY FileFacts DEF Good, Downloader
<1>3. /\ x \in Connected(S) /\ x \notin Connected(T) /\ Connected(T) \subseteq Connected(S)
      /\ \A i, j \in 1..Len(T.connected) : T.connected[i] = T.connected[j] => i = j
  BY <1>1, <1>2, TailFacts DEF Good, FreeXfers, Connected
<1>4. /\ T.job[x] # NoJob /\ T.job[x].chunk = k + 1 /\ T.job[x].end = n
      /\ S.job[x] = NoJob /\ Quiet(x, d, S.out)
  BY <1>1, <1>2, <1>3, FileFacts DEF Good, FreeXfers
<1> HIDE DEF x, k
<1>5. FreeXfers(T, d)
  <2>1. \A y \in Xfer \ {x} : Quiet(y, d, S.out) => Quiet(y, d, T.out) BY <1>1 DEF Quiet
  <2>2. Connected(T) \subseteq Xfer \ {x}
    <3>1. T.connected \in Seq(Xfer) BY <1>1 DEF Downloader
    <3>2. Connected(T) \subseteq Xfer BY <3>1 DEF Connected, Range
    <3> QED BY <1>3, <3>2
  <2>3. \A y \in Xfer : S.mine[y] \in {"unused", "dialing"} => y # x
    BY <1>3 DEF Good, FreeXfers
  <2> QED BY <1>1, <1>3, <2>1, <2>2, <2>3 DEF Good, FreeXfers
<1>6. Jobs(T, d)
  <2>1. OnlyAsks(x, k, d, T.out)
    <3>1. /\ reqs[x] = <<>> /\ d[x] = <<>> /\ S.out[x] = <<>>
          /\ \A c \in 0..End : <<x, c>> \notin up.reading
      BY <1>4 DEF Quiet
    <3>2. T.out[x] = <<>> \/ T.out[x] = <<k>> BY <1>1, <1>2, <3>1
    <3> QED BY <1>2, <3>1, <3>2 DEF OnlyAsks
  <2>2. k + 1 \in 1..(n + 1) /\ (k + 1) - 1 = k BY <1>1, <1>2, FileFacts
  <2>3. \A y \in Xfer \ {x} : \A c : OnlyAsks(y, c, d, S.out) => OnlyAsks(y, c, d, T.out)
    BY <1>1 DEF OnlyAsks
  <2>4. \A y \in Xfer \ {x} : T.job[y] # NoJob =>
           T.job[y].chunk \in 1..(T.job[y].end + 1) /\ OnlyAsks(y, T.job[y].chunk - 1, d, T.out)
    BY <1>1, <2>3 DEF Good, Jobs
  <2> QED BY <1>4, <2>1, <2>2, <2>4 DEF Jobs
<1>7. Once(T)
  <2>1. Waits(T, x) = k..n BY <1>1, <1>2, <1>4 DEF Waits
  <2>2. \A y \in Xfer \ {x} : Waits(T, y) = Waits(S, y) BY <1>1 DEF Waits
  <2>3. Waits(S, x) = {} BY <1>4 DEF Waits
  <2>4. /\ \A c \in 0..End : c < k <=> (c \in S.got \/ \E y \in Xfer : c \in Waits(S, y))
        /\ \A y \in Xfer : /\ Waits(S, y) \cap S.got = {}
                           /\ \A z \in Xfer \ {y} : Waits(S, y) \cap Waits(S, z) = {}
    BY DEF Good, Once, k
  <2>5. \A y \in Xfer : Waits(S, y) \subseteq 0..End
    BY FileFacts DEF Good, Jobs, Waits, Downloader
  <2>6. \A c \in 0..End : c < n + 1 <=> c < k \/ c \in k..n BY <1>1, <1>2, FileFacts
  <2>7. \A c \in 0..End : c < n + 1 <=> (c \in S.got \/ \E y \in Xfer : c \in Waits(T, y))
    BY <1>1, <2>1, <2>2, <2>3, <2>4, <2>6
  <2>8. Waits(T, x) \cap S.got = {} /\ \A y \in Xfer : Waits(T, x) \cap Waits(S, y) = {}
    <3>1. \A c \in k..n : c \in 0..End /\ ~(c < k) BY <1>1, <1>2, FileFacts
    <3> QED BY <2>1, <2>4, <3>1
  <2>9. \A y \in Xfer : /\ Waits(T, y) \cap S.got = {}
                        /\ \A z \in Xfer \ {y} : Waits(T, y) \cap Waits(T, z) = {}
    BY <2>2, <2>4, <2>8
  <2> QED BY <1>1, <2>7, <2>9 DEF Once
<1>8. Ended(T) BY <1>1 DEF Ended
<1> QED BY <1>1, <1>5, <1>6, <1>7, <1>8 DEF Good, T

\* process adds an xfer or gives out chunks.
LEMMA ProcessGood ==
    ASSUME NEW S, NEW d, Good(S, d)
    PROVE  Good(Process(S), d)
BY StartGood, AddXferGood DEF Process

\* One more xfer is free.
LEMMA AppendFacts ==
    ASSUME NEW q \in Seq(Xfer), NEW x \in Xfer, x \notin Range(q),
           \A i, j \in 1..Len(q) : q[i] = q[j] => i = j
    PROVE  \E r \in Seq(Xfer) :
              /\ r = Append(q, x) /\ Range(r) = Range(q) \cup {x}
              /\ \A i, j \in 1..Len(r) : r[i] = r[j] => i = j
<1> DEFINE r == Append(q, x)
<1>1. /\ r \in Seq(Xfer) /\ Len(q) \in Nat /\ Len(r) = Len(q) + 1 /\ r[Len(q) + 1] = x
      /\ \A i \in 1..Len(q) : r[i] = q[i]
      /\ DOMAIN q = 1..Len(q) /\ DOMAIN r = 1..Len(r)
  OBVIOUS
<1> HIDE DEF r
<1>2. \A i \in 1..Len(r) : i \in 1..Len(q) \/ i = Len(q) + 1 BY <1>1
<1>3. \A i \in 1..Len(q) : i \in 1..Len(r) /\ q[i] # x BY <1>1 DEF Range
<1>4. Len(q) + 1 \in 1..Len(r) BY <1>1
<1>5. Range(r) = Range(q) \cup {x}
  <2>1. \A y \in Range(r) : y \in Range(q) \cup {x} BY <1>1, <1>2 DEF Range
  <2>2. \A y \in Range(q) \cup {x} : y \in Range(r) BY <1>1, <1>3, <1>4 DEF Range
  <2> QED BY <2>1, <2>2
<1>6. \A i, j \in 1..Len(r) : r[i] = r[j] => i = j BY <1>1, <1>2, <1>3
<1> QED BY <1>1, <1>5, <1>6 DEF r

\* The chunk that has come is stored, and is not awaited any more.
LEMMA StoreGood ==
    ASSUME FileInv, NEW x \in Xfer, data[x] # <<>>, down.job[x] # NoJob,
           NEW d, d = [data EXCEPT ![x] = Tail(@)]
    PROVE  Good(Store(down, x, Head(data[x])), d)
<1> DEFINE S == down
           c == Head(data[x])
           e == S.job[x].end
           size == IF S.size = 0 THEN Size(c) ELSE S.size
           R == [S EXCEPT !.size = size, !.got = @ \cup {c}, !.buffer = @ \cup {<<size * c, c>>}]
           F == Flush(R)
<1>1. /\ S \in Downloader /\ Ended(S) /\ FreeXfers(S, data) /\ Jobs(S, data) /\ Once(S)
      /\ data \in [Xfer -> Seq(0..End)] /\ \A y \in Xfer : S.out[y] = <<>>
      /\ S.job \in [Xfer -> {NoJob} \cup [chunk : 0..Chunks, end : 0..End]]
  BY DEF FileInv, Types, Good, Downloader
\* It is the one chunk on its way.
<1>2. /\ data[x] = <<S.job[x].chunk - 1>> /\ reqs[x] = <<>>
      /\ <<x, S.job[x].chunk - 1>> \notin up.reading
      /\ S.job[x].chunk \in 1..(e + 1) /\ \A k \in 0..End : <<x, k>> \notin up.reading
  BY <1>1 DEF Jobs, OnlyAsks
<1>3. /\ c = S.job[x].chunk - 1 /\ c \in 0..End /\ e \in 0..End /\ c <= e
      /\ c \in Nat /\ e \in Nat /\ S.job[x].end = e
      /\ S.job[x].chunk = c + 1 /\ d[x] = <<>> /\ \A y \in Xfer \ {x} : d[y] = data[y]
  <2>1. e \in 0..End /\ S.job[x].chunk \in 0..Chunks BY <1>1
  <2>2. c = S.job[x].chunk - 1 /\ Tail(data[x]) = <<>> BY <1>2
  <2>3. d[x] = <<>> /\ \A y \in Xfer \ {x} : d[y] = data[y] BY <1>1, <2>2
  <2>4. S.job[x].chunk \in 1..(e + 1) /\ S.job[x].end = e BY <1>2
  <2> HIDE DEF c, e, S
  <2>5. c \in Nat /\ e \in Nat /\ c <= e /\ S.job[x].chunk = c + 1
    BY <2>1, <2>2, <2>4, FileFacts, SMTT(30)
  <2>6. c \in 0..End BY <2>1, <2>5, FileFacts
  <2> QED BY <2>1, <2>2, <2>3, <2>4, <2>5, <2>6
<1>4. S.running BY <1>1 DEF Ended
<1>5. size \in {Size(0), Size(End)} /\ <<size * c, c>> \in Piece
  <2>1. Size(c) \in {Size(0), Size(End)} BY <1>3, FileFacts DEF Size
  <2>2. size \in {Size(0), Size(End)} BY <1>1, <2>1 DEF Downloader
  <2> QED BY <1>3, <2>2 DEF Piece
<1> HIDE DEF c, e, size
<1>6. /\ R \in Downloader /\ R.got = S.got \cup {c} /\ R.running = S.running /\ R.chunk = S.chunk
      /\ R.all = S.all /\ R.connected = S.connected /\ R.job = S.job /\ R.mine = S.mine
      /\ R.out = S.out
  <2> DEFINE got == S.got \cup {c}
             buffer == S.buffer \cup {<<size * c, c>>}
  <2>1. got \in SUBSET (0..End) /\ buffer \in SUBSET Piece BY <1>1, <1>3, <1>5 DEF Downloader
  <2>2. R = [S EXCEPT !.size = size, !.got = got, !.buffer = buffer] OBVIOUS
  <2> HIDE DEF got, buffer, R, S
  <2>3. R \in Downloader BY <1>1, <1>5, <2>1, <2>2 DEF Downloader
  <2>4. /\ R.got = got /\ R.running = S.running /\ R.chunk = S.chunk
        /\ R.all = S.all /\ R.connected = S.connected /\ R.job = S.job /\ R.mine = S.mine
        /\ R.out = S.out
    BY <1>1, <2>2 DEF Downloader
  <2> QED BY <2>3, <2>4 DEF got
<1> HIDE DEF R
<1>7. /\ F \in Downloader /\ F.got = S.got \cup {c} /\ F.running = S.running /\ F.chunk = S.chunk
      /\ F.all = S.all /\ F.connected = S.connected /\ F.job = S.job /\ F.mine = S.mine
      /\ F.out = S.out
  BY <1>6, FlushFacts DEF Same
<1>8. Store(S, x, c) = JobNext(F, x) BY DEF Store, F, R, size
<1> HIDE DEF F
<1>9. Quiet(x, d, S.out) BY <1>1, <1>2, <1>3 DEF Quiet
<1>10. x \notin Connected(S) /\ S.mine[x] \notin {"unused", "dialing"}
  BY <1>1 DEF FreeXfers
<1>11. \A y \in Xfer \ {x} : /\ Quiet(y, data, S.out) => Quiet(y, d, S.out)
                             /\ \A k : OnlyAsks(y, k, data, S.out) => OnlyAsks(y, k, d, S.out)
  BY <1>3 DEF Quiet, OnlyAsks
<1>12. Waits(S, x) = c..e BY <1>3 DEF Waits
<1>13. /\ \A k \in 0..End : k < S.chunk <=> (k \in S.got \/ \E y \in Xfer : k \in Waits(S, y))
       /\ \A y \in Xfer : /\ Waits(S, y) \cap S.got = {}
                          /\ \A z \in Xfer \ {y} : Waits(S, y) \cap Waits(S, z) = {}
  BY <1>1, <1>4 DEF Once
\* Once when x waits for what comes after c.
<1>14. ASSUME NEW T, T.running = S.running, T.chunk = S.chunk, T.got = S.got \cup {c},
              Waits(T, x) = (c + 1)..e, \A y \in Xfer \ {x} : Waits(T, y) = Waits(S, y)
       PROVE  Once(T)
  <2>1. \A k \in 0..End : k \in c..e <=> k = c \/ k \in (c + 1)..e BY <1>3
  <2>2. c \notin (c + 1)..e /\ c \in c..e /\ (c + 1)..e \subseteq c..e BY <1>3
  <2>3. \A y \in Xfer \ {x} : c \notin Waits(S, y) BY <1>12, <1>13, <2>2
  <2>4. \A k \in 0..End : k < T.chunk <=> (k \in T.got \/ \E y \in Xfer : k \in Waits(T, y))
    <3> SUFFICES ASSUME NEW k \in 0..End
                 PROVE  k < S.chunk <=> (k \in S.got \cup {c} \/ \E y \in Xfer : k \in Waits(T, y))
      BY <1>14
    <3>1. (\E y \in Xfer : k \in Waits(S, y)) <=>
             k \in c..e \/ \E y \in Xfer \ {x} : k \in Waits(S, y)
      BY <1>12
    <3>2. (\E y \in Xfer : k \in Waits(T, y)) <=>
             k \in (c + 1)..e \/ \E y \in Xfer \ {x} : k \in Waits(S, y)
      BY <1>14
    <3> QED BY <1>13, <2>1, <3>1, <3>2
  <2>5. \A y \in Xfer : Waits(T, y) \subseteq Waits(S, y) /\ c \notin Waits(T, y)
    BY <1>12, <1>14, <2>2, <2>3
  <2>6. \A y \in Xfer : /\ Waits(T, y) \cap T.got = {}
                        /\ \A z \in Xfer \ {y} : Waits(T, y) \cap Waits(T, z) = {}
    BY <1>13, <1>14, <2>5
  <2> QED BY <2>4, <2>6 DEF Once
<1>15. CASE c + 1 <= e
  <2> DEFINE T == JobNext(F, x)
  <2>1. F.job[x] # NoJob /\ F.job[x].chunk <= F.job[x].end BY <1>3, <1>7, <1>15 DEF e
  <2>2. /\ T \in Downloader
        /\ T.running = F.running /\ T.chunk = F.chunk /\ T.all = F.all
        /\ T.connected = F.connected /\ T.got = F.got /\ T.mine = F.mine
        /\ T.job[x] = [chunk |-> F.job[x].chunk + 1, end |-> F.job[x].end]
        /\ T.out[x] \in {F.out[x], Append(F.out[x], F.job[x].chunk)}
        /\ \A y \in Xfer \ {x} : T.job[y] = F.job[y] /\ T.out[y] = F.out[y]
    BY <1>7, <2>1, AskFacts
  <2> HIDE DEF T
  <2>3. /\ T.job[x] # NoJob /\ T.job[x].chunk = c + 2 /\ T.job[x].end = e
        /\ T.out[x] = <<>> \/ T.out[x] = <<c + 1>>
    <3>1. F.job[x].chunk = c + 1 /\ F.job[x].end = e /\ F.out[x] = <<>> BY <1>1, <1>3, <1>7 DEF e
    <3>2. T.job[x] = [chunk |-> c + 2, end |-> e] BY <1>3, <2>2, <3>1
    <3>3. c \in Nat /\ e \in Nat BY <1>3
    <3>4. T.job[x] # NoJob /\ T.job[x].chunk = c + 2 /\ T.job[x].end = e
      BY <3>2, <3>3, FileFacts
    <3>5. T.out[x] = <<>> \/ T.out[x] = <<c + 1>> BY <2>2, <3>1
    <3> QED BY <3>4, <3>5
  <2>4. FreeXfers(T, d)
    <3>1. Connected(T) = Connected(S) BY <1>7, <2>2 DEF Connected
    <3>2. \A y \in Xfer \ {x} : Quiet(y, data, S.out) => Quiet(y, d, T.out)
      BY <1>7, <1>11, <2>2 DEF Quiet
    <3>3. Connected(S) \subseteq Xfer \ {x} BY <1>1, <1>10 DEF Connected, Range, Downloader
    <3>4. \A y \in Connected(T) : T.job[y] = NoJob /\ Quiet(y, d, T.out)
      <4> SUFFICES ASSUME NEW y \in Connected(S) PROVE T.job[y] = NoJob /\ Quiet(y, d, T.out)
        BY <3>1
      <4>1. y \in Xfer \ {x} /\ S.job[y] = NoJob /\ Quiet(y, data, S.out)
        BY <1>1, <3>3 DEF FreeXfers
      <4> QED BY <1>7, <2>2, <3>2, <4>1
    <3>5. \A y \in Xfer : T.mine[y] \in {"unused", "dialing"} =>
             y \notin Connected(T) /\ T.job[y] = NoJob /\ Quiet(y, d, T.out)
      <4> SUFFICES ASSUME NEW y \in Xfer, S.mine[y] \in {"unused", "dialing"}
                   PROVE  y \notin Connected(T) /\ T.job[y] = NoJob /\ Quiet(y, d, T.out)
        <5>1. T.mine = S.mine BY <1>7, <2>2
        <5> QED BY <5>1
      <4>1. /\ y \in Xfer \ {x} /\ y \notin Connected(S) /\ S.job[y] = NoJob
            /\ Quiet(y, data, S.out)
        BY <1>1, <1>10 DEF FreeXfers
      <4> QED BY <1>7, <2>2, <3>1, <3>2, <4>1
    <3>6. \A i, j \in 1..Len(T.connected) : T.connected[i] = T.connected[j] => i = j
      BY <1>1, <1>7, <2>2 DEF FreeXfers
    <3> QED BY <3>4, <3>5, <3>6 DEF FreeXfers
  <2>5. Jobs(T, d)
    <3>1. OnlyAsks(x, c + 1, d, T.out)
      <4>1. reqs[x] = <<>> /\ d[x] = <<>> /\ \A k \in 0..End : <<x, k>> \notin up.reading
        BY <1>2, <1>3
      <4>2. c + 1 \in 0..End BY <1>3, <1>15, FileFacts
      <4> QED BY <2>3, <4>1, <4>2 DEF OnlyAsks
    <3>2. c + 2 \in 1..(e + 1) /\ (c + 2) - 1 = c + 1
      <4>1. c \in Nat /\ e \in Nat BY <1>3
      <4> QED BY <1>15, <4>1
    <3>3. \A y \in Xfer \ {x} : \A k : OnlyAsks(y, k, data, S.out) => OnlyAsks(y, k, d, T.out)
      BY <1>7, <1>11, <2>2 DEF OnlyAsks
    <3>4. \A y \in Xfer \ {x} : T.job[y] # NoJob =>
             T.job[y].chunk \in 1..(T.job[y].end + 1) /\ OnlyAsks(y, T.job[y].chunk - 1, d, T.out)
      <4> SUFFICES ASSUME NEW y \in Xfer \ {x}, T.job[y] # NoJob
                   PROVE  /\ T.job[y].chunk \in 1..(T.job[y].end + 1)
                          /\ OnlyAsks(y, T.job[y].chunk - 1, d, T.out)
        OBVIOUS
      <4>1. T.job[y] = S.job[y] BY <1>7, <2>2
      <4>2. S.job[y].chunk \in 1..(S.job[y].end + 1) /\ OnlyAsks(y, S.job[y].chunk - 1, data, S.out)
        BY <1>1, <4>1 DEF Jobs
      <4> QED BY <3>3, <4>1, <4>2
    <3> QED BY <2>3, <3>1, <3>2, <3>4 DEF Jobs
  <2>6. Once(T)
    <3>1. Waits(T, x) = (c + 1)..e
      <4>1. (c + 2) - 1 = c + 1 BY <1>3
      <4>2. Waits(T, x) = (T.job[x].chunk - 1)..T.job[x].end BY <2>3 DEF Waits
      <4> QED BY <2>3, <4>1, <4>2
    <3>2. \A y \in Xfer \ {x} : Waits(T, y) = Waits(S, y) BY <1>7, <2>2 DEF Waits
    <3> QED BY <1>7, <1>14, <2>2, <3>1, <3>2
  <2>7. Ended(T) BY <1>4, <1>7, <2>2 DEF Ended
  <2> QED BY <1>8, <2>2, <2>4, <2>5, <2>6, <2>7 DEF Good, T, c
<1>16. CASE ~(c + 1 <= e)
  <2> DEFINE T == [F EXCEPT !.job[x] = NoJob, !.connected = Append(@, x)]
             U == [T EXCEPT !.finished = TRUE]
  <2>1. JobNext(F, x) = Done(F, x)
    <3>1. F.job[x].chunk = c + 1 /\ F.job[x].end = e BY <1>3, <1>7
    <3>2. F.job[x].chunk > F.job[x].end BY <1>3, <1>16, <3>1
    <3> QED BY <3>2 DEF JobNext
  <2>2. Done(F, x) \in {T, CancelSession(Flush(U))} BY DEF Done
  <2>3. /\ Append(S.connected, x) \in Seq(Xfer)
        /\ [S.job EXCEPT ![x] = NoJob] \in [Xfer -> {NoJob} \cup [chunk : 0..Chunks, end : 0..End]]
    BY <1>1 DEF Downloader
  <2>4. T = [F EXCEPT !.job = [S.job EXCEPT ![x] = NoJob], !.connected = Append(S.connected, x)]
    BY <1>7
  <2> HIDE DEF T
  <2>5. /\ T \in Downloader
        /\ T.running = S.running /\ T.chunk = S.chunk /\ T.all = S.all
        /\ T.connected = Append(S.connected, x) /\ T.got = S.got \cup {c} /\ T.mine = S.mine
        /\ T.job = [S.job EXCEPT ![x] = NoJob] /\ T.out = S.out
    BY <1>7, <2>3, <2>4 DEF Downloader
  <2>6. /\ T.job[x] = NoJob /\ \A y \in Xfer \ {x} : T.job[y] = S.job[y]
    BY <1>1, <2>5
  <2>7. FreeXfers(T, d)
    <3>1. S.connected \in Seq(Xfer) BY <1>1 DEF Downloader
    <3>2. /\ Connected(T) = Connected(S) \cup {x}
          /\ \A i, j \in 1..Len(T.connected) : T.connected[i] = T.connected[j] => i = j
      <4>1. x \notin Range(S.connected) BY <1>10 DEF Connected
      <4>2. \A i, j \in 1..Len(S.connected) : S.connected[i] = S.connected[j] => i = j
        BY <1>1 DEF FreeXfers
      <4>3. PICK r \in Seq(Xfer) :
               /\ r = Append(S.connected, x) /\ Range(r) = Range(S.connected) \cup {x}
               /\ \A i, j \in 1..Len(r) : r[i] = r[j] => i = j
        BY <3>1, <4>1, <4>2, AppendFacts
      <4>4. T.connected = r BY <2>5, <4>3
      <4> QED BY <4>3, <4>4 DEF Connected
    <3>3. Connected(S) \subseteq Xfer BY <3>1 DEF Connected, Range
    <3>4. \A y \in Connected(T) : T.job[y] = NoJob /\ Quiet(y, d, T.out)
      <4> SUFFICES ASSUME NEW y \in Connected(S) \cup {x}
                   PROVE  T.job[y] = NoJob /\ Quiet(y, d, T.out)
        BY <3>2
      <4>1. CASE y = x BY <1>9, <2>5, <2>6, <4>1
      <4>2. CASE y # x
        <5>1. y \in Xfer \ {x} /\ S.job[y] = NoJob /\ Quiet(y, data, S.out)
          BY <1>1, <3>3, <4>2 DEF FreeXfers
        <5> QED BY <1>11, <2>5, <2>6, <5>1
      <4> QED BY <4>1, <4>2
    <3>5. \A y \in Xfer : T.mine[y] \in {"unused", "dialing"} =>
             y \notin Connected(T) /\ T.job[y] = NoJob /\ Quiet(y, d, T.out)
      BY <1>1, <1>10, <1>11, <2>5, <2>6, <3>2 DEF FreeXfers
    <3> QED BY <3>2, <3>4, <3>5 DEF FreeXfers
  <2>8. CASE Done(F, x) = T
    <3>1. Jobs(T, d) BY <1>1, <1>11, <2>5, <2>6 DEF Jobs
    <3>2. Once(T)
      <4>1. Waits(T, x) = (c + 1)..e BY <1>3, <1>16, <2>6 DEF Waits
      <4>2. \A y \in Xfer \ {x} : Waits(T, y) = Waits(S, y) BY <2>6 DEF Waits
      <4> QED BY <1>14, <2>5, <4>1, <4>2
    <3>3. Ended(T) BY <1>4, <2>5 DEF Ended
    <3> QED BY <1>8, <2>1, <2>5, <2>7, <2>8, <3>1, <3>2, <3>3 DEF Good, c
  <2>9. CASE Done(F, x) = CancelSession(Flush(U))
    <3>1. U \in Downloader /\ U.mine = T.mine /\ U.out = T.out BY <2>5 DEF Downloader
    <3> HIDE DEF U
    <3>2. Flush(U) \in Downloader /\ Flush(U).mine = T.mine /\ Flush(U).out = T.out
      BY <3>1, FlushFacts DEF Same
    <3>3. \A y \in Xfer : Flush(U).mine[y] \in {"unused", "dialing"} => Quiet(y, d, Flush(U).out)
      BY <2>7, <3>2 DEF FreeXfers
    <3>4. Good(CancelSession(Flush(U)), d) BY <3>2, <3>3, CancelGood
    <3> QED BY <1>8, <2>1, <2>9, <3>4 DEF c
  <2> QED BY <2>2, <2>8, <2>9
<1> QED BY <1>15, <1>16

\* rmXfer takes an xfer out of the queue.
LEMMA RemoveFacts ==
    ASSUME NEW q \in Seq(Xfer), NEW x \in Xfer,
           \A i, j \in 1..Len(q) : q[i] = q[j] => i = j
    PROVE  \E r \in Seq(Xfer) :
              /\ r = RemoveFirst(q, x) /\ Range(r) \subseteq Range(q)
              /\ q = <<>> => r = <<>>
              /\ \A i, j \in 1..Len(r) : r[i] = r[j] => i = j
<1>1. CASE ~\E i \in 1..Len(q) : q[i] = x
  <2>1. RemoveFirst(q, x) = q BY <1>1 DEF RemoveFirst
  <2> QED BY <2>1
<1>2. CASE \E i \in 1..Len(q) : q[i] = x
  <2>1. PICK k \in 1..Len(q) : q[k] = x BY <1>2
  <2>2. {i \in 1..Len(q) : q[i] = x} = {k} BY <2>1
  <2>3. Min({k}) = k BY DEF Min
  <2>4. SelectInSeq(q, LAMBDA v : v = x) = k BY <2>2, <2>3 DEF SelectInSeq
  <2> DEFINE a == SubSeq(q, 1, k - 1)
             b == SubSeq(q, k + 1, Len(q))
             r == a \o b
  <2>5. RemoveFirst(q, x) = r BY <1>2, <2>4 DEF RemoveFirst, RemoveAt
  <2>6. Len(q) \in Nat /\ k \in Nat /\ DOMAIN q = 1..Len(q) /\ \A i \in 1..Len(q) : q[i] \in Xfer
    BY <2>1
  <2>7. /\ a \in Seq(Xfer) /\ Len(a) = k - 1 /\ \A i \in 1..(k - 1) : a[i] = q[i]
    <3>1. k - 1 \in Int /\ \A i \in 1..(k - 1) : q[i] \in Xfer BY <2>1, <2>6
    <3>2. /\ a \in Seq(Xfer) /\ Len(a) = IF 1 <= k - 1 THEN k - 1 - 1 + 1 ELSE 0
          /\ \A i \in 1..(k - 1 - 1 + 1) : a[i] = q[1 + i - 1]
      BY <3>1, SubSeqProperties
    <3> HIDE DEF a
    <3> QED BY <2>1, <2>6, <3>2
  <2>8. /\ b \in Seq(Xfer) /\ Len(b) = Len(q) - k /\ \A i \in 1..(Len(q) - k) : b[i] = q[k + i]
    <3>1. k + 1 \in Int /\ \A i \in (k + 1)..Len(q) : q[i] \in Xfer BY <2>1, <2>6
    <3>2. /\ b \in Seq(Xfer) /\ Len(b) = IF k + 1 <= Len(q) THEN Len(q) - (k + 1) + 1 ELSE 0
          /\ \A i \in 1..(Len(q) - (k + 1) + 1) : b[i] = q[k + 1 + i - 1]
      BY <2>6, <3>1, SubSeqProperties
    <3> HIDE DEF b
    <3>3. Len(b) = Len(q) - k
      <4>1. k \in Nat /\ k <= Len(q) BY <2>1, <2>6
      <4>2. CASE k + 1 <= Len(q) BY <2>6, <3>2, <4>1, <4>2
      <4>3. CASE k = Len(q) BY <2>6, <3>2, <4>3
      <4>4. k + 1 <= Len(q) \/ k = Len(q)
        <5>1. Len(q) \in Nat BY <2>6
        <5> QED BY <4>1, <5>1
      <4> QED BY <4>2, <4>3, <4>4
    <3>4. ASSUME NEW i \in 1..(Len(q) - k) PROVE b[i] = q[k + i]
      <4>1. i \in 1..(Len(q) - (k + 1) + 1) /\ k + 1 + i - 1 = k + i BY <2>1, <2>6
      <4>2. b[i] = q[k + 1 + i - 1] BY <3>2, <4>1
      <4> QED BY <4>1, <4>2
    <3> QED BY <3>2, <3>3, <3>4
  <2> HIDE DEF a, b
  <2>9. /\ r \in Seq(Xfer) /\ Len(r) = Len(a) + Len(b)
        /\ \A i \in 1..(Len(a) + Len(b)) : r[i] = IF i <= Len(a) THEN a[i] ELSE b[i - Len(a)]
    <3>1. a \in Seq(Xfer) /\ b \in Seq(Xfer) BY <2>7, <2>8
    <3>2. /\ a \o b \in Seq(Xfer) /\ Len(a \o b) = Len(a) + Len(b)
          /\ \A i \in 1..(Len(a) + Len(b)) :
                (a \o b)[i] = IF i <= Len(a) THEN a[i] ELSE b[i - Len(a)]
      BY <3>1, ConcatProperties
    <3> QED BY <3>2
  <2> HIDE DEF r
  \* What is before x stays where it is, what comes after it moves up.
  <2>10. /\ Len(r) = Len(q) - 1 /\ DOMAIN r = 1..Len(r)
         /\ \A i \in 1..Len(r) : r[i] = q[IF i < k THEN i ELSE i + 1]
    <3>1. Len(r) = Len(q) - 1 /\ DOMAIN r = 1..Len(r) BY <2>6, <2>7, <2>8, <2>9
    <3>2. ASSUME NEW i \in 1..Len(r) PROVE r[i] = q[IF i < k THEN i ELSE i + 1]
      <4>0. i \in 1..(Len(a) + Len(b)) /\ i \in Nat BY <2>9
      <4>1. CASE i < k
        <5>1. i <= Len(a) /\ i \in 1..(k - 1) BY <2>1, <2>6, <2>7, <4>0, <4>1
        <5> QED BY <2>7, <2>9, <4>0, <4>1, <5>1
      <4>2. CASE ~(i < k)
        <5>1. i - (k - 1) \in 1..(Len(q) - k) /\ k + (i - (k - 1)) = i + 1 /\ ~(i <= k - 1)
          BY <2>1, <2>6, <3>1, <4>2
        <5>2. r[i] = b[i - (k - 1)] BY <2>7, <2>9, <4>0, <5>1
        <5>3. b[i - (k - 1)] = q[i + 1] BY <2>8, <5>1
        <5> QED BY <4>2, <5>2, <5>3
      <4> QED BY <4>1, <4>2
    <3> QED BY <3>1, <3>2
  <2>11. \A i \in 1..Len(r) : (IF i < k THEN i ELSE i + 1) \in 1..Len(q) BY <2>1, <2>6, <2>10
  <2>12. Range(r) \subseteq Range(q) BY <2>6, <2>10, <2>11 DEF Range
  <2>13. ASSUME NEW i \in 1..Len(r), NEW j \in 1..Len(r), r[i] = r[j] PROVE i = j
    <3>1. (IF i < k THEN i ELSE i + 1) = (IF j < k THEN j ELSE j + 1) BY <2>10, <2>11, <2>13
    <3> QED BY <2>6, <3>1
  <2>14. q # <<>> BY <2>1
  <2> QED BY <2>5, <2>9, <2>12, <2>13, <2>14
<1> QED BY <1>1, <1>2

\* What is lost on its way is not missed here.
LEMMA LessData ==
    ASSUME NEW S, NEW d, Good(S, d), NEW e, \A x \in Xfer : e[x] \in {d[x], <<>>}
    PROVE  Good(S, e)
<1>1. \A x \in Xfer : /\ Quiet(x, d, S.out) => Quiet(x, e, S.out)
                      /\ \A k : OnlyAsks(x, k, d, S.out) => OnlyAsks(x, k, e, S.out)
  BY DEF Quiet, OnlyAsks
<1>2. Connected(S) \subseteq Xfer BY DEF Good, Downloader, Connected, Range
<1> QED BY <1>1, <1>2 DEF Good, FreeXfers, Jobs

\* What the functions have sent goes on its way.
LEMMA BecomeInv ==
    ASSUME FileInv, NEW S, Become(S), Good(S, data'), up' \in Uploader, up'.reading = up.reading,
           data' \in [Xfer -> Seq(0..End)], trouble' \in 0..MaxTrouble
    PROVE  FileInv'
<1> DEFINE none == [x \in Xfer |-> <<>>]
<1>1. S \in Downloader BY DEF Good
<1>2. down' = [S EXCEPT !.out = none] BY DEF Become
<1>3. none \in [Xfer -> Seq((0..End) \cup {Bye})] /\ \A x \in Xfer : none[x] = <<>> OBVIOUS
<1> HIDE DEF none
<1>4. /\ down' \in Downloader /\ down'.out = none
      /\ down'.running = S.running /\ down'.chunk = S.chunk /\ down'.all = S.all
      /\ down'.connected = S.connected /\ down'.job = S.job /\ down'.got = S.got
      /\ down'.mine = S.mine
  BY <1>1, <1>2, <1>3 DEF Downloader
<1>5. /\ S.out \in [Xfer -> Seq((0..End) \cup {Bye})]
      /\ reqs \in [Xfer -> Seq((0..End) \cup {Bye})]
  BY <1>1 DEF Downloader, FileInv, Types
<1>6. \A x \in Xfer : reqs'[x] \in {reqs[x], reqs[x] \o S.out[x]} BY DEF Become
<1>7. reqs' \in [Xfer -> Seq((0..End) \cup {Bye})]
  <2>1. \A x \in Xfer : reqs[x] \o S.out[x] \in Seq((0..End) \cup {Bye})
    BY <1>5, ConcatProperties
  <2>2. reqs' = [x \in Xfer |-> reqs'[x]] BY DEF Become
  <2>3. \A x \in Xfer : reqs'[x] \in Seq((0..End) \cup {Bye}) BY <1>5, <1>6, <2>1
  <2> QED BY <2>2, <2>3
<1>8. Types' BY <1>4, <1>7 DEF Types
<1>9. \A x \in Xfer : /\ reqs[x] = <<>> => reqs[x] \o S.out[x] = S.out[x]
                      /\ S.out[x] = <<>> => reqs[x] \o S.out[x] = reqs[x]
  <2> TAKE x \in Xfer
  <2>1. /\ reqs[x] \in Seq((0..End) \cup {Bye}) /\ S.out[x] \in Seq((0..End) \cup {Bye})
    BY <1>5
  <2>2. <<>> \o S.out[x] = S.out[x] /\ reqs[x] \o <<>> = reqs[x] BY <2>1, ConcatEmptySeq
  <2> QED BY <2>2
<1>10. ASSUME NEW x \in Xfer, Quiet(x, data', S.out)
       PROVE  Quiet(x, data, down.out)'
  <2>1. reqs'[x] = <<>> /\ down'.out[x] = <<>> BY <1>3, <1>4, <1>6, <1>9, <1>10 DEF Quiet
  <2> QED BY <1>10, <2>1 DEF Quiet
<1>11. ASSUME NEW x \in Xfer, NEW k, OnlyAsks(x, k, data', S.out)
       PROVE  OnlyAsks(x, k, data, down.out)'
  <2>1. down'.out[x] = <<>> BY <1>3, <1>4
  <2>2. reqs'[x] \in {reqs[x], S.out[x]} BY <1>6, <1>9, <1>11 DEF OnlyAsks
  <2> QED BY <1>11, <2>1, <2>2 DEF OnlyAsks
<1>12. (Connected(down) = Connected(S))' /\ Connected(S) \subseteq Xfer
  BY <1>1, <1>4 DEF Connected, Range, Downloader
<1>13. FreeXfers(down, data)'
  <2>1. \A x \in Connected(S) : S.job[x] = NoJob /\ Quiet(x, data, down.out)'
    BY <1>10, <1>12 DEF Good, FreeXfers
  <2>2. \A x \in Xfer : S.mine[x] \in {"unused", "dialing"} =>
           x \notin Connected(S) /\ S.job[x] = NoJob /\ Quiet(x, data, down.out)'
    BY <1>10 DEF Good, FreeXfers
  <2>3. \A i, j \in 1..Len(S.connected) : S.connected[i] = S.connected[j] => i = j
    BY DEF Good, FreeXfers
  <2>4. Connected(down)' = Connected(S) BY <1>4 DEF Connected
  <2> QED BY <1>4, <2>1, <2>2, <2>3, <2>4 DEF FreeXfers
<1>14. Jobs(down, data)'
  <2>1. \A x \in Xfer : S.job[x] # NoJob =>
           /\ S.job[x].chunk \in 1..(S.job[x].end + 1)
           /\ OnlyAsks(x, S.job[x].chunk - 1, data, down.out)'
    BY <1>11 DEF Good, Jobs
  <2> QED BY <1>4, <2>1 DEF Jobs
<1>15. Once(down)' /\ Ended(down)' BY <1>4 DEF Good, Once, Waits, Ended
<1> QED BY <1>2, <1>4, <1>8, <1>13, <1>14, <1>15 DEF FileInv, Good, none

\* A step that leaves the session alone.
LEMMA StepInv ==
    ASSUME FileInv, Types',
           /\ down'.running = down.running /\ down'.chunk = down.chunk /\ down'.all = down.all
           /\ down'.connected = down.connected /\ down'.job = down.job /\ down'.got = down.got
           /\ down'.out = down.out,
           \A x \in Xfer : /\ down'.mine[x] \in {"unused", "dialing"} =>
                                  down.mine[x] \in {"unused", "dialing"}
                           /\ Quiet(x, data, down.out) => Quiet(x, data, down.out)'
                           /\ \A k \in 0..End : OnlyAsks(x, k, data, down.out)
                                                   => OnlyAsks(x, k, data, down.out)'
    PROVE  FileInv'
<1>1. Connected(down)' = Connected(down) /\ Connected(down) \subseteq Xfer
  BY DEF Connected, Range, FileInv, Types, Downloader
<1>2. FreeXfers(down, data)'
  <2>1. \A x \in Connected(down) : down.job[x] = NoJob /\ Quiet(x, data, down.out)'
    BY <1>1 DEF FileInv, Good, FreeXfers
  <2>2. \A x \in Xfer : down'.mine[x] \in {"unused", "dialing"} =>
           x \notin Connected(down) /\ down.job[x] = NoJob /\ Quiet(x, data, down.out)'
    BY DEF FileInv, Good, FreeXfers
  <2>3. \A i, j \in 1..Len(down.connected) : down.connected[i] = down.connected[j] => i = j
    BY DEF FileInv, Good, FreeXfers
  <2> QED BY <1>1, <2>1, <2>2, <2>3 DEF FreeXfers
<1>3. Jobs(down, data)'
  <2> SUFFICES ASSUME NEW x \in Xfer, down.job[x] # NoJob
               PROVE  /\ down.job[x].chunk \in 1..(down.job[x].end + 1)
                      /\ OnlyAsks(x, down.job[x].chunk - 1, data, down.out)'
    BY DEF Jobs
  <2>1. /\ down.job[x].chunk \in 1..(down.job[x].end + 1) /\ down.job[x].end \in 0..End
        /\ OnlyAsks(x, down.job[x].chunk - 1, data, down.out)
    BY DEF FileInv, Good, Jobs, Downloader
  <2>2. down.job[x].chunk - 1 \in 0..End BY <2>1, FileFacts
  <2> QED BY <2>1, <2>2
<1>4. Once(down)' /\ Ended(down)' BY DEF FileInv, Good, Once, Waits, Ended
<1>5. (down \in Downloader)' BY DEF Types
<1>6. down'.out = [x \in Xfer |-> <<>>] BY DEF FileInv
<1> QED BY <1>2, <1>3, <1>4, <1>5, <1>6 DEF FileInv, Good

-----------------------------------------------------------------------------
(* One step per action. *)

LEMMA FreshFacts == Fresh \in Downloader
<1>1. <<>> \in Seq(Xfer) /\ <<>> \in Seq((0..End) \cup {Bye}) OBVIOUS
<1> QED BY <1>1, FileFacts DEF Fresh, Downloader

LEMMA InitInv == Init => FileInv
<1> SUFFICES ASSUME Init PROVE FileInv OBVIOUS
<1>1. down \in Downloader /\ up \in Uploader
  BY FreshFacts DEF Init, Uploader, State
<1>2. Types BY <1>1, FileFacts DEF Init, Types
<1>3. /\ down.running = FALSE /\ down.all = {} /\ down.connected = <<>>
      /\ \A x \in Xfer : down.job[x] = NoJob /\ Quiet(x, data, down.out)
      /\ down.out = [x \in Xfer |-> <<>>]
  BY DEF Init, Fresh, Quiet
<1>4. Connected(down) = {} BY <1>3 DEF Connected, Range
<1>5. FreeXfers(down, data) BY <1>3, <1>4 DEF FreeXfers
<1> QED BY <1>1, <1>2, <1>3, <1>5 DEF FileInv, Good, Ended, Jobs, Once

\* What FileInv says, for short.
LEMMA Now ==
    ASSUME FileInv
    PROVE  /\ down \in Downloader /\ up \in Uploader
           /\ reqs \in [Xfer -> Seq((0..End) \cup {Bye})] /\ data \in [Xfer -> Seq(0..End)]
           /\ trouble \in 0..MaxTrouble /\ Good(down, data)
           /\ \A x \in Xfer : down.out[x] = <<>>
           /\ \A x \in Xfer : down.mine[x] \in {"unused", "dialing"} => Quiet(x, data, down.out)
BY DEF FileInv, Types, Good, FreeXfers

LEMMA DownloadInv == FileInv /\ Download => FileInv'
<1> SUFFICES ASSUME FileInv, Download PROVE FileInv' OBVIOUS
<1> DEFINE S == [Fresh EXCEPT !.running = TRUE, !.writer = "opening", !.downloading = TRUE,
                              !.mine = down.mine, !.closing = down.closing,
                              !.starts = down.starts + 1]
<1>1. Become(AddXfer(S)) /\ up' = up /\ data' = data /\ trouble' = trouble BY DEF Download
<1>2. /\ down.starts + 1 \in 0..MaxStarts
      /\ down.mine \in [Xfer -> {"unused", "dialing", "up", "cut", "dead", "closed"}]
      /\ down.closing \in SUBSET Xfer
  BY Now, FileFacts DEF Download, Downloader
<1>3. S \in Downloader BY <1>2, FreshFacts DEF Downloader
<1>4. /\ S.running = TRUE /\ S.connected = <<>> /\ S.chunk = 0 /\ S.got = {}
      /\ S.mine = down.mine /\ \A x \in Xfer : S.job[x] = NoJob /\ S.out[x] = <<>>
  BY DEF Fresh
<1> HIDE DEF S
<1>5. Good(S, data)
  <2>1. Connected(S) = {} BY <1>4 DEF Connected, Range
  <2>2. FreeXfers(S, data) BY <1>4, <2>1, Now DEF FreeXfers, Quiet
  <2>3. \A x \in Xfer : Waits(S, x) = {} BY <1>4 DEF Waits
  <2>4. Once(S) BY <1>4, <2>3, FileFacts DEF Once
  <2> QED BY <1>3, <1>4, <2>2, <2>4 DEF Good, Ended, Jobs
<1>6. Good(AddXfer(S), data) BY <1>4, <1>5, AddXferGood
<1> QED BY <1>1, <1>6, BecomeInv, Now

LEMMA CancelInv == FileInv /\ Cancel => FileInv'
<1> SUFFICES ASSUME FileInv, Cancel PROVE FileInv' OBVIOUS
<1> DEFINE C == CancelSession(down)
           S == [C EXCEPT !.writer = "stopped", !.buffer = {}, !.flight = {},
                          !.downloading = FALSE, !.cancelled = TRUE]
<1>1. Become(S) /\ up' = up /\ data' = data /\ trouble' = trouble BY DEF Cancel
<1>2. Good(C, data) BY Now, CancelGood
<1> HIDE DEF C
<1>3. S \in Downloader /\ Same(C, S) BY <1>2 DEF Good, Downloader, Same
<1> HIDE DEF S
<1>4. Good(S, data) BY <1>2, <1>3, SameGood
<1> QED BY <1>1, <1>4, BecomeInv, Now

LEMMA TickInv == FileInv /\ Tick => FileInv'
<1> SUFFICES ASSUME FileInv, Tick PROVE FileInv' OBVIOUS
<1> DEFINE S == Process(down)
           T == IF WantsMore(S) THEN AddXfer(S) ELSE S
<1>1. Become(T) /\ up' = up /\ data' = data /\ trouble' = trouble BY DEF Tick
<1>2. Good(S, data) BY Now, ProcessGood
<1> HIDE DEF S
<1>3. Good(T, data) BY <1>2, AddXferGood DEF WantsMore
<1> HIDE DEF T
<1> QED BY <1>1, <1>3, BecomeInv, Now

LEMMA HandleDataInv == ASSUME NEW x \in Xfer PROVE FileInv /\ HandleData(x) => FileInv'
<1> SUFFICES ASSUME FileInv, HandleData(x) PROVE FileInv' OBVIOUS
<1> DEFINE S == IF down.job[x] = NoJob THEN down ELSE Store(down, x, Head(data[x]))
<1>1. /\ Become(S) /\ up' = up /\ trouble' = trouble /\ data[x] # <<>>
      /\ data' = [data EXCEPT ![x] = Tail(@)]
  BY DEF HandleData
<1>2. data' \in [Xfer -> Seq(0..End)] BY <1>1, Now
<1>3. Good(S, data')
  <2> DEFINE d == [data EXCEPT ![x] = Tail(@)]
  <2>1. CASE down.job[x] = NoJob
    <3>1. \A y \in Xfer \ {x} : d[y] = data[y] BY Now
    <3>2. ASSUME NEW y \in Xfer, Quiet(y, data, down.out) PROVE Quiet(y, d, down.out)
      BY <1>1, <3>1, <3>2 DEF Quiet
    <3>3. ASSUME NEW y \in Xfer, down.job[y] # NoJob
          PROVE  /\ down.job[y].chunk \in 1..(down.job[y].end + 1)
                 /\ OnlyAsks(y, down.job[y].chunk - 1, d, down.out)
      <4>1. y # x BY <2>1, <3>3
      <4>2. /\ down.job[y].chunk \in 1..(down.job[y].end + 1)
            /\ OnlyAsks(y, down.job[y].chunk - 1, data, down.out)
        BY <3>3, Now DEF Good, Jobs
      <4> QED BY <3>1, <4>1, <4>2 DEF OnlyAsks
    <3> HIDE DEF d
    <3>4. Connected(down) \subseteq Xfer BY Now DEF Connected, Range, Downloader
    <3>5. Good(down, d) BY <3>2, <3>3, <3>4, Now DEF Good, FreeXfers, Jobs
    <3> QED BY <1>1, <2>1, <3>5 DEF d
  <2>2. CASE down.job[x] # NoJob
    <3> HIDE DEF d
    <3>1. Good(Store(down, x, Head(data[x])), d) BY <1>1, <2>2, StoreGood DEF d
    <3> QED BY <1>1, <2>2, <3>1 DEF d
  <2> QED BY <2>1, <2>2
<1> HIDE DEF S
<1> QED BY <1>1, <1>2, <1>3, BecomeInv, Now

LEMMA OpenedInv == FileInv /\ Opened => FileInv'
<1> SUFFICES ASSUME FileInv, Opened PROVE FileInv' OBVIOUS
<1> DEFINE S == [down EXCEPT !.writer = "idle"]
<1>1. Become(Flush(S)) /\ up' = up /\ data' = data /\ trouble' = trouble BY DEF Opened
<1>2. S \in Downloader /\ Same(down, S) BY Now DEF Downloader, Same
<1> HIDE DEF S
<1>3. Good(S, data) BY <1>2, Now, SameGood
<1>4. Good(Flush(S), data) BY <1>2, <1>3, FlushFacts, SameGood
<1> QED BY <1>1, <1>4, BecomeInv, Now

LEMMA OpenFailsInv == FileInv /\ OpenFails => FileInv'
<1> SUFFICES ASSUME FileInv, OpenFails PROVE FileInv' OBVIOUS
<1> DEFINE C == CancelSession(down)
           S == [C EXCEPT !.writer = "failed", !.error = TRUE]
<1>1. Become(S) /\ up' = up /\ data' = data /\ trouble' \in 0..MaxTrouble
  BY Now, FileFacts DEF OpenFails, Spend
<1>2. Good(C, data) BY Now, CancelGood
<1> HIDE DEF C
<1>3. S \in Downloader /\ Same(C, S) BY <1>2 DEF Good, Downloader, Same
<1> HIDE DEF S
<1>4. Good(S, data) BY <1>2, <1>3, SameGood
<1> QED BY <1>1, <1>4, BecomeInv, Now

LEMMA WriteEndInv == FileInv /\ WriteEnd => FileInv'
<1> SUFFICES ASSUME FileInv, WriteEnd PROVE FileInv' OBVIOUS
<1> DEFINE S == [down EXCEPT !.writer = "idle", !.disk = @ \cup down.flight, !.flight = {}]
<1>1. Become(Flush(S)) /\ up' = up /\ data' = data /\ trouble' = trouble BY DEF WriteEnd
<1>2. S \in Downloader /\ Same(down, S) BY Now DEF Downloader, Same
<1> HIDE DEF S
<1>3. Good(S, data) BY <1>2, Now, SameGood
<1>4. Good(Flush(S), data) BY <1>2, <1>3, FlushFacts, SameGood
<1> QED BY <1>1, <1>4, BecomeInv, Now

LEMMA WriteFailsInv == FileInv /\ WriteFails => FileInv'
<1> SUFFICES ASSUME FileInv, WriteFails PROVE FileInv' OBVIOUS
<1> DEFINE S == [down EXCEPT !.writer = "idle", !.spoiled = TRUE, !.flight = {}]
<1>1. Become(Flush(S)) /\ up' = up /\ data' = data /\ trouble' \in 0..MaxTrouble
  BY Now, FileFacts DEF WriteFails, Spend
<1>2. S \in Downloader /\ Same(down, S) BY Now DEF Downloader, Same
<1> HIDE DEF S
<1>3. Good(S, data) BY <1>2, Now, SameGood
<1>4. Good(Flush(S), data) BY <1>2, <1>3, FlushFacts, SameGood
<1> QED BY <1>1, <1>4, BecomeInv, Now

LEMMA ConnectInv == ASSUME NEW x \in Xfer PROVE FileInv /\ Connect(x) => FileInv'
<1> SUFFICES ASSUME FileInv, Connect(x) PROVE FileInv' OBVIOUS
<1> DEFINE q == IF x \in down.all THEN Append(down.connected, x) ELSE down.connected
           mine == [down.mine EXCEPT ![x] = "up"]
           S == [down EXCEPT !.mine[x] = "up",
                             !.connected = IF x \in down.all THEN Append(@, x) ELSE @]
           T == IF x = S.first THEN Process(S) ELSE S
<1>1. /\ Become(T) /\ data' = data /\ trouble' = trouble /\ up' = [up EXCEPT !.far[x] = "up"]
      /\ down.mine[x] = "dialing"
  BY DEF Connect
<1>2. up' \in Uploader /\ up'.reading = up.reading BY <1>1, Now DEF Uploader, State
<1>3. /\ down.connected \in Seq(Xfer) /\ x \notin Connected(down) /\ down.job[x] = NoJob
      /\ Quiet(x, data, down.out)
      /\ \A i, j \in 1..Len(down.connected) : down.connected[i] = down.connected[j] => i = j
  BY <1>1, Now DEF Good, FreeXfers, Downloader
\* The queue has x besides the free xfers, if the session knows it.
<1>4. /\ q \in Seq(Xfer) /\ Range(q) \subseteq Connected(down) \cup {x}
      /\ \A i, j \in 1..Len(q) : q[i] = q[j] => i = j
      /\ x \notin down.all => q = down.connected
  <2>1. x \notin Range(down.connected) BY <1>3 DEF Connected
  <2>2. PICK r \in Seq(Xfer) :
           /\ r = Append(down.connected, x) /\ Range(r) = Range(down.connected) \cup {x}
           /\ \A i, j \in 1..Len(r) : r[i] = r[j] => i = j
    BY <1>3, <2>1, AppendFacts
  <2>3. q \in {r, down.connected} BY <2>2
  <2>4. x \notin down.all => q = down.connected OBVIOUS
  <2> HIDE DEF q
  <2> QED BY <1>3, <2>2, <2>3, <2>4 DEF Connected
<1>5. mine \in [Xfer -> {"unused", "dialing", "up", "cut", "dead", "closed"}]
      /\ mine[x] = "up" /\ \A y \in Xfer \ {x} : mine[y] = down.mine[y]
  BY Now DEF Downloader
<1>6. S = [down EXCEPT !.mine = mine, !.connected = q] BY Now DEF Downloader
<1> HIDE DEF q, mine, S
<1>7. /\ S \in Downloader /\ S.running = down.running /\ S.chunk = down.chunk
      /\ S.all = down.all /\ S.connected = q /\ S.job = down.job /\ S.got = down.got
      /\ S.mine = mine /\ S.out = down.out
  BY <1>4, <1>5, <1>6, Now DEF Downloader
<1>8. FreeXfers(S, data)
  <2>1. \A y \in Connected(S) : S.job[y] = NoJob /\ Quiet(y, data, S.out)
    BY <1>3, <1>4, <1>7, Now DEF Good, FreeXfers, Connected
  <2>2. ASSUME NEW y \in Xfer, S.mine[y] \in {"unused", "dialing"}
        PROVE  y \notin Connected(S) /\ S.job[y] = NoJob /\ Quiet(y, data, S.out)
    <3>1. y # x /\ down.mine[y] \in {"unused", "dialing"} BY <1>5, <1>7, <2>2
    <3>2. y \notin Connected(down) /\ down.job[y] = NoJob /\ Quiet(y, data, down.out)
      BY <3>1, Now DEF Good, FreeXfers
    <3> QED BY <1>4, <1>7, <3>1, <3>2 DEF Connected
  <2> QED BY <1>4, <1>7, <2>1, <2>2 DEF FreeXfers
<1>9. Ended(S)
  <2>1. down.all = {} => q = down.connected BY <1>4
  <2> QED BY <1>7, <2>1, Now DEF Good, Ended
<1>10. Jobs(S, data) BY <1>7, Now DEF Good, Jobs
<1>11. Once(S) BY <1>7, Now DEF Good, Once, Waits
<1>12. Good(S, data) BY <1>7, <1>8, <1>9, <1>10, <1>11 DEF Good
<1>13. Good(T, data) BY <1>12, ProcessGood
<1> HIDE DEF T
<1> QED BY <1>1, <1>2, <1>13, BecomeInv, Now

\* A connection is taken from the session.
LEMMA RemovedGood ==
    ASSUME FileInv, NEW x \in Xfer, Open(down, x), NEW m \in {"cut", "dead"}
    PROVE  Good([RmXfer(down, x) EXCEPT !.mine[x] = m], data)
<1> DEFINE S == [RmXfer(down, x) EXCEPT !.mine[x] = m]
           all == down.all \ {x}
           mine == [down.mine EXCEPT ![x] = m]
<1>1. down.connected \in Seq(Xfer)
      /\ \A i, j \in 1..Len(down.connected) : down.connected[i] = down.connected[j] => i = j
  BY Now DEF Good, FreeXfers, Downloader
<1>2. PICK q \in Seq(Xfer) :
         /\ q = RemoveFirst(down.connected, x) /\ Range(q) \subseteq Range(down.connected)
         /\ down.connected = <<>> => q = <<>>
         /\ \A i, j \in 1..Len(q) : q[i] = q[j] => i = j
  BY <1>1, RemoveFacts
<1>3. /\ mine \in [Xfer -> {"unused", "dialing", "up", "cut", "dead", "closed"}]
      /\ mine[x] = m /\ \A y \in Xfer \ {x} : mine[y] = down.mine[y]
      /\ all \in SUBSET Xfer /\ (down.all = {} => all = {})
  BY Now DEF Downloader
<1>4. S = [down EXCEPT !.all = all, !.connected = q, !.mine = mine]
  <2>1. RmXfer(down, x) = [down EXCEPT !.all = all, !.connected = q] BY <1>2 DEF RmXfer
  <2> HIDE DEF all
  <2> QED BY <2>1, Now DEF Downloader
<1> HIDE DEF all, mine, S
<1>5. /\ S \in Downloader /\ S.running = down.running /\ S.chunk = down.chunk
      /\ S.all = all /\ S.connected = q /\ S.job = down.job /\ S.got = down.got
      /\ S.mine = mine /\ S.out = down.out
  BY <1>2, <1>3, <1>4, Now DEF Downloader
<1>6. FreeXfers(S, data)
  <2>1. \A y \in Connected(S) : S.job[y] = NoJob /\ Quiet(y, data, S.out)
    BY <1>2, <1>5, Now DEF Good, FreeXfers, Connected
  <2>2. ASSUME NEW y \in Xfer, S.mine[y] \in {"unused", "dialing"}
        PROVE  y \notin Connected(S) /\ S.job[y] = NoJob /\ Quiet(y, data, S.out)
    <3>1. y # x /\ down.mine[y] \in {"unused", "dialing"} BY <1>3, <1>5, <2>2
    <3>2. y \notin Connected(down) /\ down.job[y] = NoJob /\ Quiet(y, data, down.out)
      BY <3>1, Now DEF Good, FreeXfers
    <3> QED BY <1>2, <1>5, <3>2 DEF Connected
  <2> QED BY <1>2, <1>5, <2>1, <2>2 DEF FreeXfers
<1>7. Ended(S) BY <1>2, <1>3, <1>5, Now DEF Good, Ended
<1>8. Jobs(S, data) /\ Once(S) BY <1>5, Now DEF Good, Jobs, Once, Waits
<1> QED BY <1>5, <1>6, <1>7, <1>8 DEF Good, S

LEMMA CutInv == ASSUME NEW x \in Xfer PROVE FileInv /\ Cut(x) => FileInv'
<1> SUFFICES ASSUME FileInv, Cut(x) PROVE FileInv' OBVIOUS
<1> DEFINE S == [RmXfer(down, x) EXCEPT !.mine[x] = "cut"]
<1>1. /\ Become(S) /\ up' = up /\ data' = data /\ trouble' \in 0..MaxTrouble
      /\ Open(down, x)
  BY Now, FileFacts DEF Cut, Spend, Open
<1>2. Good(S, data) BY <1>1, RemovedGood
<1> HIDE DEF S
<1> QED BY <1>1, <1>2, BecomeInv, Now

LEMMA FarGoneInv == ASSUME NEW x \in Xfer PROVE FileInv /\ FarGone(x) => FileInv'
<1> SUFFICES ASSUME FileInv, FarGone(x) PROVE FileInv' OBVIOUS
<1> DEFINE S == [RmXfer(down, x) EXCEPT !.mine[x] = "dead"]
<1>1. /\ Become(S) /\ up' = up /\ data' = [data EXCEPT ![x] = <<>>] /\ trouble' = trouble
      /\ Open(down, x)
  BY DEF FarGone
<1>2. Good(S, data) BY <1>1, RemovedGood
<1> HIDE DEF S
<1>3. data' \in [Xfer -> Seq(0..End)] /\ \A y \in Xfer : data'[y] \in {data[y], <<>>} BY <1>1, Now
<1>4. Good(S, data') BY <1>2, <1>3, LessData
<1> QED BY <1>1, <1>3, <1>4, BecomeInv, Now

LEMMA HealInv == ASSUME NEW x \in Xfer PROVE FileInv /\ Heal(x) => FileInv'
<1> SUFFICES ASSUME FileInv, Heal(x) PROVE FileInv' OBVIOUS
<1> DEFINE S == [down EXCEPT !.mine[x] = "up"]
<1>1. Become(S) /\ up' = up /\ data' = data /\ trouble' = trouble BY DEF Heal
<1>2. /\ S \in Downloader /\ S.running = down.running /\ S.chunk = down.chunk
      /\ S.all = down.all /\ S.connected = down.connected /\ S.job = down.job
      /\ S.got = down.got /\ S.out = down.out
      /\ S.mine = [down.mine EXCEPT ![x] = "up"]
  BY Now DEF Downloader
<1>3. \A y \in Xfer : S.mine[y] \in {"unused", "dialing"} => down.mine[y] \in {"unused", "dialing"}
  BY <1>2, Now DEF Downloader
<1> HIDE DEF S
<1>4. Good(S, data)
  <2>1. FreeXfers(S, data) BY <1>2, <1>3, Now DEF Good, FreeXfers, Connected
  <2>2. Jobs(S, data) BY <1>2, Now DEF Good, Jobs
  <2>3. Once(S) BY <1>2, Now DEF Good, Once, Waits
  <2>4. Ended(S) BY <1>2, Now DEF Good, Ended
  <2> QED BY <1>2, <2>1, <2>2, <2>3, <2>4 DEF Good
<1> QED BY <1>1, <1>4, BecomeInv, Now

-----------------------------------------------------------------------------
(* The steps that leave the session alone. *)

\* Nothing is on its way over x any more.
LEMMA Dropped ==
    ASSUME FileInv, NEW x \in Xfer, NEW m \in {"dead", "closed"}, down' \in Downloader,
           /\ down'.running = down.running /\ down'.chunk = down.chunk /\ down'.all = down.all
           /\ down'.connected = down.connected /\ down'.job = down.job /\ down'.got = down.got
           /\ down'.out = down.out /\ down'.mine = [down.mine EXCEPT ![x] = m],
           reqs' \in {reqs, [reqs EXCEPT ![x] = <<>>]}, data' = [data EXCEPT ![x] = <<>>],
           up' = up, trouble' = trouble
    PROVE  FileInv'
<1>1. /\ reqs' \in [Xfer -> Seq((0..End) \cup {Bye})] /\ data' \in [Xfer -> Seq(0..End)]
      /\ \A y \in Xfer : reqs'[y] \in {reqs[y], <<>>} /\ data'[y] \in {data[y], <<>>}
  <2>1. data' \in [Xfer -> Seq(0..End)] /\ \A y \in Xfer : data'[y] \in {data[y], <<>>} BY Now
  <2>2. CASE reqs' = reqs BY <2>1, <2>2, Now
  <2>3. CASE reqs' = [reqs EXCEPT ![x] = <<>>]
    <3>1. <<>> \in Seq((0..End) \cup {Bye}) OBVIOUS
    <3>2. reqs' \in [Xfer -> Seq((0..End) \cup {Bye})] BY <2>3, <3>1, Now
    <3>3. \A y \in Xfer : reqs'[y] \in {reqs[y], <<>>} BY <2>3, Now
    <3> QED BY <2>1, <3>2, <3>3
  <2> QED BY <2>2, <2>3
<1>2. Types' BY <1>1, Now DEF Types
<1>3. ASSUME NEW y \in Xfer
      PROVE  /\ down'.mine[y] \in {"unused", "dialing"} => down.mine[y] \in {"unused", "dialing"}
             /\ Quiet(y, data, down.out) => Quiet(y, data, down.out)'
             /\ \A k \in 0..End : OnlyAsks(y, k, data, down.out) => OnlyAsks(y, k, data, down.out)'
  <2>1. down'.mine[y] \in {"unused", "dialing"} => down.mine[y] \in {"unused", "dialing"}
    BY Now DEF Downloader
  <2>2. Quiet(y, data, down.out) => Quiet(y, data, down.out)' BY <1>1 DEF Quiet
  <2>3. \A k \in 0..End : OnlyAsks(y, k, data, down.out) => OnlyAsks(y, k, data, down.out)'
    BY <1>1 DEF OnlyAsks
  <2> QED BY <2>1, <2>2, <2>3
<1> QED BY <1>2, <1>3, StepInv

LEMMA CloseInv == ASSUME NEW x \in Xfer PROVE FileInv /\ Close(x) => FileInv'
<1> SUFFICES ASSUME FileInv, Close(x) PROVE FileInv' OBVIOUS
<1>1. /\ down' = [down EXCEPT !.closing = @ \ {x}, !.mine[x] = "closed"]
      /\ reqs' \in {reqs, [reqs EXCEPT ![x] = <<>>]} /\ data' = [data EXCEPT ![x] = <<>>]
      /\ up' = up /\ trouble' = trouble
  BY DEF Close
<1>2. down' \in Downloader BY <1>1, Now DEF Downloader
<1>3. /\ down'.running = down.running /\ down'.chunk = down.chunk /\ down'.all = down.all
      /\ down'.connected = down.connected /\ down'.job = down.job /\ down'.got = down.got
      /\ down'.out = down.out /\ down'.mine = [down.mine EXCEPT ![x] = "closed"]
  BY <1>1, Now DEF Downloader
<1> QED BY <1>1, <1>2, <1>3, Dropped

LEMMA DieInv == ASSUME NEW x \in Xfer PROVE FileInv /\ Die(x) => FileInv'
<1> SUFFICES ASSUME FileInv, Die(x) PROVE FileInv' OBVIOUS
<1>1. /\ down' = [down EXCEPT !.mine[x] = "dead"]
      /\ reqs' = [reqs EXCEPT ![x] = <<>>] /\ data' = [data EXCEPT ![x] = <<>>]
      /\ up' = up /\ trouble' = trouble
  BY DEF Die
<1>2. down' \in Downloader BY <1>1, Now DEF Downloader
<1>3. /\ down'.running = down.running /\ down'.chunk = down.chunk /\ down'.all = down.all
      /\ down'.connected = down.connected /\ down'.job = down.job /\ down'.got = down.got
      /\ down'.out = down.out /\ down'.mine = [down.mine EXCEPT ![x] = "dead"]
  BY <1>1, Now DEF Downloader
<1> QED BY <1>1, <1>2, <1>3, Dropped

LEMMA UnshareInv == FileInv /\ Unshare => FileInv'
<1> SUFFICES ASSUME FileInv, Unshare PROVE FileInv' OBVIOUS
<1> DEFINE far == [x \in Xfer |-> IF x \in up.connections THEN "closed" ELSE up.far[x]]
<1>1. /\ up' = [up EXCEPT !.running = FALSE, !.connections = {}, !.far = far]
      /\ down' = down /\ reqs' = reqs /\ data' = data /\ trouble' = trouble
  BY DEF Unshare
<1>2. far \in [Xfer -> State] BY Now DEF Uploader, State
<1> HIDE DEF far
<1>3. up' \in Uploader /\ up'.reading = up.reading BY <1>1, <1>2, Now DEF Uploader
<1>4. Types' BY <1>1, <1>3, Now DEF Types
<1>5. \A y \in Xfer : /\ Quiet(y, data, down.out) => Quiet(y, data, down.out)'
                      /\ \A k \in 0..End : OnlyAsks(y, k, data, down.out)
                                             => OnlyAsks(y, k, data, down.out)'
  BY <1>1, <1>3 DEF Quiet, OnlyAsks
<1> QED BY <1>1, <1>4, <1>5, StepInv

\* The uploader starts to read the chunk it was asked for.
LEMMA RequestInv == ASSUME NEW x \in Xfer PROVE FileInv /\ Request(x) => FileInv'
<1> SUFFICES ASSUME FileInv, Request(x) PROVE FileInv' OBVIOUS
<1>1. /\ reqs[x] # <<>> /\ reqs' = [reqs EXCEPT ![x] = Tail(@)]
      /\ down' = down /\ data' = data /\ trouble' = trouble
  BY DEF Request
<1>2. \/ up' = up
      \/ /\ Head(reqs[x]) = Bye
         /\ up' = [up EXCEPT !.connections = @ \ {x}, !.far[x] = "closed"]
      \/ /\ Head(reqs[x]) # Bye
         /\ up' = [up EXCEPT !.connections = @ \cup {x},
                             !.reading = @ \cup {<<x, Head(reqs[x])>>}]
  BY DEF Request
<1>3. reqs[x] \in Seq((0..End) \cup {Bye}) /\ Head(reqs[x]) \in (0..End) \cup {Bye}
  BY <1>1, Now
<1>4. /\ reqs' \in [Xfer -> Seq((0..End) \cup {Bye})] /\ reqs'[x] = Tail(reqs[x])
      /\ \A y \in Xfer \ {x} : reqs'[y] = reqs[y]
  BY <1>1, <1>3, Now
<1>5. /\ up' \in Uploader
      /\ up'.reading \in {up.reading, up.reading \cup {<<x, Head(reqs[x])>>}}
      /\ Head(reqs[x]) = Bye => up'.reading = up.reading
  <2>1. CASE up' = up BY <2>1, Now
  <2>2. CASE /\ Head(reqs[x]) = Bye
             /\ up' = [up EXCEPT !.connections = @ \ {x}, !.far[x] = "closed"]
    BY <2>2, Now DEF Uploader, State
  <2>3. CASE /\ Head(reqs[x]) # Bye
             /\ up' = [up EXCEPT !.connections = @ \cup {x},
                                 !.reading = @ \cup {<<x, Head(reqs[x])>>}]
    <3> DEFINE r == up.reading \cup {<<x, Head(reqs[x])>>}
    <3>1. r \in SUBSET (Xfer \X (0..End)) BY <1>3, <2>3, Now DEF Uploader
    <3>2. up.connections \cup {x} \in SUBSET Xfer BY Now DEF Uploader
    <3>3. up' = [up EXCEPT !.connections = @ \cup {x}, !.reading = r] BY <2>3
    <3> HIDE DEF r
    <3>4. up' \in Uploader /\ up'.reading = r BY <3>1, <3>2, <3>3, Now DEF Uploader
    <3> QED BY <2>3, <3>4 DEF r
  <2> QED BY <1>2, <2>1, <2>2, <2>3
<1>6. Types' BY <1>1, <1>4, <1>5, Now DEF Types
<1>7. \A y \in Xfer \ {x} : \A c : <<y, c>> \in up'.reading <=> <<y, c>> \in up.reading
  BY <1>5
<1>8. ASSUME NEW y \in Xfer
      PROVE  /\ Quiet(y, data, down.out) => Quiet(y, data, down.out)'
             /\ \A k \in 0..End : OnlyAsks(y, k, data, down.out) => OnlyAsks(y, k, data, down.out)'
  <2>1. CASE y # x BY <1>1, <1>4, <1>7, <2>1 DEF Quiet, OnlyAsks
  <2>2. CASE y = x
    <3>1. ~Quiet(x, data, down.out) BY <1>1 DEF Quiet
    <3>2. ASSUME NEW k \in 0..End, OnlyAsks(x, k, data, down.out)
          PROVE  OnlyAsks(x, k, data, down.out)'
      <4>1. /\ reqs[x] = <<k>> /\ down.out[x] = <<>> /\ data[x] = <<>> /\ <<x, k>> \notin up.reading
            /\ \A c \in 0..End : <<x, c>> \in up.reading => c = k
        BY <1>1, <3>2 DEF OnlyAsks
      <4>2. reqs'[x] = <<>> /\ Head(reqs[x]) = k BY <1>4, <4>1
      <4>3. \A c \in 0..End : <<x, c>> \in up'.reading => c = k BY <1>5, <4>1, <4>2
      <4> QED BY <1>1, <4>1, <4>2, <4>3 DEF OnlyAsks
    <3> QED BY <2>2, <3>1, <3>2
  <2> QED BY <2>1, <2>2
<1> QED BY <1>1, <1>6, <1>8, StepInv

\* A chunk that was read is sent.
LEMMA SendChunkInv ==
    ASSUME NEW x \in Xfer, NEW c \in 0..End PROVE FileInv /\ SendChunk(x, c) => FileInv'
<1> SUFFICES ASSUME FileInv, SendChunk(x, c) PROVE FileInv' OBVIOUS
<1>1. /\ <<x, c>> \in up.reading /\ up' = [up EXCEPT !.reading = @ \ {<<x, c>>}]
      /\ down' = down /\ reqs' = reqs /\ trouble' = trouble
      /\ data' \in {data, [data EXCEPT ![x] = Append(@, c)]}
  BY DEF SendChunk
<1>2. up' \in Uploader /\ up'.reading = up.reading \ {<<x, c>>} BY <1>1, Now DEF Uploader
<1>3. /\ data' \in [Xfer -> Seq(0..End)] /\ data'[x] \in {data[x], Append(data[x], c)}
      /\ \A y \in Xfer \ {x} : data'[y] = data[y]
  <2>1. CASE data' = data BY <2>1, Now
  <2>2. CASE data' = [data EXCEPT ![x] = Append(@, c)]
    <3>1. Append(data[x], c) \in Seq(0..End) BY Now
    <3> QED BY <2>2, <3>1, Now
  <2> QED BY <1>1, <2>1, <2>2
<1>4. Types' BY <1>1, <1>2, <1>3, Now DEF Types
<1>5. ASSUME NEW y \in Xfer
      PROVE  /\ Quiet(y, data, down.out) => Quiet(y, data, down.out)'
             /\ \A k \in 0..End : OnlyAsks(y, k, data, down.out) => OnlyAsks(y, k, data, down.out)'
  <2>1. CASE y # x
    <3>1. \A k : <<y, k>> \in up'.reading <=> <<y, k>> \in up.reading BY <1>2, <2>1
    <3> QED BY <1>1, <1>3, <2>1, <3>1 DEF Quiet, OnlyAsks
  <2>2. CASE y = x
    <3>1. ~Quiet(x, data, down.out) BY <1>1 DEF Quiet
    <3>2. ASSUME NEW k \in 0..End, OnlyAsks(x, k, data, down.out)
          PROVE  OnlyAsks(x, k, data, down.out)'
      <4>1. c = k BY <1>1, <3>2 DEF OnlyAsks
      <4>2. /\ reqs[x] = <<>> /\ down.out[x] = <<>> /\ data[x] = <<>>
            /\ \A i \in 0..End : <<x, i>> \in up.reading => i = k
        BY <1>1, <3>2, <4>1 DEF OnlyAsks
      <4>3. data'[x] \in {<<>>, <<k>>} BY <1>3, <4>1, <4>2
      <4>4. \A i \in 0..End : <<x, i>> \notin up'.reading BY <1>2, <4>1, <4>2
      <4> QED BY <1>1, <4>2, <4>3, <4>4 DEF OnlyAsks
    <3> QED BY <2>2, <3>1, <3>2
  <2> QED BY <2>1, <2>2
<1> QED BY <1>1, <1>4, <1>5, StepInv

-----------------------------------------------------------------------------
(* The theorems. *)

LEMMA Stutter == FileInv /\ UNCHANGED vars => FileInv'
<1> SUFFICES ASSUME FileInv, UNCHANGED vars PROVE FileInv' OBVIOUS
<1>1. down' = down /\ up' = up /\ reqs' = reqs /\ data' = data /\ trouble' = trouble BY DEF vars
<1>2. Types' BY <1>1, Now DEF Types
<1>3. \A y \in Xfer : /\ Quiet(y, data, down.out) => Quiet(y, data, down.out)'
                      /\ \A k \in 0..End : OnlyAsks(y, k, data, down.out)
                                             => OnlyAsks(y, k, data, down.out)'
  BY <1>1 DEF Quiet, OnlyAsks
<1> QED BY <1>1, <1>2, <1>3, StepInv

\* FileInv holds in every state.
THEOREM Inductive == Spec => []FileInv
<1>1. Init => FileInv BY InitInv
<1>2. FileInv /\ [Next]_vars => FileInv'
  <2> SUFFICES ASSUME FileInv, Next PROVE FileInv' BY Stutter
  <2>1. CASE Download BY <2>1, DownloadInv
  <2>2. CASE Cancel BY <2>2, CancelInv
  <2>3. CASE Tick BY <2>3, TickInv
  <2>4. CASE Opened BY <2>4, OpenedInv
  <2>5. CASE OpenFails BY <2>5, OpenFailsInv
  <2>6. CASE WriteEnd BY <2>6, WriteEndInv
  <2>7. CASE WriteFails BY <2>7, WriteFailsInv
  <2>8. CASE Unshare BY <2>8, UnshareInv
  <2>9. ASSUME NEW x \in Xfer, Close(x) PROVE FileInv' BY <2>9, CloseInv
  <2>10. ASSUME NEW x \in Xfer, HandleData(x) PROVE FileInv' BY <2>10, HandleDataInv
  <2>11. ASSUME NEW x \in Xfer, Connect(x) PROVE FileInv' BY <2>11, ConnectInv
  <2>12. ASSUME NEW x \in Xfer, Request(x) PROVE FileInv' BY <2>12, RequestInv
  <2>13. ASSUME NEW x \in Xfer, Cut(x) PROVE FileInv' BY <2>13, CutInv
  <2>14. ASSUME NEW x \in Xfer, FarGone(x) PROVE FileInv' BY <2>14, FarGoneInv
  <2>15. ASSUME NEW x \in Xfer, Heal(x) PROVE FileInv' BY <2>15, HealInv
  <2>16. ASSUME NEW x \in Xfer, Die(x) PROVE FileInv' BY <2>16, DieInv
  <2>17. ASSUME NEW x \in Xfer, NEW c \in 0..End, SendChunk(x, c) PROVE FileInv'
    BY <2>17, SendChunkInv
  <2> QED BY <2>1, <2>2, <2>3, <2>4, <2>5, <2>6, <2>7, <2>8, <2>9, <2>10, <2>11, <2>12,
             <2>13, <2>14, <2>15, <2>16, <2>17 DEF Next
<1> QED BY <1>1, <1>2, PTL DEF Spec

\* What a sequence has is what its members are.
LEMMA RangeType == ASSUME NEW E, NEW s \in Seq(E) PROVE Range(s) \subseteq E
<1>1. DOMAIN s = 1..Len(s) /\ \A i \in 1..Len(s) : s[i] \in E OBVIOUS
<1> QED BY <1>1 DEF Range

\* Every variable has its type: no job reaches past the end of the file, and no chunk but
\* the file's is asked for (filedownload.js).
THEOREM TypeCorrect == Spec => []TypeOK
<1>1. FileInv => TypeOK
  <2> SUFFICES ASSUME FileInv PROVE TypeOK OBVIOUS
  <2>1. down.job \in [Xfer -> {NoJob} \cup [chunk : 1..Chunks, end : 0..End]]
    <3>1. /\ down.job \in [Xfer -> {NoJob} \cup [chunk : 0..Chunks, end : 0..End]]
          /\ \A x \in Xfer : down.job[x] # NoJob => down.job[x].chunk \in 1..(down.job[x].end + 1)
      BY Now DEF Good, Jobs, Downloader
    <3>2. \A x \in Xfer : down.job[x] # NoJob =>
             down.job[x] \in [chunk : 1..Chunks, end : 0..End]
      BY <3>1, FileFacts
    <3> QED BY <3>1, <3>2
  <2>2. /\ down.running \in BOOLEAN /\ down.chunk \in 0..Chunks /\ down.all \subseteq Xfer
        /\ down.first \in Xfer \cup {NoXfer} /\ down.got \subseteq 0..End
        /\ down.writer \in {"none", "opening", "idle", "writing", "failed", "stopped"}
        /\ down.mine \in [Xfer -> {"unused", "dialing", "up", "cut", "dead", "closed"}]
        /\ down.closing \subseteq Xfer /\ down.starts \in 0..MaxStarts
        /\ down.connected \in Seq(Xfer) /\ down.size \in {0, Size(0), Size(End)}
    BY Now DEF Downloader
  <2>3. down.buffer \subseteq Piece /\ down.flight \subseteq Piece /\ down.disk \subseteq Piece
    BY Now DEF Downloader
  <2>4. Range(down.connected) \subseteq Xfer /\ down.size \in 0..2
    BY <2>2, FileFacts DEF Range, Size
  <2>5. /\ up.connections \subseteq Xfer /\ up.far \in [Xfer -> State]
        /\ up.reading \subseteq Xfer \X (0..End)
    BY Now DEF Uploader
  <2>6. \A x \in Xfer : /\ Range(reqs[x]) \subseteq (0..End) \cup {Bye}
                        /\ Range(data[x]) \subseteq 0..End
    <3> SUFFICES ASSUME NEW x \in Xfer
                 PROVE  /\ Range(reqs[x]) \subseteq (0..End) \cup {Bye}
                        /\ Range(data[x]) \subseteq 0..End
      OBVIOUS
    <3>1. reqs[x] \in Seq((0..End) \cup {Bye}) /\ data[x] \in Seq(0..End) BY Now
    <3> QED BY <3>1, RangeType
  <2> QED BY <2>1, <2>2, <2>3, <2>4, <2>5, <2>6, Now DEF TypeOK
<1> QED BY <1>1, Inductive, PTL

\* While a download runs, each chunk that was given to a job has arrived or is owed by
\* exactly one job, and no other chunk has arrived (process, job.next and handleData of
\* filedownload.js).
THEOREM ChunksOnce == Spec => []EachChunkOnce
<1>1. FileInv => EachChunkOnce
  <2> SUFFICES ASSUME FileInv PROVE EachChunkOnce OBVIOUS
  <2>1. \A x \in Xfer : Owed(x) = Waits(down, x) BY DEF Owed, Waits
  <2> QED BY <2>1, Now DEF Good, Once, EachChunkOnce
<1> QED BY <1>1, Inductive, PTL

-----------------------------------------------------------------------------
(* The whole file. *)

\* No job is left with nothing but the last chunk: done calls the file finished as soon as
\* the next chunk to give to a job is the last one (filedownload.js:195), and such a job
\* would also be the one to tell the size of the chunks if it answers first.
LastJobIsLong == \A n \in Nat \ {0} : n * (Fragments + 1) # End

\* Where chunks belong.
Placed(C) == {<<Size(0) * c, c>> : c \in C}

\* Where a job may start, or the end of the file.
Aligned(k) == k = Chunks \/ \E n \in Nat : k = n * (Fragments + 1)

\* What was received is on the disk, being written or in the buffer, in its place.
Filed(S) ==
    /\ S.writer # "stopped" /\ ~S.spoiled => S.disk \cup S.flight \cup S.buffer = Placed(S.got)
    /\ S.flight # {} => S.writer = "writing"
    /\ S.finished => S.got = 0..End
    /\ S.shown => S.finished /\ S.writer = "idle" /\ S.buffer = {}

\* The size of the chunks is known, or each job still waits for a chunk that tells it.
Dealt(S) ==
    /\ Aligned(S.chunk) /\ S.size \in {0, Size(0)}
    /\ S.size = 0 => \A x \in Xfer : S.job[x] # NoJob => Size(S.job[x].chunk - 1) = Size(0)
    /\ S.finished => ~S.running

Stored(S) == Filed(S) /\ Dealt(S)

\* The file is the same.
SameFile(S, T) ==
    /\ T.size = S.size /\ T.got = S.got /\ T.writer = S.writer /\ T.buffer = S.buffer
    /\ T.flight = S.flight /\ T.disk = S.disk /\ T.finished = S.finished
    /\ T.spoiled = S.spoiled /\ T.shown = S.shown

LEMMA SameFiled == ASSUME NEW S, NEW T, Filed(S), SameFile(S, T) PROVE Filed(T)
BY DEF Filed, SameFile

\* The jobs are the same, or there are none.
LEMMA SameStored ==
    ASSUME NEW S, NEW T, Stored(S), SameFile(S, T), T.chunk = S.chunk,
           \/ T.running = S.running /\ T.job = S.job
           \/ T.running = FALSE /\ \A x \in Xfer : T.job[x] = NoJob
    PROVE  Stored(T)
<1>1. Filed(T) BY SameFiled DEF Stored
<1>2. T.size = S.size /\ T.finished = S.finished BY DEF SameFile
<1>3. T.size = 0 => \A x \in Xfer : T.job[x] # NoJob => Size(T.job[x].chunk - 1) = Size(0)
  BY <1>2 DEF Stored, Dealt
<1>4. T.finished => ~T.running BY <1>2 DEF Stored, Dealt
<1> QED BY <1>1, <1>2, <1>3, <1>4 DEF Stored, Dealt

\* flush moves chunks from the buffer, or shows the file.
LEMMA FlushFiled ==
    ASSUME NEW S \in Downloader, Filed(S)
    PROVE  /\ Filed(Flush(S)) /\ Flush(S).size = S.size /\ Flush(S).finished = S.finished
<1>1. CASE S.writer = "idle" /\ S.buffer # {}
  <2> DEFINE R == Run(S.buffer)
             B == S.buffer \ R
             T == Flush(S)
  <2>1. T = [S EXCEPT !.writer = "writing", !.flight = R, !.buffer = B] BY <1>1 DEF Flush
  <2>2. R \cup B = S.buffer BY DEF Run
  <2> HIDE DEF R, B, T
  <2>3. /\ T.writer = "writing" /\ T.flight = R /\ T.buffer = B /\ T.size = S.size
        /\ T.got = S.got /\ T.disk = S.disk /\ T.finished = S.finished
        /\ T.spoiled = S.spoiled /\ T.shown = S.shown
    BY <2>1 DEF Downloader
  <2>4. S.flight = {} /\ ~S.shown BY <1>1 DEF Filed
  <2>5. S.writer # "stopped" BY <1>1
  <2>6. T.disk \cup T.flight \cup T.buffer = S.disk \cup S.flight \cup S.buffer
    BY <2>2, <2>3, <2>4
  <2>7. Filed(T) BY <2>3, <2>4, <2>5, <2>6 DEF Filed
  <2> QED BY <2>3, <2>7 DEF T
<1>2. CASE S.writer = "idle" /\ S.buffer = {} /\ S.finished
  <2>1. Flush(S) = [S EXCEPT !.shown = TRUE] BY <1>2 DEF Flush
  <2> DEFINE T == Flush(S)
  <2>2. /\ T.writer = S.writer /\ T.flight = S.flight /\ T.buffer = S.buffer
        /\ T.size = S.size /\ T.got = S.got /\ T.disk = S.disk /\ T.finished = S.finished
        /\ T.spoiled = S.spoiled
    BY <2>1 DEF Downloader
  <2> HIDE DEF T
  <2>3. Filed(T) BY <1>2, <2>2 DEF Filed
  <2> QED BY <2>2, <2>3 DEF T
<1>3. CASE Flush(S) = S BY <1>3
<1>4. Flush(S) = S \/ (S.writer = "idle" /\ (S.buffer # {} \/ S.finished)) BY DEF Flush
<1> QED BY <1>1, <1>2, <1>3, <1>4

LEMMA FlushStored ==
    ASSUME NEW S \in Downloader, Stored(S)
    PROVE  Stored(Flush(S))
<1> DEFINE T == Flush(S)
<1>1. Filed(T) /\ T.size = S.size /\ T.finished = S.finished BY FlushFiled DEF Stored
<1>2. T.running = S.running /\ T.chunk = S.chunk /\ T.job = S.job BY FlushFacts DEF Same
<1> HIDE DEF T
<1>3. Dealt(T) BY <1>1, <1>2 DEF Stored, Dealt
<1> QED BY <1>1, <1>3 DEF Stored, T

LEMMA CancelStored ==
    ASSUME NEW S \in Downloader
    PROVE  LET T == CancelSession(S) IN
           SameFile(S, T) /\ T.chunk = S.chunk /\ T.running = FALSE /\ \A x \in Xfer : T.job[x] = NoJob
<1> DEFINE out == [x \in Xfer |-> IF x \in S.all /\ Open(S, x) THEN Append(S.out[x], Bye)
                                  ELSE S.out[x]]
           job == [x \in Xfer |-> NoJob]
           T == CancelSession(S)
<1>1. T = [S EXCEPT !.running = FALSE, !.all = {}, !.connected = <<>>, !.out = out,
                    !.closing = S.closing \cup S.all, !.job = job]
  BY DEF CancelSession
<1>2. \A x \in Xfer : job[x] = NoJob OBVIOUS
<1> HIDE DEF out, job, T
<1>3. /\ T.running = FALSE /\ T.job = job /\ T.chunk = S.chunk /\ SameFile(S, T)
  BY <1>1 DEF Downloader, SameFile
<1> QED BY <1>2, <1>3 DEF T

LEMMA AddXferStored ==
    ASSUME NEW S \in Downloader, Stored(S)
    PROVE  Stored(AddXfer(S))
<1> DEFINE x == CHOOSE x \in Unused(S) : TRUE
           mine == [S.mine EXCEPT ![x] = "dialing"]
           all == S.all \cup {x}
           first == IF S.first = NoXfer THEN x ELSE S.first
           T == AddXfer(S)
<1>1. CASE Unused(S) = {} BY <1>1 DEF AddXfer
<1>2. CASE Unused(S) # {}
  <2>1. T = [S EXCEPT !.mine = mine, !.all = all, !.first = first] BY <1>2 DEF AddXfer
  <2> HIDE DEF x, T, mine, all, first
  <2>2. T.chunk = S.chunk /\ T.running = S.running /\ T.job = S.job
    BY <2>1 DEF Downloader
  <2>3. SameFile(S, T) BY <2>1 DEF Downloader, SameFile
  <2>4. Stored(T) BY <2>2, <2>3, SameStored
  <2> QED BY <2>4 DEF T
<1> QED BY <1>1, <1>2

\* job.next leaves the file alone while there is a chunk to ask for.
LEMMA AskLeavesFile ==
    ASSUME NEW S \in Downloader, NEW x \in Xfer, ~(S.job[x].chunk > S.job[x].end)
    PROVE  SameFile(S, JobNext(S, x))
<1> DEFINE k == S.job[x].chunk
           U == Send(S, x, k)
           T == JobNext(S, x)
<1>1. T = [U EXCEPT !.job[x].chunk = @ + 1] BY DEF JobNext
<1>2. U = S \/ U = [S EXCEPT !.out[x] = Append(@, k)] BY DEF Send
<1> HIDE DEF k, T, U
<1>3. DOMAIN U = DOMAIN S /\ SameFile(S, U) BY <1>2 DEF Downloader, SameFile
<1>4. SameFile(S, T) BY <1>1, <1>3 DEF Downloader, SameFile
<1> QED BY <1>4 DEF T

\* Where the next job starts.
LEMMA AlignedNext ==
    ASSUME LastJobIsLong, NEW S, S.chunk \in 0..End, Aligned(S.chunk)
    PROVE  Aligned(JobEnd(S) + 1) /\ Size(S.chunk) = Size(0)
<1> DEFINE k == S.chunk
           f == Fragments + 1
<1>1. f \in Nat \ {0} /\ End \in Nat /\ Chunks = End + 1 /\ k \in Nat /\ k <= End
  BY FileFacts
<1>2. PICK n \in Nat : k = n * f BY <1>1 DEF Aligned
<1>3. Size(k) = Size(0)
  <2>1. CASE k # End
    <3>1. 0 # End BY <1>1, <2>1
    <3> QED BY <2>1, <3>1 DEF Size
  <2>2. CASE k = End
    <3>1. n = 0 BY <1>2, <2>2 DEF LastJobIsLong
    <3>2. k = 0 BY <1>1, <1>2, <3>1
    <3> QED BY <3>2
  <2> QED BY <2>1, <2>2
<1>4. CASE k + Fragments > End
  <2>1. JobEnd(S) + 1 = Chunks BY <1>1, <1>4 DEF JobEnd
  <2> QED BY <2>1, <1>3 DEF Aligned
<1>5. CASE ~(k + Fragments > End)
  <2>1. JobEnd(S) + 1 = k + f BY <1>1, <1>5, FileFacts DEF JobEnd
  <2> HIDE DEF k, f
  <2>2. n + 1 \in Nat /\ k + f = (n + 1) * f BY <1>1, <1>2
  <2> QED BY <1>3, <2>1, <2>2 DEF Aligned, f, k
<1> QED BY <1>3, <1>4, <1>5

\* process gives a job that tells the size of the chunks with its first one.
LEMMA StartStored ==
    ASSUME LastJobIsLong, NEW S \in Downloader, Stored(S), S.chunk <= End, S.connected # <<>>
    PROVE  Stored(Start(S))
<1> DEFINE T == Start(S)
           x == Head(S.connected)
           n == JobEnd(S)
           k == S.chunk
           R == [S EXCEPT !.connected = Tail(@), !.chunk = n + 1,
                          !.job[x] = [chunk |-> k, end |-> n]]
<1>1. k \in 0..End BY FileFacts DEF Downloader
<1>2. /\ T \in Downloader /\ x \in Xfer /\ n \in k..End /\ T.running = S.running
      /\ T.chunk = n + 1 /\ T.job[x] = [chunk |-> k + 1, end |-> n]
      /\ \A y \in Xfer \ {x} : T.job[y] = S.job[y]
  BY StartFacts
<1>3. Aligned(n + 1) /\ Size(k) = Size(0) BY <1>1, AlignedNext DEF Stored, Dealt
<1>4. T.job[x].chunk - 1 = k BY <1>1, <1>2
<1>5. SameFile(S, T)
  <2> DEFINE j == [chunk |-> k, end |-> n]
             job == [S.job EXCEPT ![x] = j]
  <2>1. n \in 0..End /\ n + 1 \in 0..Chunks /\ Tail(S.connected) \in Seq(Xfer)
    BY <1>1, <1>2, FileFacts DEF Downloader
  <2>2. j \in [chunk : 0..Chunks, end : 0..End] /\ j.chunk = k /\ j.end = n
    BY <1>1, <2>1, FileFacts
  <2>3. T = JobNext(R, x) BY DEF Start
  <2> HIDE DEF j, n, k, x, T
  <2>4. /\ job \in [Xfer -> {NoJob} \cup [chunk : 0..Chunks, end : 0..End]]
        /\ job[x] = j
    BY <1>2, <2>2 DEF Downloader
  <2>5. R = [S EXCEPT !.connected = Tail(S.connected), !.chunk = n + 1, !.job = job]
    BY DEF j
  <2> HIDE DEF R, job
  <2>6. R \in Downloader /\ SameFile(S, R) /\ R.job = job
    BY <2>1, <2>4, <2>5 DEF Downloader, SameFile
  <2>7. ~(R.job[x].chunk > R.job[x].end) BY <1>1, <1>2, <2>1, <2>2, <2>4, <2>6 DEF k
  <2>8. SameFile(R, T) BY <1>2, <2>3, <2>6, <2>7, AskLeavesFile
  <2> QED BY <2>6, <2>8 DEF SameFile
<1> HIDE DEF T, x, n, k
<1>6. T.size = S.size /\ T.finished = S.finished BY <1>5 DEF SameFile
<1>7. T.size = 0 => \A y \in Xfer : T.job[y] # NoJob => Size(T.job[y].chunk - 1) = Size(0)
  <2> SUFFICES ASSUME T.size = 0, NEW y \in Xfer, T.job[y] # NoJob
               PROVE  Size(T.job[y].chunk - 1) = Size(0)
    OBVIOUS
  <2>1. CASE y = x BY <1>3, <1>4, <2>1
  <2>2. CASE y # x BY <1>2, <1>6, <2>2 DEF Stored, Dealt
  <2> QED BY <2>1, <2>2
<1>8. Dealt(T) BY <1>2, <1>3, <1>6, <1>7 DEF Stored, Dealt
<1>9. Filed(T) BY <1>5, SameFiled DEF Stored
<1> QED BY <1>8, <1>9 DEF Stored, T

LEMMA ProcessStored ==
    ASSUME LastJobIsLong, NEW S \in Downloader, Stored(S)
    PROVE  Stored(Process(S))
BY AddXferStored, StartStored DEF Process

\* When no job is left and no chunk to give to one, all chunks are there.
LEMMA AllArrived ==
    ASSUME NEW S, NEW d, Good(S, d), S.running, NEW x \in Xfer, S.job[x] # NoJob,
           S.job[x].chunk > S.job[x].end, S.chunk = Chunks,
           \A y \in Xfer \ {x} : S.job[y] = NoJob
    PROVE  S.got \cup {S.job[x].chunk - 1} = 0..End
<1> DEFINE c == S.job[x].chunk - 1
<1>1. /\ S.job[x].chunk \in 1..(S.job[x].end + 1) /\ S.job[x].end \in 0..End
      /\ S.got \subseteq 0..End
  BY DEF Good, Jobs, Downloader
<1>2. c \in 0..End /\ Waits(S, x) = {c} BY <1>1, FileFacts DEF Waits
<1>3. \A y \in Xfer : Waits(S, y) \subseteq {c} BY <1>2 DEF Waits
<1>4. \A k \in 0..End : k < S.chunk BY FileFacts
<1>5. \A k \in 0..End : k \in S.got \/ k = c
  BY <1>3, <1>4 DEF Good, Once
<1> QED BY <1>1, <1>2, <1>5

\* handleData puts the chunk where it belongs; the last one finishes the file.
LEMMA StoreStored ==
    ASSUME LastJobIsLong, FileInv, Stored(down), NEW x \in Xfer, down.job[x] # NoJob, data[x] # <<>>
    PROVE  Stored(Store(down, x, Head(data[x])))
<1> DEFINE S == down
           c == S.job[x].chunk - 1
           e == S.job[x].end
           size == IF S.size = 0 THEN Size(c) ELSE S.size
           P == [S EXCEPT !.size = size, !.got = @ \cup {c}, !.buffer = @ \cup {<<size * c, c>>}]
           F == Flush(P)
<1>1. /\ S \in Downloader /\ Ended(S) /\ Once(S) /\ Good(S, data)
      /\ S.job[x].chunk \in 1..(e + 1) /\ OnlyAsks(x, c, data, S.out)
  BY Now DEF Good, Jobs
<1>2. data[x] = <<c>> BY <1>1 DEF OnlyAsks
<1>3. Store(down, x, Head(data[x])) = JobNext(F, x) BY <1>2 DEF Store
<1>4. /\ c \in 0..End /\ e \in 0..End /\ S.job[x].chunk = c + 1 /\ S.job[x].chunk \in Nat
      /\ S.chunk \in 0..Chunks
  BY <1>1, FileFacts DEF Downloader
<1>5. S.running /\ ~S.finished /\ ~S.shown
  BY <1>1 DEF Ended, Stored, Dealt, Filed
<1>6. size = Size(0) /\ size # 0
  <2>1. S.size = 0 => Size(c) = Size(0) BY DEF Stored, Dealt
  <2>2. S.size \in {0, Size(0)} BY DEF Stored, Dealt
  <2>3. Size(0) # 0 BY DEF Size
  <2> QED BY <2>1, <2>2, <2>3
<1> HIDE DEF size
<1>7. /\ P \in Downloader /\ P.size = size /\ P.got = S.got \cup {c} /\ P.writer = S.writer
      /\ P.buffer = S.buffer \cup {<<size * c, c>>} /\ P.flight = S.flight
      /\ P.disk = S.disk /\ P.finished = S.finished /\ P.spoiled = S.spoiled
      /\ P.shown = S.shown /\ P.chunk = S.chunk /\ P.job = S.job /\ P.running = S.running
  <2>1. <<size * c, c>> \in Piece BY <1>4, <1>6 DEF Piece
  <2>2. S.got \cup {c} \in SUBSET (0..End) BY <1>1, <1>4 DEF Downloader
  <2>3. S.buffer \cup {<<size * c, c>>} \in SUBSET Piece BY <1>1, <2>1 DEF Downloader
  <2>4. size \in {0, Size(0), Size(End)} BY <1>6
  <2> DEFINE B == S.buffer \cup {<<size * c, c>>}
             G == S.got \cup {c}
  <2>5. P = [S EXCEPT !.size = size, !.got = G, !.buffer = B] OBVIOUS
  <2>6. B \in SUBSET Piece /\ G \in SUBSET (0..End) BY <2>2, <2>3
  <2> HIDE DEF B, G, P, c
  <2>7. P \in Downloader BY <1>1, <2>4, <2>5, <2>6 DEF Downloader
  <2>8. /\ P.size = size /\ P.got = G /\ P.writer = S.writer
        /\ P.buffer = B /\ P.flight = S.flight
        /\ P.disk = S.disk /\ P.finished = S.finished /\ P.spoiled = S.spoiled
        /\ P.shown = S.shown /\ P.chunk = S.chunk /\ P.job = S.job /\ P.running = S.running
    BY <1>1, <2>5 DEF Downloader
  <2> QED BY <2>7, <2>8 DEF B, G
<1> HIDE DEF P
<1>8. Filed(P)
  <2>1. Placed(P.got) = Placed(S.got) \cup {<<size * c, c>>} BY <1>6, <1>7 DEF Placed
  <2>2. P.disk \cup P.flight \cup P.buffer
          = (S.disk \cup S.flight \cup S.buffer) \cup {<<size * c, c>>}
    BY <1>7
  <2>3. Filed(S) BY DEF Stored
  <2> HIDE DEF c, S
  <2> QED BY <1>5, <1>7, <2>1, <2>2, <2>3 DEF Filed
<1>9. /\ F \in Downloader /\ Filed(F) /\ F.size = size /\ ~F.finished
      /\ F.running /\ F.chunk = S.chunk /\ F.job = S.job /\ F.got = S.got \cup {c}
  BY <1>5, <1>7, <1>8, FlushFacts, FlushFiled DEF Same
<1> HIDE DEF F
<1>10. CASE ~(F.job[x].chunk > F.job[x].end)
  <2> DEFINE T == JobNext(F, x)
  <2>1. SameFile(F, T) BY <1>9, <1>10, AskLeavesFile
  <2>2. T.chunk = F.chunk
    <3>1. F.job[x] # NoJob /\ F.job[x].chunk <= F.job[x].end BY <1>4, <1>9, <1>10
    <3> QED BY <1>9, <3>1, AskFacts
  <2> HIDE DEF T
  <2>3. Filed(T) BY <1>9, <2>1, SameFiled
  <2>4. T.size # 0 /\ T.size = Size(0) /\ ~T.finished BY <1>6, <1>9, <2>1 DEF SameFile
  <2>5. Aligned(T.chunk) BY <1>9, <2>2 DEF Stored, Dealt
  <2>6. Stored(T) BY <2>3, <2>4, <2>5 DEF Stored, Dealt
  <2> QED BY <1>3, <2>6 DEF T
<1>11. CASE F.job[x].chunk > F.job[x].end
  <2> DEFINE T == [F EXCEPT !.job[x] = NoJob, !.connected = Append(@, x)]
             U == [T EXCEPT !.finished = TRUE]
  <2>1. JobNext(F, x) = IF Finished(T) THEN CancelSession(Flush(U)) ELSE T
    BY <1>11 DEF JobNext, Done
  <2>2. /\ Append(F.connected, x) \in Seq(Xfer)
        /\ [F.job EXCEPT ![x] = NoJob] \in [Xfer -> {NoJob} \cup [chunk : 0..Chunks, end : 0..End]]
    BY <1>9 DEF Downloader
  <2>3. T = [F EXCEPT !.job = [F.job EXCEPT ![x] = NoJob], !.connected = Append(F.connected, x)]
    BY <1>9
  <2> HIDE DEF T
  <2>4. /\ T \in Downloader /\ SameFile(F, T) /\ T.chunk = F.chunk
        /\ T.job = [F.job EXCEPT ![x] = NoJob]
    BY <1>9, <2>2, <2>3 DEF Downloader, SameFile
  <2>5. Filed(T) /\ Aligned(T.chunk) /\ T.size # 0 /\ T.size = Size(0) /\ ~T.finished
    BY <1>6, <1>9, <2>4, SameFiled DEF SameFile, Stored, Dealt
  <2>6. CASE ~Finished(T)
    <3>1. Stored(T) BY <2>5 DEF Stored, Dealt
    <3> QED BY <1>3, <2>1, <2>6, <3>1
  <2>7. CASE Finished(T)
    <3>1. S.chunk = Chunks
      <4>1. S.chunk >= End /\ Aligned(S.chunk)
        BY <1>9, <2>4, <2>7 DEF Finished, Stored, Dealt
      <4>2. CASE S.chunk = End
        <5>1. PICK n \in Nat : End = n * (Fragments + 1)
          BY <4>1, <4>2, FileFacts DEF Aligned
        <5>2. n = 0 BY <5>1 DEF LastJobIsLong
        <5>3. End = 0 BY <5>1, <5>2, FileFacts
        <5>4. 0 \in 0..End /\ ~(0 < S.chunk) /\ 0 \in Waits(S, x)
          <6>1. c = 0 BY <1>4, <5>3
          <6> QED BY <1>4, <4>2, <5>3, <6>1 DEF Waits
        <5> QED BY <1>1, <1>5, <5>4 DEF Once
      <4> QED BY <1>4, <4>1, <4>2, FileFacts
    <3>2. \A y \in Xfer \ {x} : S.job[y] = NoJob
      BY <1>9, <2>4, <2>7 DEF Finished, Downloader
    <3>3. S.got \cup {c} = 0..End
      <4>1. S.job[x].chunk > S.job[x].end BY <1>9, <1>11
      <4> QED BY <1>1, <1>5, <3>1, <3>2, <4>1, AllArrived
    <3>4. /\ U \in Downloader /\ U.finished = TRUE /\ U.size = T.size /\ U.chunk = T.chunk
          /\ U.got = T.got /\ U.writer = T.writer /\ U.buffer = T.buffer
          /\ U.flight = T.flight /\ U.disk = T.disk /\ U.spoiled = T.spoiled /\ U.shown = T.shown
      BY <2>4 DEF Downloader
    <3> HIDE DEF U, c, S
    <3>5. T.got = 0..End BY <1>9, <2>4, <3>3 DEF SameFile
    <3>6. Filed(U) BY <2>5, <3>4, <3>5 DEF Filed
    <3> DEFINE V == Flush(U)
               W == CancelSession(V)
    <3>7. V \in Downloader /\ Filed(V) /\ V.size = U.size /\ V.chunk = U.chunk
      BY <3>4, <3>6, FlushFacts, FlushFiled DEF Same
    <3> HIDE DEF V
    <3>8. SameFile(V, W) /\ W.chunk = V.chunk /\ W.running = FALSE
      BY <3>7, CancelStored
    <3> HIDE DEF W
    <3>9. Filed(W) BY <3>7, <3>8, SameFiled
    <3>10. W.size # 0 /\ W.size = Size(0) /\ Aligned(W.chunk)
      BY <2>5, <3>4, <3>7, <3>8 DEF SameFile
    <3>11. Stored(W) BY <3>8, <3>9, <3>10 DEF Stored, Dealt
    <3> QED BY <1>3, <2>1, <2>7, <3>11 DEF V, W
  <2> QED BY <2>6, <2>7
<1> QED BY <1>10, <1>11

\* Stored does not speak of what is about to be sent.
LEMMA BecomeStored ==
    ASSUME NEW S \in Downloader, Stored(S), Become(S)
    PROVE  Stored(down')
<1> DEFINE T == [S EXCEPT !.out = [x \in Xfer |-> <<>>]]
<1>1. SameFile(S, T) /\ T.chunk = S.chunk /\ T.running = S.running /\ T.job = S.job
  BY DEF Downloader, SameFile
<1> HIDE DEF T
<1>2. Stored(T) BY <1>1, SameStored
<1> QED BY <1>2 DEF Become, T

LEMMA InitStored == Init => Stored(down)
<1> SUFFICES ASSUME Init PROVE Stored(down) OBVIOUS
<1>1. /\ down.size = 0 /\ down.got = {} /\ down.buffer = {} /\ down.flight = {} /\ down.disk = {}
      /\ down.finished = FALSE /\ down.shown = FALSE /\ down.chunk = 0
      /\ \A x \in Xfer : down.job[x] = NoJob
  BY DEF Init, Fresh
<1>2. Aligned(0)
  <2>1. 0 = 0 * (Fragments + 1) BY FileFacts
  <2> QED BY <2>1 DEF Aligned
<1>3. Placed({}) = {} BY DEF Placed
<1> QED BY <1>1, <1>2, <1>3 DEF Stored, Filed, Dealt

\* A download begins with an empty file.
LEMMA DownloadStored == ASSUME FileInv, Download PROVE Stored(down')
<1> DEFINE S == [Fresh EXCEPT !.running = TRUE, !.writer = "opening", !.downloading = TRUE,
                              !.mine = down.mine, !.closing = down.closing,
                              !.starts = down.starts + 1]
<1>1. Become(AddXfer(S)) /\ down.starts < MaxStarts BY DEF Download
<1>2. down.starts + 1 \in 0..MaxStarts BY <1>1, Now, FileFacts DEF Downloader
<1>3. S \in Downloader BY <1>2, FreshFacts, Now DEF Downloader
<1>4. /\ S.size = 0 /\ S.got = {} /\ S.buffer = {} /\ S.flight = {} /\ S.disk = {}
      /\ S.finished = FALSE /\ S.shown = FALSE /\ S.chunk = 0
      /\ \A x \in Xfer : S.job[x] = NoJob
  BY DEF Fresh
<1> HIDE DEF S
<1>5. Aligned(0)
  <2>1. 0 = 0 * (Fragments + 1) BY FileFacts
  <2> QED BY <2>1 DEF Aligned
<1>6. Placed({}) = {} BY DEF Placed
<1>7. Stored(S) BY <1>4, <1>5, <1>6 DEF Stored, Filed, Dealt
<1> DEFINE T == AddXfer(S)
<1>8. Stored(T) BY <1>3, <1>7, AddXferStored
<1>9. T \in Downloader BY <1>3, AddXferType
<1> HIDE DEF T
<1> QED BY <1>1, <1>8, <1>9, BecomeStored DEF T

\* A purged file is not the session's any more.
LEMMA CancelFileStored == ASSUME FileInv, Stored(down), Cancel PROVE Stored(down')
<1> DEFINE C == CancelSession(down)
           S == [C EXCEPT !.writer = "stopped", !.buffer = {}, !.flight = {},
                          !.downloading = FALSE, !.cancelled = TRUE]
<1>1. Become(S) /\ ~down.shown BY DEF Cancel
<1>2. C \in Downloader BY Now, CancelGood DEF Good
<1>3. Stored(C) /\ C.shown = down.shown
  <2>1. SameFile(down, C) /\ C.chunk = down.chunk /\ C.running = FALSE
        /\ \A x \in Xfer : C.job[x] = NoJob
    BY Now, CancelStored
  <2> HIDE DEF C
  <2> QED BY <2>1, SameStored DEF SameFile
<1> HIDE DEF C
<1>4. /\ S \in Downloader /\ S.writer = "stopped" /\ S.flight = {} /\ S.size = C.size
      /\ S.got = C.got /\ S.finished = C.finished /\ S.shown = C.shown
      /\ S.chunk = C.chunk /\ S.running = C.running /\ S.job = C.job
  BY <1>2 DEF Downloader
<1> HIDE DEF S
<1>5. Stored(S) BY <1>1, <1>3, <1>4 DEF Stored, Filed, Dealt
<1> QED BY <1>1, <1>4, <1>5, BecomeStored

LEMMA ProcessType == ASSUME NEW S \in Downloader PROVE Process(S) \in Downloader
BY AddXferType, StartFacts DEF Process

LEMMA TickStored == ASSUME LastJobIsLong, FileInv, Stored(down), Tick PROVE Stored(down')
<1> DEFINE S == Process(down)
           T == IF WantsMore(S) THEN AddXfer(S) ELSE S
<1>1. Become(T) BY DEF Tick
<1>2. S \in Downloader /\ Stored(S) BY Now, ProcessType, ProcessStored
<1> HIDE DEF S
<1>3. T \in Downloader /\ Stored(T) BY <1>2, AddXferType, AddXferStored
<1> HIDE DEF T
<1> QED BY <1>1, <1>3, BecomeStored

LEMMA HandleDataStored ==
    ASSUME LastJobIsLong, FileInv, Stored(down), NEW x \in Xfer, HandleData(x)
    PROVE  Stored(down')
<1> DEFINE S == IF down.job[x] = NoJob THEN down ELSE Store(down, x, Head(data[x]))
<1>1. Become(S) /\ data[x] # <<>> BY DEF HandleData
<1>2. S \in Downloader
  <2>1. CASE down.job[x] = NoJob BY <2>1, Now
  <2>2. CASE down.job[x] # NoJob BY <1>1, <2>2, StoreGood DEF Good
  <2> QED BY <2>1, <2>2
<1>3. Stored(S) BY <1>1, StoreStored
<1> HIDE DEF S
<1> QED BY <1>1, <1>2, <1>3, BecomeStored

LEMMA OpenedStored == ASSUME FileInv, Stored(down), Opened PROVE Stored(down')
<1> DEFINE S == [down EXCEPT !.writer = "idle"]
<1>1. Become(Flush(S)) /\ down.writer = "opening" BY DEF Opened
<1>2. /\ S \in Downloader /\ S.writer = "idle" /\ S.size = down.size /\ S.got = down.got
      /\ S.buffer = down.buffer /\ S.flight = down.flight /\ S.disk = down.disk
      /\ S.finished = down.finished /\ S.spoiled = down.spoiled /\ S.shown = down.shown
      /\ S.chunk = down.chunk /\ S.running = down.running /\ S.job = down.job
  BY Now DEF Downloader
<1> HIDE DEF S
<1>3. Stored(S) BY <1>1, <1>2 DEF Stored, Filed, Dealt
<1>4. Flush(S) \in Downloader /\ Stored(Flush(S)) BY <1>2, <1>3, FlushFacts, FlushStored
<1> QED BY <1>1, <1>4, BecomeStored

LEMMA OpenFailsStored == ASSUME FileInv, Stored(down), OpenFails PROVE Stored(down')
<1> DEFINE C == CancelSession(down)
           S == [C EXCEPT !.writer = "failed", !.error = TRUE]
<1>1. Become(S) /\ down.writer = "opening" BY DEF OpenFails
<1>2. C \in Downloader BY Now, CancelGood DEF Good
<1>3. Stored(C) /\ C.writer = down.writer
  <2>1. SameFile(down, C) /\ C.chunk = down.chunk /\ C.running = FALSE
        /\ \A x \in Xfer : C.job[x] = NoJob
    BY Now, CancelStored
  <2> HIDE DEF C
  <2> QED BY <2>1, SameStored DEF SameFile
<1> HIDE DEF C
<1>4. /\ S \in Downloader /\ S.writer = "failed" /\ S.size = C.size /\ S.got = C.got
      /\ S.buffer = C.buffer /\ S.flight = C.flight /\ S.disk = C.disk
      /\ S.finished = C.finished /\ S.spoiled = C.spoiled /\ S.shown = C.shown
      /\ S.chunk = C.chunk /\ S.running = C.running /\ S.job = C.job
  BY <1>2 DEF Downloader
<1> HIDE DEF S
<1>5. Stored(S) BY <1>1, <1>3, <1>4 DEF Stored, Filed, Dealt
<1> QED BY <1>1, <1>4, <1>5, BecomeStored

LEMMA WriteEndStored == ASSUME FileInv, Stored(down), WriteEnd PROVE Stored(down')
<1> DEFINE S == [down EXCEPT !.writer = "idle", !.disk = @ \cup down.flight, !.flight = {}]
<1>1. Become(Flush(S)) /\ down.writer = "writing" BY DEF WriteEnd
<1>2. /\ S \in Downloader /\ S.writer = "idle" /\ S.size = down.size /\ S.got = down.got
      /\ S.buffer = down.buffer /\ S.flight = {} /\ S.disk = down.disk \cup down.flight
      /\ S.finished = down.finished /\ S.spoiled = down.spoiled /\ S.shown = down.shown
      /\ S.chunk = down.chunk /\ S.running = down.running /\ S.job = down.job
  BY Now DEF Downloader
<1> HIDE DEF S
<1>3. S.disk \cup S.flight \cup S.buffer = down.disk \cup down.flight \cup down.buffer BY <1>2
<1>4. Stored(S) BY <1>1, <1>2, <1>3 DEF Stored, Filed, Dealt
<1>5. Flush(S) \in Downloader /\ Stored(Flush(S)) BY <1>2, <1>4, FlushFacts, FlushStored
<1> QED BY <1>1, <1>5, BecomeStored

LEMMA WriteFailsStored == ASSUME FileInv, Stored(down), WriteFails PROVE Stored(down')
<1> DEFINE S == [down EXCEPT !.writer = "idle", !.spoiled = TRUE, !.flight = {}]
<1>1. Become(Flush(S)) /\ down.writer = "writing" BY DEF WriteFails
<1>2. /\ S \in Downloader /\ S.writer = "idle" /\ S.size = down.size /\ S.got = down.got
      /\ S.buffer = down.buffer /\ S.flight = {} /\ S.spoiled = TRUE
      /\ S.finished = down.finished /\ S.shown = down.shown
      /\ S.chunk = down.chunk /\ S.running = down.running /\ S.job = down.job
  BY Now DEF Downloader
<1> HIDE DEF S
<1>3. Stored(S) BY <1>1, <1>2 DEF Stored, Filed, Dealt
<1>4. Flush(S) \in Downloader /\ Stored(Flush(S)) BY <1>2, <1>3, FlushFacts, FlushStored
<1> QED BY <1>1, <1>4, BecomeStored

LEMMA ConnectStored ==
    ASSUME LastJobIsLong, FileInv, Stored(down), NEW x \in Xfer, Connect(x)
    PROVE  Stored(down')
<1> DEFINE q == IF x \in down.all THEN Append(down.connected, x) ELSE down.connected
           S == [down EXCEPT !.mine[x] = "up",
                             !.connected = IF x \in down.all THEN Append(@, x) ELSE @]
           T == IF x = S.first THEN Process(S) ELSE S
<1>1. Become(T) BY DEF Connect
<1>2. q \in Seq(Xfer) BY Now DEF Downloader
<1>3. S = [down EXCEPT !.mine[x] = "up", !.connected = q] BY Now DEF Downloader
<1> HIDE DEF q, S
<1>4. /\ S \in Downloader /\ SameFile(down, S) /\ S.chunk = down.chunk
      /\ S.running = down.running /\ S.job = down.job
  BY <1>2, <1>3, Now DEF Downloader, SameFile
<1>5. Stored(S) BY <1>4, SameStored
<1>6. T \in Downloader /\ Stored(T) BY <1>4, <1>5, ProcessType, ProcessStored
<1> HIDE DEF T
<1> QED BY <1>1, <1>6, BecomeStored

\* The steps that change no more than the connections.
LEMMA LinkStored ==
    ASSUME FileInv, Stored(down), NEW x \in Xfer, Cut(x) \/ FarGone(x) \/ Heal(x)
    PROVE  Stored(down')
<1>1. CASE Heal(x)
  <2> DEFINE S == [down EXCEPT !.mine[x] = "up"]
  <2>1. Become(S) BY <1>1 DEF Heal
  <2>2. /\ S \in Downloader /\ SameFile(down, S) /\ S.chunk = down.chunk
        /\ S.running = down.running /\ S.job = down.job
    BY Now DEF Downloader, SameFile
  <2> HIDE DEF S
  <2> QED BY <2>1, <2>2, SameStored, BecomeStored
<1>2. ASSUME NEW m \in {"cut", "dead"}, Open(down, x), Become([RmXfer(down, x) EXCEPT !.mine[x] = m])
      PROVE  Stored(down')
  <2> DEFINE S == [RmXfer(down, x) EXCEPT !.mine[x] = m]
             all == down.all \ {x}
             q == RemoveFirst(down.connected, x)
  <2>1. S \in Downloader BY <1>2, RemovedGood DEF Good
  <2>2. S = [down EXCEPT !.all = all, !.connected = q, !.mine = S.mine]
    BY Now DEF RmXfer, Downloader
  <2> HIDE DEF all, q, S
  <2>3. /\ SameFile(down, S) /\ S.chunk = down.chunk
        /\ S.running = down.running /\ S.job = down.job
    BY <2>2, Now DEF Downloader, SameFile
  <2> QED BY <1>2, <2>1, <2>3, SameStored, BecomeStored DEF S
<1>3. CASE Cut(x) BY <1>2, <1>3 DEF Cut, Open
<1>4. CASE FarGone(x) BY <1>2, <1>4 DEF FarGone
<1> QED BY <1>1, <1>3, <1>4

\* What the downloader receives is in its place, in every step of it and of the uploader.
LEMMA NextStored ==
    ASSUME LastJobIsLong, FileInv, Stored(down), [Next]_vars PROVE Stored(down')
<1>1. CASE down' = down BY <1>1
<1>2. ASSUME NEW x \in Xfer, Close(x) \/ Die(x) PROVE Stored(down')
  <2>1. /\ SameFile(down, down') /\ down'.chunk = down.chunk
        /\ down'.running = down.running /\ down'.job = down.job
    BY <1>2, Now DEF Close, Die, Downloader, SameFile
  <2> QED BY <2>1, SameStored
<1>3. CASE Download BY <1>3, DownloadStored
<1>4. CASE Cancel BY <1>4, CancelFileStored
<1>5. CASE Tick BY <1>5, TickStored
<1>6. CASE Opened BY <1>6, OpenedStored
<1>7. CASE OpenFails BY <1>7, OpenFailsStored
<1>8. CASE WriteEnd BY <1>8, WriteEndStored
<1>9. CASE WriteFails BY <1>9, WriteFailsStored
<1>10. ASSUME NEW x \in Xfer, HandleData(x) PROVE Stored(down') BY <1>10, HandleDataStored
<1>11. ASSUME NEW x \in Xfer, Connect(x) PROVE Stored(down') BY <1>11, ConnectStored
<1>12. ASSUME NEW x \in Xfer, Cut(x) \/ FarGone(x) \/ Heal(x) PROVE Stored(down')
  BY <1>12, LinkStored
<1>13. CASE Unshare \/ UNCHANGED vars BY <1>1, <1>13 DEF Unshare, vars
<1>14. ASSUME NEW x \in Xfer, Request(x) \/ \E c \in 0..End : SendChunk(x, c)
       PROVE Stored(down')
  BY <1>1, <1>14 DEF Request, SendChunk
<1> QED BY <1>2, <1>3, <1>4, <1>5, <1>6, <1>7, <1>8, <1>9, <1>10, <1>11, <1>12, <1>13, <1>14
        DEF Next

\* A file that is shown as complete has every chunk of it in its place, unless a write
\* failed: however many connections the chunks came over and in which order they were
\* written (handleData, done and the checks of filedownload.js, flush of filedata.js).
\* The hypothesis is needed: with Chunks = 4 and Fragments = 2 TLC shows a file without
\* its last chunk.
THEOREM FileIsWhole == ASSUME LastJobIsLong PROVE Spec => []WholeFile
<1>1. Init => Stored(down) BY InitStored
<1>2. FileInv /\ Stored(down) /\ [Next]_vars => Stored(down)' BY NextStored
<1>3. Stored(down) => WholeFile
  <2> SUFFICES ASSUME Stored(down), down.shown, ~down.spoiled
               PROVE  down.disk = {<<Size(0) * c, c>> : c \in 0..End}
    BY DEF WholeFile
  <2>1. /\ down.writer # "stopped" /\ down.flight = {} /\ down.buffer = {} /\ down.got = 0..End
    BY DEF Stored, Filed
  <2>2. down.disk = Placed(0..End) BY <2>1 DEF Stored, Filed
  <2> QED BY <2>2 DEF Placed
<1> QED BY <1>1, <1>2, <1>3, Inductive, PTL DEF Spec
=============================================================================
