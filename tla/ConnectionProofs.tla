-------------------------- MODULE ConnectionProofs --------------------------
(***************************************************************************)
(* What holds of the connections for any number of them, of senders, of    *)
(* buffers and of messages: the reference counts, and that a connection    *)
(* keeps the promise of Outbox.                                            *)
(***************************************************************************)
EXTENDS Connection, FiniteSetTheorems, SequenceTheorems, TLAPS

-----------------------------------------------------------------------------
(* The buffers. *)

\* New is one of the free buffers: among numbers there is a least one.
LEMMA NewIsFree ==
    ASSUME Free # {}
    PROVE  New \in Free
<1>1. Free \subseteq Nat BY BufferAssumption DEF Free
<1>2. PICK b \in Free : \A d \in Free : <<d, b>> \notin OpToRel(<, Nat)
  BY <1>1, NatLessThanWellFounded, WFMin
<1>3. \A d \in Free : ~(d < b) BY <1>1, <1>2 DEF OpToRel
<1>4. \A d \in Free : b <= d BY <1>1, <1>3
<1> QED BY <1>2, <1>4 DEF New

\* A queue is a sequence no longer than its limit.
LEMMA QueueIsSeq ==
    ASSUME NEW S, NEW n \in Nat
    PROVE  \A s : s \in SeqOf(S, n) <=> s \in Seq(S) /\ Len(s) <= n
<1>1. \A s : s \in SeqOf(S, n) <=> \E m \in 0 .. n : s \in [1 .. m -> S]
  BY DEF SeqOf
<1>2. ASSUME NEW s, NEW m \in 0 .. n, s \in [1 .. m -> S]
      PROVE  s \in Seq(S) /\ Len(s) <= n
  BY <1>2
<1>3. ASSUME NEW s \in Seq(S), Len(s) <= n
      PROVE  \E m \in 0 .. n : s \in [1 .. m -> S]
  BY <1>3
<1> QED BY <1>1, <1>2, <1>3

LEMMA QueueTypes ==
    \A s : s \in SeqOf(Buffer, maxQueueSize) <=> s \in Seq(Buffer) /\ Len(s) <= maxQueueSize
BY QueueIsSeq, LimitAssumption

\* Who holds a buffer.
LEMMA HolderFacts ==
    ASSUME NEW b
    PROVE  /\ \A h : h \in Holders(b) <=>
                \/ \E c \in Conn : \E i \in DOMAIN queue[c] : queue[c][i] = b /\ h = <<"queue", c, i>>
                \/ \E c \in Conn : held[c] = b /\ h = <<"pump", c>>
                \/ \E s \in Sender : sender[s].buf = b /\ h = <<"sender", s>>
           /\ \A h : h \in Holders(b)' <=>
                \/ \E c \in Conn : \E i \in DOMAIN queue'[c] : queue'[c][i] = b /\ h = <<"queue", c, i>>
                \/ \E c \in Conn : held'[c] = b /\ h = <<"pump", c>>
                \/ \E s \in Sender : sender'[s].buf = b /\ h = <<"sender", s>>
<1> DEFINE Q == UNION { {<<"queue", c, i>> : i \in {j \in DOMAIN queue[c] : queue[c][j] = b}} : c \in Conn }
           P == {<<"pump", c>>  : c \in {d \in Conn : held[d] = b}}
           S == {<<"sender", s>> : s \in {t \in Sender : sender[t].buf = b}}
<1>1. \A h : h \in Q <=> \E c \in Conn : \E i \in DOMAIN queue[c] : queue[c][i] = b /\ h = <<"queue", c, i>>
  OBVIOUS
<1>2. \A h : h \in P <=> \E c \in Conn : held[c] = b /\ h = <<"pump", c>>
  OBVIOUS
<1>3. \A h : h \in S <=> \E s \in Sender : sender[s].buf = b /\ h = <<"sender", s>>
  OBVIOUS
<1>4. \A h : h \in Q' <=> \E c \in Conn : \E i \in DOMAIN queue'[c] : queue'[c][i] = b /\ h = <<"queue", c, i>>
  OBVIOUS
<1>5. \A h : h \in P' <=> \E c \in Conn : held'[c] = b /\ h = <<"pump", c>>
  OBVIOUS
<1>6. \A h : h \in S' <=> \E s \in Sender : sender'[s].buf = b /\ h = <<"sender", s>>
  OBVIOUS
<1>7. Holders(b) = Q \cup P \cup S
  BY DEF Holders
<1>8. Holders(b)' = Q' \cup P' \cup S'
  BY DEF Holders
<1> HIDE DEF Q, P, S
<1> QED BY <1>1, <1>2, <1>3, <1>4, <1>5, <1>6, <1>7, <1>8

\* A place in a queue, a pump and a sender are different holders.
LEMMA HoldersDiffer ==
    ASSUME NEW c, NEW i, NEW d, NEW j
    PROVE  /\ <<"queue", c, i>> # <<"pump", d>>
           /\ <<"queue", c, i>> # <<"sender", d>>
           /\ <<"pump", c>> # <<"sender", d>>
           /\ <<"queue", c, i>> = <<"queue", d, j>> => c = d /\ i = j
           /\ <<"pump", c>> = <<"pump", d>> => c = d
           /\ <<"sender", c>> = <<"sender", d>> => c = d
<1>1. <<"queue", c, i>>[1] = "queue" /\ <<"pump", c>>[1] = "pump" /\ <<"pump", d>>[1] = "pump"
      /\ <<"sender", d>>[1] = "sender"
  OBVIOUS
<1> QED BY <1>1

\* Decref of one buffer.
LEMMA DecrefOne ==
    ASSUME NEW x, NEW b
    PROVE  Cardinality({i \in DOMAIN <<x>> : <<x>>[i] = b}) = IF x = b THEN 1 ELSE 0
<1>1. DOMAIN <<x>> = {1} /\ <<x>>[1] = x OBVIOUS
<1>2. CASE x = b
  <2>1. {i \in DOMAIN <<x>> : <<x>>[i] = b} = {1} BY <1>1, <1>2
  <2> QED BY <2>1, <1>2, FS_Singleton
<1>3. CASE x # b
  <2>1. {i \in DOMAIN <<x>> : <<x>>[i] = b} = {} BY <1>1, <1>3
  <2> QED BY <2>1, <1>3, FS_EmptySet
<1> QED BY <1>2, <1>3

\* Those who go take their references with them.
LEMMA Release ==
    ASSUME NEW H, IsFiniteSet(H), NEW G \in SUBSET H
    PROVE  /\ IsFiniteSet(H \ G)
           /\ Cardinality(H) \in Nat /\ Cardinality(G) \in Nat
           /\ Cardinality(H \ G) = Cardinality(H) - Cardinality(G)
<1>1. IsFiniteSet(G) /\ Cardinality(H) \in Nat /\ Cardinality(G) \in Nat
  BY FS_Subset, FS_CardinalityType
<1>2. H \cap G = G OBVIOUS
<1> QED BY <1>1, <1>2, FS_Difference

-----------------------------------------------------------------------------
(* The invariant. *)

\* The pump has a message only while it pings and while it writes one.
HeldByPump ==
    \A c \in Conn :
       /\ pump[c] \in {"pinging", "writing"} \/ held[c] = NoBuffer
       /\ pump[c] = "writing" => held[c] \in Buffer

\* A sender keeps its buffer until it has served everybody.
SenderHolds == \A s \in Sender : sender[s].to # {} => sender[s].buf \in Buffer

Counted == \A b \in Buffer : IsFiniteSet(Holders(b)) /\ refcnt[b] = Cardinality(Holders(b))

\* What is in use has not been reset.
Filled == \A b \in Buffer : refcnt[b] > 0 => content[b] \in 1 .. MaxMessages

IInv == TypeOK /\ HeldByPump /\ SenderHolds /\ Counted /\ Filled

\* Who holds what depends on queues, pumps and senders only.
LEMMA SameHolders ==
    ASSUME Counted, Filled, UNCHANGED <<queue, held, sender, refcnt, content>>
    PROVE  Counted' /\ Filled'
BY DEF Counted, Filled, Holders

\* Counts that are right after a step in which nothing comes to be used are
\* numbers, and what is still in use has not been reset.
LEMMA AfterDecref ==
    ASSUME TypeOK, Counted, Filled, Counted', NEW s, Decref(s),
           \A b \in Buffer : Holders(b)' \subseteq Holders(b)
    PROVE  /\ refcnt' \in [Buffer -> Nat] /\ content' \in [Buffer -> 0 .. MaxMessages]
           /\ Filled'
<1>1. \A b \in Buffer : refcnt'[b] \in Nat
  BY FS_CardinalityType DEF Counted
<1>2. refcnt' \in [Buffer -> Nat]
  BY <1>1 DEF Decref
<1>3. content' \in [Buffer -> 0 .. MaxMessages]
  BY LimitAssumption DEF Decref, TypeOK
<1>4. ASSUME NEW b \in Buffer, refcnt'[b] > 0
      PROVE  content'[b] \in 1 .. MaxMessages
  <2>1. Holders(b)' # {}
    BY <1>4, FS_EmptySet DEF Counted
  <2>2. Holders(b) # {}
    BY <2>1
  <2>3. refcnt[b] # 0 /\ refcnt[b] \in Nat
    BY <2>2, FS_EmptySet DEF Counted, TypeOK
  <2> QED BY <1>4, <2>3 DEF Decref, Filled
<1> QED BY <1>2, <1>3, <1>4 DEF Filled

\* The steps in which no message moves.
Still(c) ==
    \/ Wait(c) \/ FastExit(c) \/ Ping(c) \/ StopTimer(c) \/ PumpCloses(c) \/ PumpEnds(c)
    \/ PingDue(c) \/ TimerAfterClose(c) \/ ResetTimer(c)
    \/ ReadPump(c) \/ CloseSocket(c) \/ Replaced(c) \/ Fail(c)

LEMMA StillInv ==
    ASSUME IInv, NEW c \in Conn, Still(c)
    PROVE  IInv'
<1>1. UNCHANGED <<queue, held, sender, refcnt, content, made>>
  BY DEF Still, Wait, FastExit, Ping, StopTimer, PumpCloses, PumpEnds, PingDue, TimerAfterClose,
         ResetTimer, ReadPump, ReadError, ReaderCloses, OnDisconnect, CloseSocket, Replaced, Fail
<1>2. TypeOK'
  <2>1. CASE Wait(c) \/ FastExit(c) \/ Ping(c) \/ StopTimer(c) \/ PumpEnds(c)
    BY <2>1 DEF IInv, TypeOK, Wait, FastExit, Ping, StopTimer, PumpEnds
  <2>2. CASE PumpCloses(c) \/ ReaderCloses(c) \/ Replaced(c)
    BY <2>2 DEF IInv, TypeOK, PumpCloses, ReaderCloses, Replaced, Claim
  <2>3. CASE PingDue(c)
    BY <2>3 DEF IInv, TypeOK, PingDue, Signal
  <2>4. CASE TimerAfterClose(c) \/ ResetTimer(c)
    BY <2>4 DEF IInv, TypeOK, TimerAfterClose, ResetTimer
  <2>5. CASE ReadError(c) \/ OnDisconnect(c)
    BY <2>5 DEF IInv, TypeOK, ReadError, OnDisconnect
  <2>6. CASE CloseSocket(c) \/ Fail(c)
    BY <2>6 DEF IInv, TypeOK, CloseSocket, Fail
  <2> QED BY <2>1, <2>2, <2>3, <2>4, <2>5, <2>6 DEF Still, ReadPump
<1>3. HeldByPump'
  BY DEF IInv, TypeOK, HeldByPump, Still, Wait, FastExit, Ping, StopTimer, PumpCloses, PumpEnds,
         PingDue, TimerAfterClose, ResetTimer, ReadPump, ReadError, ReaderCloses, OnDisconnect,
         CloseSocket, Replaced, Fail, Claim, Signal
<1> QED BY <1>1, <1>2, <1>3, SameHolders DEF IInv, SenderHolds

\* The flush loop hands the first of the queue to the pump: every other holder
\* stays, or moves up one place.
LEMMA FlushMoves ==
    ASSUME IInv, NEW c \in Conn, Flush(c), NEW b \in Buffer
    PROVE  IsFiniteSet(Holders(b)') /\ Cardinality(Holders(b)') = Cardinality(Holders(b))
<1> DEFINE q == queue[c]
<1>1. q \in Seq(Buffer) /\ DOMAIN q = 1 .. Len(q) /\ Len(q) \in Nat
  BY QueueIsSeq, LimitAssumption DEF IInv, TypeOK
<1>2. held[c] = NoBuffer /\ NoBuffer # b
  BY BufferAssumption DEF IInv, HeldByPump, Flush
<1>3. /\ \A d \in Conn : d # c => queue'[d] = queue[d] /\ held'[d] = held[d]
      /\ sender' = sender
  BY DEF Flush, IInv, TypeOK
<1>4. CASE q = <<>>
  <2>1. queue' = queue /\ held' = held
    BY <1>2, <1>4 DEF Flush, IInv, TypeOK
  <2> QED BY <2>1, <1>3 DEF Holders, IInv, Counted
<1>5. CASE q # <<>>
  <2>1. /\ queue'[c] = Tail(q) /\ held'[c] = q[1]
        /\ DOMAIN Tail(q) = 1 .. Len(q) - 1
        /\ \A i \in 1 .. Len(q) - 1 : Tail(q)[i] = q[i + 1]
        /\ 1 \in 1 .. Len(q)
    BY <1>1, <1>5 DEF Flush, IInv, TypeOK
  <2> DEFINE Moved(h) == IF h[1] = "queue" /\ h[2] = c
                         THEN IF h[3] = 1 THEN <<"pump", c>> ELSE <<"queue", c, h[3] - 1>>
                         ELSE h
             f == [h \in Holders(b) |-> Moved(h)]
  <2>2. /\ Moved(<<"queue", c, 1>>) = <<"pump", c>>
        /\ \A i \in 2 .. Len(q) : Moved(<<"queue", c, i>>) = <<"queue", c, i - 1>>
        /\ \A d, i : d # c => Moved(<<"queue", d, i>>) = <<"queue", d, i>>
        /\ \A d : Moved(<<"pump", d>>) = <<"pump", d>> /\ Moved(<<"sender", d>>) = <<"sender", d>>
    BY <1>1
  <2> HIDE DEF Moved, q
  <2> DEFINE Elsewhere(h) ==
               \/ \E d \in Conn \ {c} : \E i \in DOMAIN queue[d] : queue[d][i] = b /\ h = <<"queue", d, i>>
               \/ \E d \in Conn \ {c} : held[d] = b /\ h = <<"pump", d>>
               \/ \E s \in Sender : sender[s].buf = b /\ h = <<"sender", s>>
  <2>3. /\ \A h : h \in Holders(b) <=>
              \/ Elsewhere(h)
              \/ \E i \in 1 .. Len(q) : q[i] = b /\ h = <<"queue", c, i>>
        /\ \A h : h \in Holders(b)' <=>
              \/ Elsewhere(h)
              \/ \E i \in 1 .. Len(q) - 1 : q[i + 1] = b /\ h = <<"queue", c, i>>
              \/ q[1] = b /\ h = <<"pump", c>>
    <3>1. \A h : h \in Holders(b) <=>
              \/ Elsewhere(h)
              \/ \E i \in 1 .. Len(q) : q[i] = b /\ h = <<"queue", c, i>>
      BY <1>1, <1>2, HolderFacts DEF q
    <3>2. \A h : h \in Holders(b)' <=>
              \/ Elsewhere(h)
              \/ \E i \in 1 .. Len(q) - 1 : q[i + 1] = b /\ h = <<"queue", c, i>>
              \/ q[1] = b /\ h = <<"pump", c>>
      <4> TAKE h
      <4>1. /\ DOMAIN queue'[c] = 1 .. Len(q) - 1
            /\ \A i \in DOMAIN queue'[c] : queue'[c][i] = q[i + 1]
            /\ held'[c] = q[1]
        BY <2>1 DEF q
      <4>2. (\E d \in Conn : \E i \in DOMAIN queue'[d] : queue'[d][i] = b /\ h = <<"queue", d, i>>)
            <=> \/ \E d \in Conn \ {c} : \E i \in DOMAIN queue[d] : queue[d][i] = b /\ h = <<"queue", d, i>>
                \/ \E i \in 1 .. Len(q) - 1 : q[i + 1] = b /\ h = <<"queue", c, i>>
        BY <1>3, <4>1
      <4>3. (\E d \in Conn : held'[d] = b /\ h = <<"pump", d>>)
            <=> \/ \E d \in Conn \ {c} : held[d] = b /\ h = <<"pump", d>>
                \/ q[1] = b /\ h = <<"pump", c>>
        BY <1>3, <4>1
      <4> QED BY <1>3, <4>2, <4>3, HolderFacts
    <3> QED BY <3>1, <3>2
  <2>4. \A h : Elsewhere(h) => Moved(h) = h
    BY <2>2
  <2>5. \A i \in 1 .. Len(q) :
           \/ i = 1 /\ Moved(<<"queue", c, i>>) = <<"pump", c>>
           \/ /\ i - 1 \in 1 .. Len(q) - 1 /\ (i - 1) + 1 = i
              /\ Moved(<<"queue", c, i>>) = <<"queue", c, i - 1>>
    <3> SUFFICES ASSUME NEW i \in 1 .. Len(q)
                 PROVE  \/ i = 1 /\ Moved(<<"queue", c, i>>) = <<"pump", c>>
                        \/ /\ i - 1 \in 1 .. Len(q) - 1 /\ (i - 1) + 1 = i
                           /\ Moved(<<"queue", c, i>>) = <<"queue", c, i - 1>>
      OBVIOUS
    <3>1. i = 1 \/ i \in 2 .. Len(q) BY <1>1 DEF q
    <3> QED BY <1>1, <2>2, <3>1 DEF q
  <2>6. /\ \A h, i : Elsewhere(h) => h # <<"queue", c, i>>
        /\ \A h : Elsewhere(h) => h # <<"pump", c>>
    BY HoldersDiffer
  <2> HIDE DEF Elsewhere
  <2>7. \A h \in Holders(b) : Moved(h) \in Holders(b)'
    BY <2>3, <2>4, <2>5
  <2>8. \A h, k \in Holders(b) : Moved(h) = Moved(k) => h = k
    <3> SUFFICES ASSUME NEW h \in Holders(b), NEW k \in Holders(b), Moved(h) = Moved(k)
                 PROVE  h = k
      OBVIOUS
    <3>1. CASE Elsewhere(h) /\ Elsewhere(k)
      BY <3>1, <2>4
    <3>2. CASE ~Elsewhere(h) /\ ~Elsewhere(k)
      <4>1. PICK i \in 1 .. Len(q) : h = <<"queue", c, i>> BY <2>3, <3>2
      <4>2. PICK j \in 1 .. Len(q) : k = <<"queue", c, j>> BY <2>3, <3>2
      <4>3. i = 1 <=> j = 1 BY <4>1, <4>2, <2>5, HoldersDiffer
      <4>4. i # 1 => i - 1 = j - 1 BY <4>1, <4>2, <4>3, <2>5, HoldersDiffer
      <4>5. i = j BY <1>1, <4>3, <4>4 DEF q
      <4> QED BY <4>1, <4>2, <4>5
    <3>3. CASE Elsewhere(h) /\ ~Elsewhere(k)
      BY <3>3, <2>3, <2>4, <2>5, <2>6
    <3>4. CASE ~Elsewhere(h) /\ Elsewhere(k)
      BY <3>4, <2>3, <2>4, <2>5, <2>6
    <3> QED BY <3>1, <3>2, <3>3, <3>4
  <2>9. \A k \in Holders(b)' : \E h \in Holders(b) : Moved(h) = k
    <3> SUFFICES ASSUME NEW k \in Holders(b)' PROVE \E h \in Holders(b) : Moved(h) = k
      OBVIOUS
    <3>1. CASE Elsewhere(k)
      BY <3>1, <2>3, <2>4
    <3>2. ASSUME NEW i \in 1 .. Len(q) - 1, q[i + 1] = b, k = <<"queue", c, i>>
          PROVE  \E h \in Holders(b) : Moved(h) = k
      <4>1. i + 1 \in 1 .. Len(q) /\ i + 1 # 1 /\ (i + 1) - 1 = i BY <1>1 DEF q
      <4>2. <<"queue", c, i + 1>> \in Holders(b) BY <4>1, <3>2, <2>3
      <4>3. Moved(<<"queue", c, i + 1>>) = k BY <4>1, <3>2, <2>5
      <4> QED BY <4>2, <4>3
    <3>3. CASE q[1] = b /\ k = <<"pump", c>>
      <4>1. <<"queue", c, 1>> \in Holders(b) BY <3>3, <2>1, <2>3 DEF q
      <4> QED BY <4>1, <3>3, <2>2
    <3> QED BY <3>1, <3>2, <3>3, <2>3
  <2>10. f \in Bijection(Holders(b), Holders(b)')
    BY <2>7, <2>8, <2>9 DEF Bijection, Injection, Surjection, IsInjective
  <2> QED BY <2>10, FS_Bijection DEF IInv, Counted, ExistsBijection
<1> QED BY <1>4, <1>5

LEMMA FlushInv ==
    ASSUME IInv, NEW c \in Conn, Flush(c)
    PROVE  IInv'
<1>1. queue[c] \in Seq(Buffer) /\ Len(queue[c]) <= maxQueueSize
  BY QueueIsSeq, LimitAssumption DEF IInv, TypeOK
<1>2. queue[c] # <<>> =>
        /\ Tail(queue[c]) \in Seq(Buffer) /\ Len(Tail(queue[c])) <= maxQueueSize
        /\ Head(queue[c]) \in Buffer
  BY <1>1, LimitAssumption
<1>3. queue' \in [Conn -> SeqOf(Buffer, maxQueueSize)] /\ held' \in [Conn -> Buffer \cup {NoBuffer}]
  <2>1. queue[c] # <<>> => Tail(queue[c]) \in SeqOf(Buffer, maxQueueSize)
    BY <1>2, QueueIsSeq, LimitAssumption
  <2> QED BY <1>2, <2>1 DEF IInv, TypeOK, Flush
<1>4. pump' \in [Conn -> {"top", "waiting", "pinging", "writing", "flushing", "cleanup", "closing", "done"}]
  BY DEF IInv, TypeOK, Flush
<1>5. ping' \in [Conn -> BOOLEAN]
  BY DEF IInv, TypeOK, Flush
<1>6. TypeOK'
  BY <1>3, <1>4, <1>5 DEF IInv, TypeOK, Flush
<1>7. HeldByPump'
  BY <1>2 DEF IInv, TypeOK, HeldByPump, Flush
<1>8. Counted'
  BY FlushMoves DEF IInv, Counted, Flush
<1> QED BY <1>6, <1>7, <1>8 DEF IInv, SenderHolds, Filled, Flush

\* The write pump is done with its message, written or not.
LEMMA DropHeldInv ==
    ASSUME IInv, NEW c \in Conn, DropHeld(c), UNCHANGED <<queue, sender, made>>
    PROVE  /\ Counted' /\ Filled'
           /\ refcnt' \in [Buffer -> Nat] /\ content' \in [Buffer -> 0 .. MaxMessages]
           /\ \A b \in Buffer : Holders(b)' \subseteq Holders(b)
<1>1. held[c] \in Buffer \cup {NoBuffer} /\ held' = [held EXCEPT ![c] = NoBuffer]
  BY DEF IInv, TypeOK, DropHeld
<1>2. ASSUME NEW b \in Buffer
      PROVE  /\ Holders(b)' = Holders(b) \ (IF held[c] = b THEN {<<"pump", c>>} ELSE {})
             /\ held[c] = b => <<"pump", c>> \in Holders(b)
  <2>1. NoBuffer # b BY BufferAssumption
  <2>2. \A d \in Conn : held'[d] = b <=> held[d] = b /\ d # c
    BY <1>1, <2>1 DEF IInv, TypeOK
  <2>3. /\ \A d, i : <<"queue", d, i>> # <<"pump", c>>
        /\ \A d : <<"sender", d>> # <<"pump", c>>
        /\ \A d : <<"pump", d>> = <<"pump", c>> => d = c
    BY HoldersDiffer
  <2>4. \A h : h \in Holders(b)' <=> h \in Holders(b) /\ ~(held[c] = b /\ h = <<"pump", c>>)
    BY <2>2, <2>3, HolderFacts
  <2>5. held[c] = b => <<"pump", c>> \in Holders(b)
    BY HolderFacts
  <2> QED BY <2>4, <2>5
<1>3. ASSUME NEW b \in Buffer
      PROVE  refcnt'[b] = refcnt[b] - (IF held[c] = b THEN 1 ELSE 0)
  <2>1. CASE held[c] = NoBuffer
    <3>1. {i \in DOMAIN <<>> : <<>>[i] = b} = {} OBVIOUS
    <3> QED BY <3>1, <2>1, FS_EmptySet, BufferAssumption DEF DropHeld, Decref
  <2>2. CASE held[c] # NoBuffer
    <3>1. refcnt'[b] = refcnt[b] - Cardinality({i \in DOMAIN <<held[c]>> : <<held[c]>>[i] = b})
      BY <2>2 DEF DropHeld, Decref
    <3> QED BY <3>1, DecrefOne
  <2> QED BY <2>1, <2>2
<1>4. Counted'
  <2> SUFFICES ASSUME NEW b \in Buffer
               PROVE  IsFiniteSet(Holders(b)') /\ refcnt'[b] = Cardinality(Holders(b)')
    BY DEF Counted
  <2>1. IsFiniteSet(Holders(b)) /\ refcnt[b] = Cardinality(Holders(b)) /\ refcnt[b] \in Nat
    BY DEF IInv, Counted, TypeOK
  <2>2. CASE held[c] = b
    BY <2>1, <2>2, <1>2, <1>3, FS_RemoveElement
  <2>3. CASE held[c] # b
    <3>1. Holders(b)' = Holders(b) BY <1>2, <2>3
    <3>2. refcnt'[b] = refcnt[b] BY <1>3, <2>1, <2>3
    <3> QED BY <2>1, <3>1, <3>2
  <2> QED BY <2>2, <2>3
<1>5. \A b \in Buffer : Holders(b)' \subseteq Holders(b)
  BY <1>2
<1> QED BY <1>4, <1>5, AfterDecref DEF IInv, DropHeld

LEMMA WriteInv ==
    ASSUME IInv, NEW c \in Conn, Write(c) \/ WriteError(c)
    PROVE  IInv'
<1>1. DropHeld(c) /\ UNCHANGED <<queue, isClosed, closer, ping, timer, reader, ws, sender, made>>
  BY DEF Write, WriteError
<1>2. held' = [held EXCEPT ![c] = NoBuffer] BY <1>1 DEF DropHeld
<1>3. pump' \in [Conn -> {"top", "waiting", "pinging", "writing", "flushing", "cleanup", "closing", "done"}]
  BY DEF IInv, TypeOK, Write, WriteError
<1>4. TypeOK' BY <1>1, <1>2, <1>3, DropHeldInv DEF IInv, TypeOK
<1>5. HeldByPump'
  BY <1>2 DEF IInv, TypeOK, HeldByPump, Write, WriteError
<1> QED BY <1>1, <1>4, <1>5, DropHeldInv DEF IInv, SenderHolds

\* Close, with the lock, gives up what is still queued.
LEMMA CleanQueueInv ==
    ASSUME IInv, NEW c \in Conn, CleanQueue(c)
    PROVE  IInv' /\ \A b \in Buffer : Holders(b)' \subseteq Holders(b)
<1> DEFINE q == queue[c]
           Index(b) == {i \in DOMAIN q : q[i] = b}
           Gone(b) == {<<"queue", c, i>> : i \in Index(b)}
<1>1. q \in Seq(Buffer) /\ DOMAIN q = 1 .. Len(q) /\ Len(q) \in Nat
  BY QueueIsSeq, LimitAssumption DEF IInv, TypeOK
<1>2. /\ \A d \in Conn : d # c => queue'[d] = queue[d]
      /\ queue'[c] = <<>> /\ DOMAIN queue'[c] = {}
      /\ UNCHANGED <<held, sender>>
  BY DEF CleanQueue, IInv, TypeOK
<1>3. ASSUME NEW b \in Buffer
      PROVE  Gone(b) \in SUBSET Holders(b) /\ Holders(b)' = Holders(b) \ Gone(b)
  <2>1. Gone(b) \in SUBSET Holders(b)
    BY HolderFacts
  <2>2. \A h : h \in Gone(b) <=> \E i \in DOMAIN q : q[i] = b /\ h = <<"queue", c, i>>
    OBVIOUS
  <2> HIDE DEF Gone
  <2>3. /\ \A d, i, j : d # c => <<"queue", d, i>> # <<"queue", c, j>>
        /\ \A d, j : <<"pump", d>> # <<"queue", c, j>> /\ <<"sender", d>> # <<"queue", c, j>>
    BY HoldersDiffer
  <2>4. ASSUME NEW h
        PROVE  (\E d \in Conn : \E i \in DOMAIN queue'[d] : queue'[d][i] = b /\ h = <<"queue", d, i>>)
               <=> (\E d \in Conn \ {c} : \E i \in DOMAIN queue[d] : queue[d][i] = b /\ h = <<"queue", d, i>>)
    BY <1>2
  <2>5. ASSUME NEW h
        PROVE  h \in Holders(b)' <=> h \in Holders(b) /\ h \notin Gone(b)
    BY <1>2, <2>2, <2>3, <2>4, HolderFacts
  <2> QED BY <2>1, <2>5
<1>4. ASSUME NEW b \in Buffer
      PROVE  IsFiniteSet(Index(b)) /\ Cardinality(Gone(b)) = Cardinality(Index(b))
  <2>1. IsFiniteSet(Index(b))
    <3>1. IsFiniteSet(1 .. Len(q))
      <4>1. \A n \in Nat : IsFiniteSet(1 .. n) BY FS_Interval
      <4> QED BY <1>1, <4>1
    <3>2. Index(b) \in SUBSET (1 .. Len(q)) BY <1>1
    <3> QED BY <3>1, <3>2, FS_Subset
  <2> DEFINE f == [i \in Index(b) |-> <<"queue", c, i>>]
  <2>2. f \in Bijection(Index(b), Gone(b))
    BY HoldersDiffer DEF Bijection, Injection, Surjection, IsInjective
  <2> QED BY <2>1, <2>2, FS_Bijection DEF ExistsBijection
<1>5. ASSUME NEW b \in Buffer
      PROVE  refcnt'[b] = refcnt[b] - Cardinality(Index(b))
  BY DEF CleanQueue, Decref
<1> HIDE DEF Index, Gone, q
<1>6. Counted'
  BY <1>3, <1>4, <1>5, Release DEF Counted, IInv
<1>7. \A b \in Buffer : Holders(b)' \subseteq Holders(b)
  BY <1>3
<1>8. Decref(queue[c]) BY DEF CleanQueue
<1>9. refcnt' \in [Buffer -> Nat] /\ content' \in [Buffer -> 0 .. MaxMessages] /\ Filled'
  BY <1>6, <1>7, <1>8, AfterDecref DEF IInv
<1>10. <<>> \in SeqOf(Buffer, maxQueueSize)
  <2>1. <<>> \in Seq(Buffer) /\ Len(<<>>) <= maxQueueSize BY LimitAssumption
  <2> QED BY <2>1, QueueTypes
<1>11. /\ queue' \in [Conn -> SeqOf(Buffer, maxQueueSize)]
       /\ pump' \in [Conn -> {"top", "waiting", "pinging", "writing", "flushing", "cleanup", "closing", "done"}]
  BY <1>10 DEF IInv, TypeOK, CleanQueue, Signal
<1>12. TypeOK'
  BY <1>9, <1>11 DEF IInv, TypeOK, CleanQueue
<1>13. HeldByPump' /\ SenderHolds'
  BY DEF IInv, TypeOK, HeldByPump, SenderHolds, CleanQueue, Signal
<1> QED BY <1>6, <1>7, <1>9, <1>12, <1>13 DEF IInv

\* Send puts a message on the queue, with a reference of its own, or drops it.
LEMMA SendToInv ==
    ASSUME IInv, NEW s \in Sender, NEW c \in Conn, SendTo(s, c)
    PROVE  IInv'
<1> DEFINE x == sender[s].buf
           q == queue[c]
<1>1. x \in Buffer
  BY DEF IInv, SenderHolds, SendTo
<1>2. q \in Seq(Buffer) /\ DOMAIN q = 1 .. Len(q) /\ Len(q) \in Nat
  BY QueueIsSeq, LimitAssumption DEF IInv, TypeOK
<1>3. /\ sender' \in [Sender -> [buf : Buffer \cup {NoBuffer}, to : SUBSET Conn]]
      /\ \A t \in Sender : sender'[t].buf = sender[t].buf /\ sender'[t].to \subseteq sender[t].to
  BY DEF IInv, TypeOK, SendTo
<1>4. CASE Closed(c) \/ Len(q) >= maxQueueSize
  <2>1. UNCHANGED <<queue, refcnt, pump, held, content>>
    BY <1>4 DEF SendTo, Send
  <2>2. TypeOK' BY <1>3, <2>1 DEF IInv, TypeOK, SendTo
  <2>3. ASSUME NEW b \in Buffer PROVE Holders(b)' = Holders(b)
    <3>1. \A h : (\E t \in Sender : sender'[t].buf = b /\ h = <<"sender", t>>)
                 <=> (\E t \in Sender : sender[t].buf = b /\ h = <<"sender", t>>)
      BY <1>3
    <3>2. \A h : h \in Holders(b)' <=> h \in Holders(b)
      BY <2>1, <3>1, HolderFacts
    <3> QED BY <3>2
  <2> QED BY <1>3, <2>1, <2>2, <2>3 DEF IInv, HeldByPump, SenderHolds, Counted, Filled
<1>5. CASE ~(Closed(c) \/ Len(q) >= maxQueueSize)
  <2>1. /\ queue' = [queue EXCEPT ![c] = Append(q, x)]
        /\ refcnt' = [refcnt EXCEPT ![x] = @ + 1]
        /\ Signal(c)
    BY <1>5 DEF SendTo, Send
  <2>2. /\ Append(q, x) \in Seq(Buffer) /\ Len(Append(q, x)) = Len(q) + 1
        /\ DOMAIN Append(q, x) = 1 .. Len(q) + 1
        /\ \A i \in 1 .. Len(q) : Append(q, x)[i] = q[i]
        /\ Append(q, x)[Len(q) + 1] = x
    BY <1>1, <1>2
  <2>3. Append(q, x) \in SeqOf(Buffer, maxQueueSize)
    <3>1. Len(Append(q, x)) <= maxQueueSize BY <1>2, <1>5, <2>2, LimitAssumption
    <3> HIDE DEF q, x
    <3> QED BY <2>2, <3>1, QueueTypes
  <2>4. /\ queue' \in [Conn -> SeqOf(Buffer, maxQueueSize)]
        /\ refcnt' \in [Buffer -> Nat]
    BY <1>1, <2>1, <2>3 DEF IInv, TypeOK
  <2>5. pump' \in [Conn -> {"top", "waiting", "pinging", "writing", "flushing", "cleanup", "closing", "done"}]
    BY <2>1 DEF IInv, TypeOK, Signal
  <2>6. TypeOK' BY <1>3, <2>4, <2>5 DEF IInv, TypeOK, SendTo
  <2>7. HeldByPump' BY <2>1 DEF IInv, TypeOK, HeldByPump, SendTo, Signal
  <2>8. SenderHolds' BY <1>3 DEF IInv, SenderHolds
  <2> DEFINE new == <<"queue", c, Len(q) + 1>>
  <2>9. ASSUME NEW b \in Buffer
        PROVE  /\ Holders(b)' = Holders(b) \cup (IF b = x THEN {new} ELSE {})
               /\ new \notin Holders(b)
    <3>1. /\ queue'[c] = Append(q, x)
          /\ \A d \in Conn : d # c => queue'[d] = queue[d]
          /\ held' = held
      BY <2>1 DEF IInv, TypeOK, SendTo
    <3>2. ASSUME NEW h
          PROVE  (\E d \in Conn : \E i \in DOMAIN queue'[d] : queue'[d][i] = b /\ h = <<"queue", d, i>>)
                 <=> \/ \E d \in Conn : \E i \in DOMAIN queue[d] : queue[d][i] = b /\ h = <<"queue", d, i>>
                     \/ b = x /\ h = new
      <4>1. (\E i \in DOMAIN Append(q, x) : Append(q, x)[i] = b /\ h = <<"queue", c, i>>)
            <=> \/ \E i \in DOMAIN q : q[i] = b /\ h = <<"queue", c, i>>
                \/ b = x /\ h = new
        BY <1>2, <2>2
      <4> QED BY <3>1, <4>1
    <3>3. \A h : (\E t \in Sender : sender'[t].buf = b /\ h = <<"sender", t>>)
                 <=> (\E t \in Sender : sender[t].buf = b /\ h = <<"sender", t>>)
      BY <1>3
    <3> HIDE DEF x, new, q
    <3>4. \A h : h \in Holders(b)' <=> h \in Holders(b) \/ (b = x /\ h = new)
      BY <3>1, <3>2, <3>3, HolderFacts
    <3>5. new \notin Holders(b)
      <4>1. Len(q) + 1 \notin DOMAIN q BY <1>2
      <4> QED BY <4>1, HolderFacts, HoldersDiffer DEF q, new
    <3> QED BY <3>4, <3>5
  <2>10. Counted'
    <3> SUFFICES ASSUME NEW b \in Buffer
                 PROVE  IsFiniteSet(Holders(b)') /\ refcnt'[b] = Cardinality(Holders(b)')
      BY DEF Counted
    <3>1. IsFiniteSet(Holders(b)) /\ refcnt[b] = Cardinality(Holders(b)) /\ refcnt[b] \in Nat
      BY DEF IInv, Counted, TypeOK
    <3> HIDE DEF x, new
    <3>2. CASE b = x
      <4>1. refcnt'[b] = refcnt[b] + 1 BY <1>1, <2>1, <3>2 DEF IInv, TypeOK
      <4>2. Holders(b)' = Holders(b) \cup {new} /\ new \notin Holders(b) BY <2>9, <3>2
      <4> QED BY <3>1, <4>1, <4>2, FS_AddElement
    <3>3. CASE b # x
      <4>1. refcnt'[b] = refcnt[b] BY <1>1, <2>1, <3>3 DEF IInv, TypeOK
      <4>2. Holders(b)' = Holders(b) BY <2>9, <3>3
      <4> QED BY <3>1, <4>1, <4>2
    <3> QED BY <3>2, <3>3
  <2>11. Filled'
    <3>1. refcnt[x] # 0 /\ refcnt[x] \in Nat
      <4>1. <<"sender", s>> \in Holders(x) BY HolderFacts
      <4> QED BY <1>1, <4>1, FS_EmptySet DEF IInv, Counted, TypeOK
    <3> QED BY <1>1, <2>1, <3>1 DEF IInv, TypeOK, Filled, SendTo
  <2> QED BY <2>6, <2>7, <2>8, <2>10, <2>11 DEF IInv
<1> QED BY <1>4, <1>5

\* Nobody holds a free buffer.
LEMMA FreeIsUnused ==
    ASSUME IInv, Free # {}
    PROVE  New \in Buffer /\ refcnt[New] = 0 /\ Holders(New) = {}
<1>1. New \in Buffer /\ refcnt[New] = 0 BY NewIsFree DEF Free
<1> QED BY <1>1, FS_EmptySet DEF IInv, Counted

\* A new message is held by its sender, and by nobody else.
LEMMA EncodeInv ==
    ASSUME IInv, NEW s \in Sender, EncodeOutgoing(s)
    PROVE  IInv'
<1> DEFINE new == New
<1>1. new \in Buffer /\ refcnt[new] = 0 /\ Holders(new) = {} /\ new # NoBuffer
  BY FreeIsUnused, BufferAssumption DEF EncodeOutgoing
<1>2. PICK cs \in SUBSET Conn : sender' = [sender EXCEPT ![s] = [buf |-> new, to |-> cs]]
  BY DEF EncodeOutgoing
<1>3. /\ sender[s].buf = NoBuffer /\ made < MaxMessages /\ made' = made + 1
      /\ refcnt' = [refcnt EXCEPT ![new] = 1]
      /\ content' = [content EXCEPT ![new] = made']
      /\ UNCHANGED connVars
  BY DEF EncodeOutgoing
<1> HIDE DEF new
<1>4. made' \in 1 .. MaxMessages
  BY <1>3, LimitAssumption DEF IInv, TypeOK
<1>5. /\ sender' \in [Sender -> [buf : Buffer \cup {NoBuffer}, to : SUBSET Conn]]
      /\ sender'[s].buf = new
      /\ \A t \in Sender : t # s => sender'[t] = sender[t]
  BY <1>1, <1>2 DEF IInv, TypeOK
<1>6. refcnt' \in [Buffer -> Nat] /\ content' \in [Buffer -> 0 .. MaxMessages]
  <2>1. made' \in 0 .. MaxMessages /\ 1 \in Nat BY <1>4, LimitAssumption
  <2>2. refcnt \in [Buffer -> Nat] /\ content \in [Buffer -> 0 .. MaxMessages] BY DEF IInv, TypeOK
  <2> QED BY <1>3, <2>1, <2>2
<1>7. TypeOK'
  BY <1>3, <1>4, <1>5, <1>6, LimitAssumption DEF IInv, TypeOK, connVars
<1>8. HeldByPump' /\ SenderHolds'
  BY <1>1, <1>3, <1>5 DEF IInv, HeldByPump, SenderHolds, connVars
<1>9. ASSUME NEW b \in Buffer
      PROVE  Holders(b)' = IF b = new THEN {<<"sender", s>>} ELSE Holders(b)
  <2>1. NoBuffer # b BY BufferAssumption
  <2>2. \A h : (\E t \in Sender : sender'[t].buf = b /\ h = <<"sender", t>>)
               <=> \/ \E t \in Sender : sender[t].buf = b /\ h = <<"sender", t>>
                   \/ b = new /\ h = <<"sender", s>>
    BY <1>1, <1>3, <1>5, <2>1
  <2>3. queue' = queue /\ held' = held BY <1>3 DEF connVars
  <2>4. \A h : h \in Holders(b)' <=> h \in Holders(b) \/ (b = new /\ h = <<"sender", s>>)
    BY <2>2, <2>3, HolderFacts
  <2> QED BY <1>1, <2>4
<1>10. Counted'
  <2> SUFFICES ASSUME NEW b \in Buffer
               PROVE  IsFiniteSet(Holders(b)') /\ refcnt'[b] = Cardinality(Holders(b)')
    BY DEF Counted
  <2>1. CASE b = new
    <3>1. refcnt'[b] = 1 BY <1>1, <1>3, <2>1 DEF IInv, TypeOK
    <3>2. Holders(b)' = {<<"sender", s>>} BY <1>9, <2>1
    <3> QED BY <3>1, <3>2, FS_Singleton
  <2>2. CASE b # new
    <3>1. refcnt'[b] = refcnt[b] BY <1>1, <1>3, <2>2 DEF IInv, TypeOK
    <3>2. Holders(b)' = Holders(b) BY <1>9, <2>2
    <3> QED BY <3>1, <3>2 DEF IInv, Counted
  <2> QED BY <2>1, <2>2
<1>11. Filled'
  BY <1>1, <1>3, <1>4 DEF IInv, TypeOK, Filled
<1> QED BY <1>7, <1>8, <1>10, <1>11 DEF IInv

\* The sender is done.
LEMMA SentInv ==
    ASSUME IInv, NEW s \in Sender, Sent(s)
    PROVE  IInv' /\ \A b \in Buffer : Holders(b)' \subseteq Holders(b)
<1> DEFINE x == sender[s].buf
<1>1. x \in Buffer /\ x # NoBuffer
  BY DEF IInv, TypeOK, Sent
<1>2. /\ sender' = [sender EXCEPT ![s].buf = NoBuffer]
      /\ sender' \in [Sender -> [buf : Buffer \cup {NoBuffer}, to : SUBSET Conn]]
      /\ sender'[s].buf = NoBuffer /\ sender'[s].to = {}
      /\ \A t \in Sender : t # s => sender'[t] = sender[t]
  BY DEF IInv, TypeOK, Sent
<1>3. UNCHANGED <<connVars, made>> /\ Decref(<<x>>)
  BY DEF Sent
<1> HIDE DEF x
<1>4. ASSUME NEW b \in Buffer
      PROVE  /\ Holders(b)' = Holders(b) \ (IF x = b THEN {<<"sender", s>>} ELSE {})
             /\ x = b => <<"sender", s>> \in Holders(b)
  <2>1. NoBuffer # b BY BufferAssumption
  <2>2. \A t \in Sender : sender'[t].buf = b <=> sender[t].buf = b /\ t # s
    BY <1>2, <2>1
  <2>3. queue' = queue /\ held' = held BY <1>3 DEF connVars
  <2>4. \A t : /\ \A d, i : <<"queue", d, i>> # <<"sender", s>>
               /\ \A d : <<"pump", d>> # <<"sender", s>>
               /\ <<"sender", t>> = <<"sender", s>> => t = s
    BY HoldersDiffer
  <2>5. \A h : h \in Holders(b)' <=> h \in Holders(b) /\ ~(x = b /\ h = <<"sender", s>>)
    BY <2>2, <2>3, <2>4, HolderFacts DEF x
  <2>6. x = b => <<"sender", s>> \in Holders(b)
    BY HolderFacts DEF x
  <2> QED BY <2>5, <2>6
<1>5. ASSUME NEW b \in Buffer
      PROVE  refcnt'[b] = refcnt[b] - (IF x = b THEN 1 ELSE 0)
  <2>1. refcnt'[b] = refcnt[b] - Cardinality({i \in DOMAIN <<x>> : <<x>>[i] = b})
    BY <1>3 DEF Decref
  <2> QED BY <2>1, DecrefOne
<1>6. Counted'
  <2> SUFFICES ASSUME NEW b \in Buffer
               PROVE  IsFiniteSet(Holders(b)') /\ refcnt'[b] = Cardinality(Holders(b)')
    BY DEF Counted
  <2>1. IsFiniteSet(Holders(b)) /\ refcnt[b] = Cardinality(Holders(b)) /\ refcnt[b] \in Nat
    BY DEF IInv, Counted, TypeOK
  <2>2. CASE x = b
    BY <2>1, <2>2, <1>4, <1>5, FS_RemoveElement
  <2>3. CASE x # b
    <3>1. Holders(b)' = Holders(b) BY <1>4, <2>3
    <3>2. refcnt'[b] = refcnt[b] BY <1>5, <2>1, <2>3
    <3> QED BY <2>1, <3>1, <3>2
  <2> QED BY <2>2, <2>3
<1>7. \A b \in Buffer : Holders(b)' \subseteq Holders(b)
  BY <1>4
<1>8. refcnt' \in [Buffer -> Nat] /\ content' \in [Buffer -> 0 .. MaxMessages] /\ Filled'
  BY <1>3, <1>6, <1>7, AfterDecref DEF IInv
<1>9. TypeOK'
  BY <1>2, <1>3, <1>8 DEF IInv, TypeOK, connVars
<1>10. HeldByPump' /\ SenderHolds'
  BY <1>2, <1>3 DEF IInv, HeldByPump, SenderHolds, connVars
<1> QED BY <1>6, <1>7, <1>8, <1>9, <1>10 DEF IInv

-----------------------------------------------------------------------------
(* The theorems. *)

LEMMA InitInv == Init => IInv
<1> SUFFICES ASSUME Init PROVE IInv OBVIOUS
<1>1. <<>> \in SeqOf(Buffer, maxQueueSize)
  <2>1. <<>> \in Seq(Buffer) /\ Len(<<>>) <= maxQueueSize BY LimitAssumption
  <2> QED BY <2>1, QueueTypes
<1>2. TypeOK
  BY <1>1, LimitAssumption DEF Init, TypeOK
<1>3. HeldByPump /\ SenderHolds /\ Filled
  BY DEF Init, HeldByPump, SenderHolds, Filled
<1>4. \A b \in Buffer : Holders(b) = {}
  <2> SUFFICES ASSUME NEW b \in Buffer PROVE \A h : h \notin Holders(b)
    OBVIOUS
  <2>1. b # NoBuffer BY BufferAssumption
  <2>2. \A c \in Conn : DOMAIN queue[c] = {} BY DEF Init
  <2> QED BY <2>1, <2>2, HolderFacts DEF Init
<1>5. Counted
  BY <1>4, FS_EmptySet DEF Init, Counted
<1> QED BY <1>2, <1>3, <1>5 DEF IInv

\* Every step keeps the invariant.
LEMMA StepInv == IInv /\ [Next]_vars => IInv'
<1> SUFFICES ASSUME IInv, [Next]_vars PROVE IInv'
  OBVIOUS
<1>1. ASSUME NEW s \in Sender, EncodeOutgoing(s) \/ Goroutine(s)
      PROVE  IInv'
  BY <1>1, EncodeInv, SentInv, SendToInv DEF Goroutine
<1>2. ASSUME NEW c \in Conn,
             \/ WritePump(c) \/ ReadPump(c) \/ PingDue(c) \/ TimerAfterClose(c) \/ ResetTimer(c)
             \/ CloseSocket(c) \/ CleanQueue(c) \/ Replaced(c) \/ Fail(c)
      PROVE  IInv'
  BY <1>2, StillInv, FlushInv, WriteInv, CleanQueueInv DEF WritePump, Still
<1>3. CASE UNCHANGED vars
  <2>1. TypeOK' /\ HeldByPump' /\ SenderHolds'
    BY <1>3 DEF vars, IInv, TypeOK, HeldByPump, SenderHolds
  <2> QED BY <1>3, <2>1, SameHolders DEF vars, IInv
<1> QED BY <1>1, <1>2, <1>3 DEF Next

LEMMA Invariance == Spec => []IInv
BY InitInv, StepInv, PTL DEF Spec

\* The variables of the connections keep their types.
THEOREM TypeCorrect == Spec => []TypeOK
<1>1. IInv => TypeOK BY DEF IInv
<1> QED BY <1>1, Invariance, PTL

\* The count of a buffer is the number of queues' places, pumps and senders that
\* use it, in whatever order Send, the pump and Close come.
THEOREM CountsAreRight == Spec => []RefCounts
<1>1. IInv => RefCounts BY DEF IInv, Counted, RefCounts
<1> QED BY <1>1, Invariance, PTL

-----------------------------------------------------------------------------
(* The connections implement Outbox. *)

Exiting(c) == pump[c] \in {"cleanup", "closing", "done"}

Open == [c \in Conn |-> ~Closed(c) /\ pump[c] \notin {"cleanup", "closing", "done"}]
Waiting == [c \in Conn |-> Pending(c)]

\* What is queued and what is being written is in use.
LEMMA PendingUsed ==
    ASSUME IInv, NEW c \in Conn
    PROVE  /\ queue[c] \in Seq(Buffer) /\ Len(queue[c]) \in Nat /\ Len(queue[c]) <= maxQueueSize
           /\ \A i \in 1 .. Len(queue[c]) : queue[c][i] \in Buffer /\ refcnt[queue[c][i]] > 0
           /\ held[c] # NoBuffer => held[c] \in Buffer /\ refcnt[held[c]] > 0
<1>1. queue[c] \in Seq(Buffer) /\ Len(queue[c]) <= maxQueueSize
  BY QueueTypes DEF IInv, TypeOK
<1>2. Len(queue[c]) \in Nat /\ DOMAIN queue[c] = 1 .. Len(queue[c])
      /\ \A i \in 1 .. Len(queue[c]) : queue[c][i] \in Buffer
  BY <1>1
<1>3. \A b \in Buffer : Holders(b) # {} => refcnt[b] > 0
  BY FS_EmptySet DEF IInv, Counted, TypeOK
<1>4. \A i \in 1 .. Len(queue[c]) : <<"queue", c, i>> \in Holders(queue[c][i])
  BY <1>2, HolderFacts
<1>5. held[c] # NoBuffer => held[c] \in Buffer
  BY DEF IInv, TypeOK
<1>6. <<"pump", c>> \in Holders(held[c])
  BY HolderFacts
<1> QED BY <1>1, <1>2, <1>3, <1>4, <1>5, <1>6

LEMMA UsedNext ==
    IInv' => \A c \in Conn :
                /\ \A i \in 1 .. Len(queue'[c]) : refcnt'[queue'[c][i]] > 0
                /\ held'[c] # NoBuffer => refcnt'[held'[c]] > 0
<1>1. IInv => \A c \in Conn :
                /\ \A i \in 1 .. Len(queue[c]) : refcnt[queue[c][i]] > 0
                /\ held[c] # NoBuffer => refcnt[held[c]] > 0
  BY PendingUsed
<1>2. IInv' => (\A c \in Conn :
                /\ \A i \in 1 .. Len(queue[c]) : refcnt[queue[c][i]] > 0
                /\ held[c] # NoBuffer => refcnt[held[c]] > 0)'
  BY <1>1, PTL
<1> QED BY <1>2

\* The pending messages, place by place.
PendingIs(c) ==
    /\ Pending(c) \in Seq(1 .. MaxMessages)
    /\ Exiting(c) => Pending(c) = <<>>
    /\ ~Exiting(c) /\ held[c] = NoBuffer =>
          /\ Len(Pending(c)) = Len(queue[c])
          /\ \A i \in 1 .. Len(queue[c]) : Pending(c)[i] = content[queue[c][i]]
    /\ ~Exiting(c) /\ held[c] # NoBuffer =>
          /\ Len(Pending(c)) = Len(queue[c]) + 1
          /\ Pending(c)[1] = content[held[c]]
          /\ \A i \in 1 .. Len(queue[c]) : Pending(c)[i + 1] = content[queue[c][i]]

LEMMA PendingFacts == IInv => \A c \in Conn : PendingIs(c)
<1> SUFFICES ASSUME IInv, NEW c \in Conn PROVE PendingIs(c)
  OBVIOUS
<1> DEFINE q == queue[c]
<1>1. /\ Len(q) \in Nat
      /\ \A i \in 1 .. Len(q) : content[q[i]] \in 1 .. MaxMessages
      /\ held[c] # NoBuffer => content[held[c]] \in 1 .. MaxMessages
  BY PendingUsed DEF IInv, Filled
<1>2. CASE Exiting(c)
  <2>1. Pending(c) = <<>> BY <1>2 DEF Pending, Exiting
  <2>2. <<>> \in Seq(1 .. MaxMessages) OBVIOUS
  <2> QED BY <1>2, <2>1, <2>2 DEF PendingIs
<1>3. CASE ~Exiting(c) /\ held[c] = NoBuffer
  <2>1. Pending(c) = [i \in 1 .. Len(q) |-> content[q[i]]]
    BY <1>1, <1>3 DEF Pending, Exiting
  <2> HIDE DEF q
  <2>2. Pending(c) \in Seq(1 .. MaxMessages) /\ Len(Pending(c)) = Len(q)
    BY <1>1, <2>1
  <2> QED BY <1>3, <2>1, <2>2 DEF PendingIs, q
<1>4. CASE ~Exiting(c) /\ held[c] # NoBuffer
  <2>1. Pending(c) = [i \in 1 .. Len(q) + 1 |-> content[IF i = 1 THEN held[c] ELSE q[i - 1]]]
    BY <1>1, <1>4 DEF Pending, Exiting
  <2> HIDE DEF q
  <2>2. \A i \in 1 .. Len(q) + 1 : i = 1 \/ i - 1 \in 1 .. Len(q)
    BY <1>1
  <2>3. Pending(c) \in Seq(1 .. MaxMessages) /\ Len(Pending(c)) = Len(q) + 1
    BY <1>1, <1>4, <2>1, <2>2
  <2>4. Pending(c)[1] = content[held[c]]
    BY <1>1, <2>1
  <2>5. \A i \in 1 .. Len(q) : Pending(c)[i + 1] = content[q[i]]
    <3> SUFFICES ASSUME NEW i \in 1 .. Len(q) PROVE Pending(c)[i + 1] = content[q[i]]
      OBVIOUS
    <3>1. i + 1 \in 1 .. Len(q) + 1 /\ i + 1 # 1 /\ (i + 1) - 1 = i BY <1>1
    <3> QED BY <2>1, <3>1
  <2> QED BY <1>4, <2>3, <2>4, <2>5 DEF PendingIs, q
<1> QED BY <1>2, <1>3, <1>4

LEMMA PendingFactsNext == IInv' => \A c \in Conn : PendingIs(c)'
<1>1. IInv' => (\A c \in Conn : PendingIs(c))'
  BY PendingFacts, PTL
<1> QED BY <1>1

\* The content of a buffer in use does not change.
LEMMA ContentKept ==
    ASSUME IInv, [Next]_vars
    PROVE  \A b \in Buffer : refcnt[b] > 0 /\ refcnt'[b] > 0 => content'[b] = content[b]
<1>1. ASSUME NEW s, Decref(s)
      PROVE  \A b \in Buffer : refcnt[b] > 0 /\ refcnt'[b] > 0 => content'[b] = content[b]
  BY <1>1 DEF Decref
<1>2. ASSUME NEW s \in Sender, EncodeOutgoing(s) \/ Goroutine(s)
      PROVE  \A b \in Buffer : refcnt[b] > 0 /\ refcnt'[b] > 0 => content'[b] = content[b]
  <2>1. CASE EncodeOutgoing(s)
    <3>1. refcnt[New] = 0 BY <2>1, FreeIsUnused DEF EncodeOutgoing
    <3> QED BY <2>1, <3>1 DEF EncodeOutgoing, IInv, TypeOK
  <2>2. CASE Sent(s)
    BY <1>1, <2>2 DEF Sent
  <2>3. CASE \E c \in Conn : SendTo(s, c)
    BY <2>3 DEF SendTo
  <2> QED BY <1>2, <2>1, <2>2, <2>3 DEF Goroutine
<1>3. ASSUME NEW c \in Conn,
             \/ WritePump(c) \/ ReadPump(c) \/ PingDue(c) \/ TimerAfterClose(c) \/ ResetTimer(c)
             \/ CloseSocket(c) \/ CleanQueue(c) \/ Replaced(c) \/ Fail(c)
      PROVE  \A b \in Buffer : refcnt[b] > 0 /\ refcnt'[b] > 0 => content'[b] = content[b]
  <2>1. CASE Write(c) \/ WriteError(c) \/ CleanQueue(c)
    BY <1>1, <2>1 DEF Write, WriteError, CleanQueue, DropHeld
  <2>2. CASE Still(c) \/ Flush(c)
    BY <2>2
    DEF Still, Wait, FastExit, Flush, Ping, StopTimer, PumpCloses, PumpEnds, PingDue, TimerAfterClose,
        ResetTimer, ReadPump, ReadError, ReaderCloses, OnDisconnect, CloseSocket, Replaced, Fail
  <2> QED BY <1>3, <2>1, <2>2 DEF WritePump, Still
<1> QED BY <1>2, <1>3 DEF Next, vars

\* Sequences that agree place by place.
LEMMA SameSeq ==
    ASSUME NEW S, NEW s \in Seq(S), NEW t \in Seq(S), Len(s) = Len(t),
           \A i \in 1 .. Len(s) : s[i] = t[i]
    PROVE  s = t
OBVIOUS

\* The first message of some.
LEMMA FirstFacts ==
    ASSUME NEW S, NEW s \in Seq(S), Len(s) >= 1
    PROVE  /\ 1 \in 0 .. Len(s) /\ SubSeq(s, 1, 1) \in Seq(S)
           /\ Len(SubSeq(s, 1, 1)) = 1 /\ SubSeq(s, 1, 1)[1] = s[1]
<1>1. \A i \in 1 .. 1 : s[i] \in S OBVIOUS
<1>2. Len(s) \in Nat OBVIOUS
<1> QED BY <1>1, <1>2, SubSeqProperties

\* A connection that keeps its queue and what its pump holds keeps its messages.
LEMMA PendingStays ==
    ASSUME IInv, IInv', [Next]_vars, NEW c \in Conn,
           queue'[c] = queue[c], held'[c] = held[c], Exiting(c)' <=> Exiting(c)
    PROVE  Pending(c)' = Pending(c)
<1> DEFINE q == queue[c]
<1>1. /\ Len(q) \in Nat
      /\ \A i \in 1 .. Len(q) : content'[q[i]] = content[q[i]]
      /\ held[c] # NoBuffer => content'[held[c]] = content[held[c]]
  <2>1. /\ \A i \in 1 .. Len(queue'[c]) : refcnt'[queue'[c][i]] > 0
        /\ held'[c] # NoBuffer => refcnt'[held'[c]] > 0
    BY UsedNext
  <2> QED BY <2>1, PendingUsed, ContentKept
<1>2. PendingIs(c) /\ PendingIs(c)'
  BY PendingFacts, PendingFactsNext
<1>3. CASE Exiting(c)
  BY <1>2, <1>3 DEF PendingIs
<1>4. CASE ~Exiting(c) /\ held[c] = NoBuffer
  <2>1. /\ Len(Pending(c)') = Len(q) /\ Len(Pending(c)) = Len(q)
        /\ \A i \in 1 .. Len(q) : Pending(c)'[i] = Pending(c)[i]
    BY <1>1, <1>2, <1>4 DEF PendingIs
  <2> QED BY <1>2, <2>1, SameSeq DEF PendingIs
<1>5. CASE ~Exiting(c) /\ held[c] # NoBuffer
  <2>1. /\ Len(Pending(c)') = Len(q) + 1 /\ Len(Pending(c)) = Len(q) + 1
        /\ Pending(c)'[1] = Pending(c)[1]
        /\ \A i \in 1 .. Len(q) : Pending(c)'[i + 1] = Pending(c)[i + 1]
    BY <1>1, <1>2, <1>5 DEF PendingIs
  <2>2. \A i \in 1 .. Len(q) + 1 : i = 1 \/ (i - 1 \in 1 .. Len(q) /\ i = (i - 1) + 1)
    BY <1>1
  <2>3. \A i \in 1 .. Len(q) + 1 : Pending(c)'[i] = Pending(c)[i]
    BY <2>1, <2>2
  <2> QED BY <1>2, <2>1, <2>3, SameSeq DEF PendingIs
<1> QED BY <1>3, <1>4, <1>5

\* The steps of Outbox, in terms of a step's effect on one connection.
LEMMA Stutters ==
    ASSUME Open' = Open, Waiting' = Waiting
    PROVE  UNCHANGED OutboxOfConn!vars
BY DEF Open, Waiting, OutboxOfConn!vars

LEMMA Closes ==
    ASSUME NEW c \in Conn, NEW n \in 0 .. Len(Waiting[c]),
           Open' = [Open EXCEPT ![c] = FALSE],
           Waiting' = [Waiting EXCEPT ![c] = SubSeq(@, 1, n)]
    PROVE  OutboxOfConn!Next
BY DEF Open, Waiting, OutboxOfConn!Next, OutboxOfConn!Close

LEMMA Writes ==
    ASSUME NEW c \in Conn, Waiting[c] # <<>>, Open' = Open,
           Waiting' = [Waiting EXCEPT ![c] = Tail(@)]
    PROVE  OutboxOfConn!Next
BY DEF Open, Waiting, OutboxOfConn!Next, OutboxOfConn!Write

LEMMA Accepts ==
    ASSUME NEW c \in Conn, NEW m \in 1 .. MaxMessages,
           Open[c], Len(Waiting[c]) < maxQueueSize + 1, Open' = Open,
           Waiting' = [Waiting EXCEPT ![c] = Append(@, m)]
    PROVE  OutboxOfConn!Next
BY DEF Open, Waiting, OutboxOfConn!Next, OutboxOfConn!Accept

\* A step of one connection leaves the others as they are.
Others(c) ==
    \A d \in Conn \ {c} :
       queue'[d] = queue[d] /\ held'[d] = held[d] /\ pump'[d] = pump[d] /\ isClosed'[d] = isClosed[d]

LEMMA OnlyOne ==
    ASSUME IInv, IInv', [Next]_vars, NEW c \in Conn, Others(c)
    PROVE  /\ Open' = [Open EXCEPT ![c] = ~Closed(c)' /\ ~Exiting(c)']
           /\ Waiting' = [Waiting EXCEPT ![c] = Pending(c)']
           /\ Open[c] = (~Closed(c) /\ ~Exiting(c)) /\ Waiting[c] = Pending(c)
<1>1. \A d \in Conn \ {c} : Pending(d)' = Pending(d)
  BY PendingStays DEF Others, Exiting
<1>2. \A d \in Conn \ {c} : (Closed(d)' <=> Closed(d)) /\ (Exiting(d)' <=> Exiting(d))
  BY DEF Others, Closed, Exiting
<1>3. Open' = [d \in Conn |-> ~Closed(d)' /\ ~Exiting(d)'] /\ Open = [d \in Conn |-> ~Closed(d) /\ ~Exiting(d)]
  BY DEF Open, Exiting, Closed
<1>4. Waiting' = [d \in Conn |-> Pending(d)'] /\ Waiting = [d \in Conn |-> Pending(d)]
  BY DEF Waiting
<1>5. Waiting' = [Waiting EXCEPT ![c] = Pending(c)'] /\ Waiting[c] = Pending(c)
  BY <1>1, <1>4
<1>6. Open' = [Open EXCEPT ![c] = ~Closed(c)' /\ ~Exiting(c)'] /\ Open[c] = (~Closed(c) /\ ~Exiting(c))
  BY <1>2, <1>3
<1> QED BY <1>5, <1>6

\* Nothing changes for a connection that stays open, or closed, with its messages.
LEMMA StaysSame ==
    ASSUME IInv, IInv', [Next]_vars, NEW c \in Conn, Others(c),
           Closed(c)' <=> Closed(c), Exiting(c)' <=> Exiting(c), Pending(c)' = Pending(c)
    PROVE  UNCHANGED OutboxOfConn!vars
<1>1. Waiting' = Waiting
  BY OnlyOne DEF Waiting
<1>2. Open' = [Open EXCEPT ![c] = ~Closed(c)' /\ ~Exiting(c)'] /\ Open[c] = (~Closed(c) /\ ~Exiting(c))
  BY OnlyOne
<1>3. (~Closed(c)' /\ ~Exiting(c)') = (~Closed(c) /\ ~Exiting(c))
  OBVIOUS
<1>4. Open' = Open
  BY <1>2, <1>3 DEF Open
<1> QED BY <1>1, <1>4, Stutters

\* A step that closes, or goes on closing, and keeps a first part of the messages.
LEMMA ClosesAt ==
    ASSUME IInv, IInv', [Next]_vars, NEW c \in Conn, Others(c),
           Closed(c)' \/ Exiting(c)', NEW n \in 0 .. Len(Pending(c)),
           Pending(c)' = SubSeq(Pending(c), 1, n)
    PROVE  OutboxOfConn!Next
<1>1. (~Closed(c)' /\ ~Exiting(c)') = FALSE
  OBVIOUS
<1>2. Open' = [Open EXCEPT ![c] = FALSE]
  BY <1>1, OnlyOne
<1>3. Waiting' = [Waiting EXCEPT ![c] = SubSeq(@, 1, n)] /\ n \in 0 .. Len(Waiting[c])
  BY OnlyOne
<1> QED BY <1>2, <1>3, Closes

\* Looking, waiting, pinging and stopping do not show; a pump that gives up
\* drops what waits; who closes first stops the connection from accepting.
LEMMA StillSimulates ==
    ASSUME IInv, IInv', [Next]_vars, NEW c \in Conn, Still(c)
    PROVE  [OutboxOfConn!Next]_OutboxOfConn!vars
<1>1. Others(c)
  BY DEF Others, IInv, TypeOK, Still, Wait, FastExit, Ping, StopTimer, PumpCloses, PumpEnds, PingDue,
         TimerAfterClose, ResetTimer, ReadPump, ReadError, ReaderCloses, OnDisconnect, CloseSocket,
         Replaced, Fail, Claim, Signal
<1>2. queue'[c] = queue[c] /\ held'[c] = held[c]
  BY DEF Still, Wait, FastExit, Ping, StopTimer, PumpCloses, PumpEnds, PingDue, TimerAfterClose,
         ResetTimer, ReadPump, ReadError, ReaderCloses, OnDisconnect, CloseSocket, Replaced, Fail
<1>3. PendingIs(c) /\ PendingIs(c)'
  BY PendingFacts, PendingFactsNext
<1>4. CASE FastExit(c)
  <2>1. Closed(c)' /\ Exiting(c)'
    BY <1>4 DEF IInv, TypeOK, FastExit, Closed, Exiting
  <2>2. Pending(c)' = <<>> /\ SubSeq(Pending(c), 1, 0) = <<>> /\ 0 \in 0 .. Len(Pending(c))
    BY <1>3, <2>1 DEF PendingIs
  <2> QED BY <1>1, <2>1, <2>2, ClosesAt
<1>5. CASE PumpCloses(c) \/ ReaderCloses(c) \/ Replaced(c)
  <2>1. Closed(c)' /\ (Exiting(c)' <=> Exiting(c))
    BY <1>5 DEF IInv, TypeOK, PumpCloses, ReaderCloses, Replaced, Claim, Closed, Exiting
  <2>2. Pending(c)' = Pending(c)
    BY <1>2, <2>1, PendingStays
  <2>3. SubSeq(Pending(c), 1, Len(Pending(c))) = Pending(c) /\ Len(Pending(c)) \in 0 .. Len(Pending(c))
    BY <1>3 DEF PendingIs
  <2> QED BY <1>1, <2>1, <2>2, <2>3, ClosesAt
<1>6. CASE \/ Wait(c) \/ Ping(c) \/ StopTimer(c) \/ PumpEnds(c) \/ PingDue(c) \/ TimerAfterClose(c)
           \/ ResetTimer(c) \/ ReadError(c) \/ OnDisconnect(c) \/ CloseSocket(c) \/ Fail(c)
  <2>1. (Closed(c)' <=> Closed(c)) /\ (Exiting(c)' <=> Exiting(c))
    BY <1>6 DEF IInv, TypeOK, Closed, Exiting, Wait, Ping, StopTimer, PumpEnds, PingDue, TimerAfterClose,
                ResetTimer, ReadError, OnDisconnect, CloseSocket, Fail, Signal
  <2>2. Pending(c)' = Pending(c)
    BY <1>2, <2>1, PendingStays
  <2> QED BY <1>1, <2>1, <2>2, StaysSame
<1> QED BY <1>4, <1>5, <1>6 DEF Still, ReadPump

\* Taking a message off the queue does not show: the pump has it now.
LEMMA FlushSimulates ==
    ASSUME IInv, IInv', [Next]_vars, NEW c \in Conn, Flush(c)
    PROVE  UNCHANGED OutboxOfConn!vars
<1> DEFINE q == queue[c]
<1>1. Others(c)
  BY DEF Others, IInv, TypeOK, Flush
<1>2. ~Exiting(c) /\ ~Exiting(c)' /\ (Closed(c)' <=> Closed(c))
  BY DEF IInv, TypeOK, Flush, Exiting, Closed
<1>3. held[c] = NoBuffer
  BY DEF IInv, HeldByPump, Flush
<1>4. CASE q = <<>>
  <2>1. queue'[c] = q /\ held'[c] = held[c]
    BY <1>3, <1>4 DEF Flush, IInv, TypeOK
  <2> QED BY <1>1, <1>2, <2>1, PendingStays, StaysSame
<1>5. CASE q # <<>>
  <2>1. /\ queue'[c] = Tail(q) /\ held'[c] = q[1]
        /\ Len(Tail(q)) = Len(q) - 1 /\ Len(q) \in Nat
        /\ \A i \in 1 .. Len(q) - 1 : Tail(q)[i] = q[i + 1]
        /\ 1 \in 1 .. Len(q) /\ q[1] # NoBuffer
    BY <1>5, PendingUsed, BufferAssumption DEF Flush, IInv, TypeOK
  <2>2. \A i \in 1 .. Len(q) : content'[q[i]] = content[q[i]]
    BY DEF Flush
  <2>3. PendingIs(c) /\ PendingIs(c)'
    BY PendingFacts, PendingFactsNext
  <2> HIDE DEF q
  <2>4. /\ Len(Pending(c)) = Len(q) /\ \A i \in 1 .. Len(q) : Pending(c)[i] = content[q[i]]
    BY <1>2, <1>3, <2>3 DEF PendingIs, q
  <2>5. /\ Len(Pending(c)') = Len(q)
        /\ Pending(c)'[1] = content'[q[1]]
        /\ \A i \in 1 .. Len(q) - 1 : Pending(c)'[i + 1] = content'[q[i + 1]]
    BY <1>2, <2>1, <2>3 DEF PendingIs
  <2>6. \A i \in 1 .. Len(q) : i = 1 \/ (i - 1 \in 1 .. Len(q) - 1 /\ i = (i - 1) + 1)
    BY <2>1
  <2>7. \A i \in 1 .. Len(q) : Pending(c)'[i] = Pending(c)[i]
    BY <2>2, <2>4, <2>5, <2>6
  <2>8. Pending(c)' = Pending(c)
    BY <2>3, <2>4, <2>5, <2>7, SameSeq DEF PendingIs
  <2> QED BY <1>1, <1>2, <2>8, StaysSame
<1> QED BY <1>4, <1>5

\* A message that was written was the first; one that failed ends the connection.
LEMMA WriteSimulates ==
    ASSUME IInv, IInv', [Next]_vars, NEW c \in Conn, Write(c) \/ WriteError(c)
    PROVE  OutboxOfConn!Next
<1> DEFINE q == queue[c]
<1>1. Others(c)
  BY DEF Others, IInv, TypeOK, Write, WriteError, DropHeld
<1>2. PendingIs(c) /\ PendingIs(c)'
  BY PendingFacts, PendingFactsNext
<1>3. CASE Write(c)
  <2>1. ~Exiting(c) /\ ~Exiting(c)' /\ (Closed(c)' <=> Closed(c))
    BY <1>3 DEF IInv, TypeOK, Write, Exiting, Closed
  <2>2. held[c] # NoBuffer /\ held'[c] = NoBuffer /\ queue'[c] = q
    BY <1>3, BufferAssumption DEF IInv, TypeOK, HeldByPump, Write, DropHeld
  <2>3. Len(q) \in Nat /\ \A i \in 1 .. Len(q) : content'[q[i]] = content[q[i]]
    BY <2>2, PendingUsed, UsedNext, ContentKept
  <2> HIDE DEF q
  <2>4. /\ Len(Pending(c)) = Len(q) + 1
        /\ \A i \in 1 .. Len(q) : Pending(c)[i + 1] = content[q[i]]
    BY <1>2, <2>1, <2>2 DEF PendingIs, q
  <2>5. /\ Len(Pending(c)') = Len(q)
        /\ \A i \in 1 .. Len(q) : Pending(c)'[i] = content'[q[i]]
    BY <1>2, <2>1, <2>2 DEF PendingIs
  <2>6. Pending(c) # <<>> /\ Pending(c) \in Seq(1 .. MaxMessages)
    BY <1>2, <2>3, <2>4 DEF PendingIs
  <2>7. /\ Tail(Pending(c)) \in Seq(1 .. MaxMessages)
        /\ Len(Tail(Pending(c))) = Len(q)
        /\ \A i \in 1 .. Len(q) : Tail(Pending(c))[i] = Pending(c)[i + 1]
    BY <2>3, <2>4, <2>6
  <2>8. Pending(c)' = Tail(Pending(c))
    BY <1>2, <2>3, <2>4, <2>5, <2>7, SameSeq DEF PendingIs
  <2>9. Open' = Open
    <3>1. Open' = [Open EXCEPT ![c] = ~Closed(c)' /\ ~Exiting(c)'] /\ Open[c] = (~Closed(c) /\ ~Exiting(c))
      BY <1>1, OnlyOne
    <3>2. (~Closed(c)' /\ ~Exiting(c)') = (~Closed(c) /\ ~Exiting(c))
      BY <2>1
    <3> QED BY <3>1, <3>2 DEF Open
  <2>10. Waiting' = [Waiting EXCEPT ![c] = Tail(@)] /\ Waiting[c] # <<>>
    BY <1>1, <2>6, <2>8, OnlyOne
  <2> QED BY <2>9, <2>10, Writes
<1>4. CASE WriteError(c)
  <2>1. Exiting(c)'
    BY <1>4 DEF IInv, TypeOK, WriteError, Exiting
  <2>2. Pending(c)' = <<>> /\ SubSeq(Pending(c), 1, 0) = <<>> /\ 0 \in 0 .. Len(Pending(c))
    BY <1>2, <2>1 DEF PendingIs
  <2> QED BY <1>1, <2>1, <2>2, ClosesAt
<1> QED BY <1>3, <1>4

\* Close keeps the message being written and drops those behind it.
LEMMA CleanQueueSimulates ==
    ASSUME IInv, IInv', [Next]_vars, NEW c \in Conn, CleanQueue(c)
    PROVE  OutboxOfConn!Next
<1>1. Others(c)
  BY DEF Others, IInv, TypeOK, CleanQueue, Signal
<1>2. PendingIs(c) /\ PendingIs(c)'
  BY PendingFacts, PendingFactsNext
<1>3. Closed(c)' /\ (Exiting(c)' <=> Exiting(c)) /\ held'[c] = held[c] /\ queue'[c] = <<>>
  BY DEF IInv, TypeOK, CleanQueue, Signal, Closed, Exiting
<1>4. CASE Exiting(c) \/ held[c] = NoBuffer
  <2>1. Pending(c)' = <<>>
    BY <1>2, <1>3, <1>4 DEF PendingIs
  <2>2. SubSeq(Pending(c), 1, 0) = <<>> /\ 0 \in 0 .. Len(Pending(c))
    BY <1>2 DEF PendingIs
  <2> QED BY <1>1, <1>3, <2>1, <2>2, ClosesAt
<1>5. CASE ~Exiting(c) /\ held[c] # NoBuffer
  <2>1. content'[held[c]] = content[held[c]]
    BY <1>3, <1>5, PendingUsed, UsedNext, ContentKept
  <2>2. Len(Pending(c)') = 1 /\ Pending(c)'[1] = content[held[c]]
    BY <1>2, <1>3, <1>5, <2>1 DEF PendingIs
  <2>3. Len(Pending(c)) = Len(queue[c]) + 1 /\ Pending(c)[1] = content[held[c]] /\ Len(queue[c]) \in Nat
    BY <1>2, <1>5, PendingUsed DEF PendingIs
  <2>4. /\ 1 \in 0 .. Len(Pending(c)) /\ SubSeq(Pending(c), 1, 1) \in Seq(1 .. MaxMessages)
        /\ Len(SubSeq(Pending(c), 1, 1)) = 1 /\ SubSeq(Pending(c), 1, 1)[1] = Pending(c)[1]
    <3>1. Pending(c) \in Seq(1 .. MaxMessages) BY <1>2 DEF PendingIs
    <3>2. Len(Pending(c)) >= 1 BY <2>3
    <3> QED BY <3>1, <3>2, FirstFacts
  <2>5. Pending(c)' = SubSeq(Pending(c), 1, 1)
    BY <1>2, <2>2, <2>3, <2>4, SameSeq DEF PendingIs
  <2> QED BY <1>1, <1>3, <2>4, <2>5, ClosesAt
<1> QED BY <1>4, <1>5

\* Send accepts a message, or drops it; what it accepts once the pump has given
\* up will never be pending.
LEMMA SendToSimulates ==
    ASSUME IInv, IInv', [Next]_vars, NEW s \in Sender, NEW c \in Conn, SendTo(s, c)
    PROVE  [OutboxOfConn!Next]_OutboxOfConn!vars
<1> DEFINE x == sender[s].buf
           q == queue[c]
           m == content[x]
<1>1. Others(c)
  BY DEF Others, IInv, TypeOK, SendTo, Send, Signal
<1>2. PendingIs(c) /\ PendingIs(c)'
  BY PendingFacts, PendingFactsNext
<1>3. (Closed(c)' <=> Closed(c)) /\ (Exiting(c)' <=> Exiting(c)) /\ held'[c] = held[c]
  BY DEF IInv, TypeOK, SendTo, Send, Signal, Closed, Exiting
<1>4. CASE queue'[c] = queue[c]
  <2>1. Pending(c)' = Pending(c)
    BY <1>3, <1>4, PendingStays
  <2> QED BY <1>1, <1>3, <2>1, StaysSame
<1>5. CASE Exiting(c)
  <2>1. Pending(c)' = Pending(c)
    BY <1>2, <1>3, <1>5 DEF PendingIs
  <2> QED BY <1>1, <1>3, <2>1, StaysSame
<1>6. CASE ~Exiting(c) /\ queue'[c] # queue[c]
  <2>1. ~Closed(c) /\ Len(q) < maxQueueSize /\ queue'[c] = Append(q, x) /\ content' = content
    <3>1. ~(Closed(c) \/ Len(q) >= maxQueueSize)
      BY <1>6 DEF SendTo, Send
    <3>2. Len(q) < maxQueueSize BY <3>1, PendingUsed, LimitAssumption
    <3> QED BY <3>1, <3>2 DEF SendTo, Send, IInv, TypeOK
  <2>2. x \in Buffer
    BY DEF IInv, SenderHolds, SendTo
  <2>3. m \in 1 .. MaxMessages
    <3>1. <<"sender", s>> \in Holders(x) BY HolderFacts
    <3>2. refcnt[x] > 0 BY <2>2, <3>1, FS_EmptySet DEF IInv, Counted, TypeOK
    <3> QED BY <2>2, <3>2 DEF IInv, Filled
  <2>4. /\ q \in Seq(Buffer) /\ Len(q) \in Nat
        /\ Len(Append(q, x)) = Len(q) + 1 /\ Append(q, x)[Len(q) + 1] = x
        /\ \A i \in 1 .. Len(q) : Append(q, x)[i] = q[i]
    BY <2>2, PendingUsed
  <2> DEFINE k == Len(Pending(c))
  <2> HIDE DEF x, q
  <2>5. /\ k \in Nat /\ k <= Len(q) + 1 /\ Len(Pending(c)') = k + 1
        /\ Pending(c)'[k + 1] = m
        /\ \A i \in 1 .. k : Pending(c)'[i] = Pending(c)[i]
    <3>1. /\ Len(queue'[c]) = Len(q) + 1 /\ queue'[c][Len(q) + 1] = x
          /\ \A i \in 1 .. Len(q) : queue'[c][i] = q[i] /\ i \in 1 .. Len(q) + 1
          /\ Len(q) + 1 \in 1 .. Len(q) + 1
      BY <2>1, <2>4
    <3>2. CASE held[c] = NoBuffer
      <4>1. k = Len(q) /\ \A i \in 1 .. Len(q) : Pending(c)[i] = content[q[i]]
        BY <1>2, <1>6, <3>2 DEF PendingIs, q
      <4>2. /\ Len(Pending(c)') = Len(q) + 1
            /\ \A i \in 1 .. Len(q) + 1 : Pending(c)'[i] = content'[queue'[c][i]]
        BY <1>2, <1>3, <1>6, <3>1, <3>2 DEF PendingIs
      <4> QED BY <2>1, <2>4, <3>1, <4>1, <4>2
    <3>3. CASE held[c] # NoBuffer
      <4>1. /\ k = Len(q) + 1 /\ Pending(c)[1] = content[held[c]]
            /\ \A i \in 1 .. Len(q) : Pending(c)[i + 1] = content[q[i]]
        BY <1>2, <1>6, <3>3 DEF PendingIs, q
      <4>2. /\ Len(Pending(c)') = Len(q) + 2 /\ Pending(c)'[1] = content'[held[c]]
            /\ \A i \in 1 .. Len(q) + 1 : Pending(c)'[i + 1] = content'[queue'[c][i]]
        BY <1>2, <1>3, <1>6, <2>4, <3>1, <3>3 DEF PendingIs
      <4>3. \A i \in 1 .. k : i = 1 \/ (i - 1 \in 1 .. Len(q) /\ i = (i - 1) + 1)
        BY <2>4, <4>1
      <4>4. ASSUME NEW i \in 1 .. k PROVE Pending(c)'[i] = Pending(c)[i]
        <5>1. CASE i = 1
          BY <1>3, <2>1, <4>1, <4>2, <5>1
        <5>2. CASE i - 1 \in 1 .. Len(q) /\ i = (i - 1) + 1
          <6>1. Pending(c)'[(i - 1) + 1] = content'[queue'[c][i - 1]] BY <3>1, <4>2, <5>2
          <6>2. Pending(c)[(i - 1) + 1] = content[q[i - 1]] BY <4>1, <5>2
          <6> QED BY <2>1, <3>1, <5>2, <6>1, <6>2
        <5> QED BY <4>3, <5>1, <5>2
      <4>5. Pending(c)'[k + 1] = m
        BY <2>1, <3>1, <4>1, <4>2
      <4> QED BY <2>4, <4>1, <4>2, <4>4, <4>5
    <3> QED BY <3>2, <3>3
  <2> HIDE DEF m
  <2>6. Pending(c)' = Append(Pending(c), m)
    <3>1. /\ Append(Pending(c), m) \in Seq(1 .. MaxMessages) /\ Len(Append(Pending(c), m)) = k + 1
          /\ Append(Pending(c), m)[k + 1] = m
          /\ \A i \in 1 .. k : Append(Pending(c), m)[i] = Pending(c)[i]
      BY <1>2, <2>3 DEF PendingIs
    <3>2. \A i \in 1 .. k + 1 : i \in 1 .. k \/ i = k + 1 BY <2>5
    <3>3. \A i \in 1 .. k + 1 : Pending(c)'[i] = Append(Pending(c), m)[i] BY <2>5, <3>1, <3>2
    <3> QED BY <1>2, <2>5, <3>1, <3>3, SameSeq DEF PendingIs
  <2>7. Open[c] /\ Open' = Open
    <3>1. Open' = [Open EXCEPT ![c] = ~Closed(c)' /\ ~Exiting(c)'] /\ Open[c] = (~Closed(c) /\ ~Exiting(c))
      BY <1>1, OnlyOne
    <3>2. (~Closed(c)' /\ ~Exiting(c)') = (~Closed(c) /\ ~Exiting(c))
      BY <1>3
    <3> QED BY <1>6, <2>1, <3>1, <3>2 DEF Open
  <2>8. Waiting' = [Waiting EXCEPT ![c] = Append(@, m)] /\ Waiting[c] = Pending(c)
    BY <1>1, <2>6, OnlyOne
  <2>9. Len(Waiting[c]) < maxQueueSize + 1
    BY <2>1, <2>4, <2>5, <2>8, <1>2, <1>6, LimitAssumption DEF PendingIs, q
  <2> QED BY <2>3, <2>7, <2>8, <2>9, Accepts
<1> QED BY <1>4, <1>5, <1>6

\* What a sender does with a buffer of its own does not show.
LEMMA SenderSimulates ==
    ASSUME IInv, IInv', [Next]_vars, UNCHANGED connVars
    PROVE  UNCHANGED OutboxOfConn!vars
<1>1. \A c \in Conn : Pending(c)' = Pending(c)
  BY PendingStays DEF connVars, Exiting
<1>2. Waiting' = Waiting
  BY <1>1 DEF Waiting
<1>3. Open' = Open
  BY DEF Open, Closed, connVars
<1> QED BY <1>2, <1>3, Stutters

\* Connections that share buffers, with their pumps, pings and locks, do what
\* Outbox promises: messages come out in the order they were accepted, once and
\* unchanged, and only closing loses any, the last ones.
THEOREM Refinement == Spec => ImplementsOutbox
<1>1. Init => OutboxOfConn!Init
  <2> SUFFICES ASSUME Init PROVE OutboxOfConn!Init
    OBVIOUS
  <2>1. \A c \in Conn : Pending(c) = <<>>
    <3> SUFFICES ASSUME NEW c \in Conn PROVE Pending(c) = <<>>
      OBVIOUS
    <3>1. PendingIs(c) BY InitInv, PendingFacts
    <3>2. Len(Pending(c)) = 0
      BY <3>1 DEF Init, PendingIs, Exiting
    <3> QED BY <3>1, <3>2 DEF PendingIs
  <2> QED BY <2>1 DEF Init, OutboxOfConn!Init, Closed
<1>2. IInv /\ IInv' /\ [Next]_vars => [OutboxOfConn!Next]_OutboxOfConn!vars
  <2> SUFFICES ASSUME IInv, IInv', [Next]_vars PROVE [OutboxOfConn!Next]_OutboxOfConn!vars
    OBVIOUS
  <2>1. ASSUME NEW s \in Sender, EncodeOutgoing(s) \/ Goroutine(s)
        PROVE  [OutboxOfConn!Next]_OutboxOfConn!vars
    <3>1. CASE EncodeOutgoing(s) \/ Sent(s)
      BY <3>1, SenderSimulates DEF EncodeOutgoing, Sent
    <3> QED BY <2>1, <3>1, SendToSimulates DEF Goroutine
  <2>2. ASSUME NEW c \in Conn,
               \/ WritePump(c) \/ ReadPump(c) \/ PingDue(c) \/ TimerAfterClose(c) \/ ResetTimer(c)
               \/ CloseSocket(c) \/ CleanQueue(c) \/ Replaced(c) \/ Fail(c)
        PROVE  [OutboxOfConn!Next]_OutboxOfConn!vars
    BY <2>2, StillSimulates, FlushSimulates, WriteSimulates, CleanQueueSimulates DEF WritePump, Still
  <2>3. CASE UNCHANGED vars
    BY <2>3, SenderSimulates DEF vars, connVars
  <2> QED BY <2>1, <2>2, <2>3 DEF Next
<1> QED BY <1>1, <1>2, Invariance, PTL DEF Spec, ImplementsOutbox, OutboxOfConn!Spec

=============================================================================
