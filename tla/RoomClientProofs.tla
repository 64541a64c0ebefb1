--------------------------- MODULE RoomClientProofs ---------------------------
(***************************************************************************)
(* What holds of the client and its rooms for any rooms and PINs, however  *)
(* often it navigates, the network fails and others change the rooms.      *)
(***************************************************************************)
EXTENDS RoomClient, TLAPS

-----------------------------------------------------------------------------
(* The invariant. *)

AppDoc  == [type : {"App"}, n : Nat]
UpDoc   == [type : {"Hello"}, room : Room, pin : PIN \cup {NoPIN}] \cup AppDoc \cup {Alive}
DownDoc == {Self, Alive} \cup [type : {"Welcome", "Room"}, room : Room] \cup [type : {"Error"}, code : Codes]
Task    == {Join} \cup [do : {"clear", "go"}, room : Room]

\* A Hello with a PIN that was typed for its room, when t are the PINs typed.
Presents(t) == {m \in UpDoc : m.type = "Hello" /\ m.pin # NoPIN => m.pin \in t[m.room]}

Docs ==
    /\ up \in Seq(Presents(typed)) /\ down \in Seq(DownDoc)
    /\ queue \in Seq(AppDoc) /\ tasks \in Seq(Task)
    /\ chats \in Nat /\ typed \in [Room -> SUBSET PIN]
    /\ late \in BOOLEAN /\ silent \in BOOLEAN

\* The cache keeps the PINs typed for each room.
Cached == \A r \in Room : pinCache[r] # NoPIN => pinCache[r] \in typed[r]

\* Without an open socket the server has the client in no room, and the client
\* shows none, or was not told.
Link ==
    /\ conn = "connecting" => member = NoRoom /\ ~dead
    /\ conn \in {"none", "connecting"} => current = NoRoom \/ silent
    /\ ~everConnected => current = NoRoom /\ conn \in {"none", "connecting"}

IsAnswer(m) == m.type \in {"Welcome", "Error"}
Tells(m)    == IF m.type = "Welcome" THEN m.room ELSE NoRoom

\* The last answer on its way tells the room the server has the client in.
LastTells ==
    \E i \in 1..Len(down) : /\ IsAnswer(down[i]) /\ Tells(down[i]) = member
                            /\ \A j \in 1..Len(down) : j > i => ~IsAnswer(down[j])

\* When no answer is on its way, the client shows that room.
ShowsIt ==
    /\ \A i \in 1..Len(down) : ~IsAnswer(down[i])
    /\ current = member \/ late \/ silent

Agree == conn = "open" /\ ~dead => LastTells \/ ShowsIt

IInv == TypeOK /\ Docs /\ Cached /\ Link /\ Agree

-----------------------------------------------------------------------------
(* Sequences and documents. *)

LEMMA HeadTail ==
    ASSUME NEW S, NEW q \in Seq(S), q # <<>>
    PROVE  /\ Head(q) \in S /\ Tail(q) \in Seq(S) /\ Len(q) \in Nat /\ Len(q) > 0
           /\ Len(Tail(q)) = Len(q) - 1 /\ Head(q) = q[1]
           /\ \A i \in 1..Len(Tail(q)) : Tail(q)[i] = q[i + 1]
OBVIOUS

LEMMA AppendFacts ==
    ASSUME NEW S, NEW q \in Seq(S), NEW m \in S
    PROVE  /\ Append(q, m) \in Seq(S) /\ Len(q) \in Nat /\ Len(Append(q, m)) = Len(q) + 1
           /\ Append(q, m)[Len(q) + 1] = m
           /\ \A i \in 1..Len(q) : Append(q, m)[i] = q[i]
OBVIOUS

LEMMA SeqOfMore ==
    ASSUME NEW S, NEW T, S \subseteq T, NEW q \in Seq(S)
    PROVE  q \in Seq(T)
OBVIOUS

\* An application document and an Alive have no PIN.
LEMMA NoPINToTell ==
    ASSUME NEW t
    PROVE  AppDoc \subseteq Presents(t) /\ Alive \in Presents(t)
BY DEF AppDoc, Presents, UpDoc, Alive

\* joinRequestedRoom sends a Hello with the PIN the cache has for the room.
LEMMA JoinFacts ==
    ASSUME IInv, NEW cur, NEW pins \in [Room -> PIN \cup {NoPIN}], NEW ts \in Seq(Task),
           \A r \in Room : pins[r] # NoPIN => pins[r] \in typed[r],
           JoinRequestedRoom(cur, pins, ts)
    PROVE  /\ up' \in Seq(Presents(typed)) /\ tasks' \in Seq(Task)
           /\ helloed' \in Room \cup {NoRoom} /\ refused' \in {"no", "disabled", "account", "swallowed"}
<1> DEFINE m == Hello(requested, pins[requested])
<1>1. requested \in Room /\ up \in Seq(Presents(typed))
      /\ helloed \in Room \cup {NoRoom} /\ refused \in {"no", "disabled", "account", "swallowed"}
  BY DEF IInv, TypeOK, Docs
<1>2. m \in Presents(typed)
  BY <1>1 DEF Hello, Presents, UpDoc
<1>3. Clear(requested) \in Task
  BY <1>1 DEF Clear, Task
<1> HIDE DEF m
<1>4. CASE Joins(cur)
  <2>1. /\ helloed' = requested /\ tasks' = Append(ts, Clear(requested)) /\ Send(m) /\ refused' = "no"
    BY <1>4 DEF JoinRequestedRoom, m
  <2>2. up' = Append(up, m) \/ up' = up
    BY <2>1 DEF Send
  <2>3. up' \in Seq(Presents(typed))
    BY <1>1, <1>2, <2>2, AppendFacts
  <2>4. tasks' \in Seq(Task)
    BY <1>3, <2>1, AppendFacts
  <2> QED BY <1>1, <2>1, <2>3, <2>4
<1>5. CASE ~Joins(cur)
  BY <1>1, <1>5 DEF JoinRequestedRoom
<1> QED BY <1>4, <1>5

\* The location changes to a room, deferred or at once.
LEMMA GoFacts ==
    ASSUME TypeOK, RoomClientAssumption, NEW ts \in Seq(Task), NEW p \in Room \cup {NoRoom}
    PROVE  ThenGo(ts, PriorOrDefault(p)) \in Seq(Task)
<1>1. PriorOrDefault(p) \in Room
  BY DEF RoomClientAssumption, PriorOrDefault
<1>2. Go(PriorOrDefault(p)) \in Task
  BY <1>1 DEF Go, Task
<1> QED BY <1>2, AppendFacts DEF ThenGo

-----------------------------------------------------------------------------
(* What a step leaves alone. *)

LEMMA CachedSame ==
    ASSUME IInv, UNCHANGED pinVars
    PROVE  Cached'
BY DEF IInv, Cached, pinVars

\* What the server has told, and what is shown, stay.
LEMMA ToldSame ==
    ASSUME IInv, UNCHANGED <<conn, dead, down, member, everConnected>>, UNCHANGED showVars
    PROVE  Link' /\ Agree'
<1>1. Link' BY DEF IInv, Link, showVars
<1>2. Agree' BY DEF IInv, Agree, LastTells, ShowsIt, showVars
<1> QED BY <1>1, <1>2

\* The socket is closed, and the room left or nobody told of it.
LEMMA ClosedSocket ==
    ASSUME IInv, CloseSocket, UNCHANGED everConnected,
           current' = NoRoom \/ silent', ~everConnected => current' = NoRoom
    PROVE  Link' /\ Agree'
<1>1. conn' = "none" /\ member' = NoRoom
  BY DEF CloseSocket
<1>2. Link' BY <1>1 DEF Link
<1>3. Agree' BY <1>1 DEF Agree
<1> QED BY <1>2, <1>3

\* The shape of the connector after that.
LEMMA ClosedTypes ==
    ASSUME IInv, CloseSocket
    PROVE  /\ conn' = "none" /\ connected' = FALSE /\ connecting' = FALSE
           /\ up' \in Seq(Presents(typed)) /\ down' \in Seq(DownDoc)
           /\ member' = NoRoom /\ left' = {}
BY DEF CloseSocket

-----------------------------------------------------------------------------
(* The connector. *)

\* The socket fails or closes, or the client gives it up.
LEMMA LostInv ==
    ASSUME IInv, OnError \/ OnClose \/ GiveUp
    PROVE  IInv'
<1>1. /\ CloseSocket /\ Lost /\ last_receive' \in {last_receive, "null"}
      /\ UNCHANGED <<url, retries, queue, waiting, marked, everConnected, requested, helloed,
                     refused, tasks, exists, lock, pinVars, chats>>
  BY DEF OnError, OnClose, GiveUp
<1>2. current' = NoRoom /\ prior' \in {prior, current} /\ late' = FALSE /\ silent' = FALSE
  BY <1>1 DEF Lost, SetCurrentRoom
<1>3. Link' /\ Agree' BY <1>1, <1>2, ClosedSocket
<1>4. Cached' BY <1>1, CachedSame
<1>5. TypeOK' BY <1>1, <1>2, ClosedTypes DEF IInv, TypeOK, pinVars
<1>6. Docs' BY <1>1, <1>2, ClosedTypes DEF IInv, Docs, pinVars
<1> QED BY <1>3, <1>4, <1>5, <1>6 DEF IInv

LEMMA OnOpenInv ==
    ASSUME IInv, OnOpen
    PROVE  IInv'
<1>1. /\ conn = "connecting" /\ conn' = "open" /\ connected' = TRUE /\ connecting' = FALSE
      /\ everConnected' = TRUE /\ up' = queue /\ queue' = <<>> /\ down' = <<Self>>
      /\ UNCHANGED <<url, retries, last_receive, waiting, marked, reconnecting, requested,
                     helloed, refused, tasks, dead, roomVars, pinVars, showVars, bounds, got>>
  BY DEF OnOpen, Flush
<1>2. Link' BY <1>1 DEF Link
<1>3. Agree'
  <2>1. member' = NoRoom /\ (current' = NoRoom \/ silent')
    BY <1>1 DEF IInv, Link, roomVars, showVars
  <2>2. Len(down') = 1 /\ down'[1] = Self BY <1>1
  <2>3. \A i \in 1..Len(down') : ~IsAnswer(down'[i])
    BY <2>2 DEF IsAnswer, Self
  <2> QED BY <2>1, <2>3 DEF Agree, ShowsIt
<1>4. Cached' BY <1>1, CachedSame
<1>5. TypeOK' BY <1>1 DEF IInv, TypeOK, roomVars, pinVars, showVars
<1>6. Docs'
  <2>1. up' \in Seq(Presents(typed'))
    BY <1>1, NoPINToTell, SeqOfMore DEF IInv, Docs
  <2>2. down' \in Seq(DownDoc) BY <1>1 DEF DownDoc
  <2>3. queue' \in Seq(AppDoc) BY <1>1
  <2> QED BY <1>1, <2>1, <2>2, <2>3 DEF IInv, Docs, pinVars, showVars, bounds
<1> QED BY <1>2, <1>3, <1>4, <1>5, <1>6 DEF IInv

\* A new socket takes the place of the old one.
LEMMA ConnectInv ==
    ASSUME IInv, Connect,
           UNCHANGED <<queue, last_receive, waiting, everConnected, requested, prior, helloed,
                       current, late, refused, tasks, exists, lock, pinVars, bounds>>,
           retries' \in Nat, marked' \in {"none", "connect", "reconnect"}
    PROVE  IInv'
<1>1. Cached' BY CachedSame
<1>2. CASE connecting
  <2>1. UNCHANGED <<conn, connected, connecting, url, wireVars, member, left, silent>>
    BY <1>2 DEF Connect
  <2>2. Link' /\ Agree' BY <2>1, ToldSame DEF wireVars, showVars
  <2>3. TypeOK' BY <2>1 DEF IInv, TypeOK, pinVars
  <2>4. Docs' BY <2>1 DEF IInv, Docs, wireVars, pinVars, bounds
  <2> QED BY <1>1, <2>2, <2>3, <2>4 DEF IInv
<1>3. CASE ~connecting
  <2>1. /\ conn' = "connecting" /\ connecting' = TRUE /\ url' = TRUE
        /\ dead' = FALSE /\ up' = <<>> /\ down' = <<>> /\ member' = NoRoom /\ left' = {}
        /\ silent' = (silent \/ (conn # "none" /\ current # NoRoom)) /\ UNCHANGED connected
    BY <1>3 DEF Connect
  <2>2. Link' BY <2>1 DEF IInv, Link
  <2>3. Agree' BY <2>1 DEF Agree
  <2>4. TypeOK' BY <2>1 DEF IInv, TypeOK, pinVars
  <2>5. Docs' BY <2>1 DEF IInv, Docs, pinVars, bounds
  <2> QED BY <1>1, <2>2, <2>3, <2>4, <2>5 DEF IInv
<1> QED BY <1>2, <1>3

\* The socket is given up to be connected again later.
LEMMA ReconnectInv ==
    ASSUME IInv, Reconnect,
           UNCHANGED <<queue, last_receive, waiting, everConnected, requested, helloed,
                       refused, tasks, exists, lock, pinVars, chats>>,
           marked' \in {"none", "connect", "reconnect"}, prior' \in Room \cup {NoRoom},
           \/ UNCHANGED showVars /\ (url => current = NoRoom)
           \/ UNCHANGED <<current, late>> /\ silent' = (silent \/ (url /\ current # NoRoom))
           \/ current' = NoRoom /\ conn = "connecting" /\ late' = FALSE /\ silent' = FALSE
    PROVE  IInv'
<1>1. Cached' BY CachedSame
<1>2. current' \in {current, NoRoom} /\ late' \in BOOLEAN /\ silent' \in BOOLEAN
  BY DEF showVars, IInv, Docs
<1>3. CASE url
  <2>1. CloseSocket /\ url' = FALSE /\ retries' = retries + 1
    BY <1>3 DEF Reconnect
  <2>2. current' = NoRoom \/ silent'
    BY <1>3 DEF showVars
  <2>3. ~everConnected => current' = NoRoom
    BY <1>2 DEF IInv, Link
  <2>4. Link' /\ Agree' BY <2>1, <2>2, <2>3, ClosedSocket
  <2>5. TypeOK'
    <3>1. retries \in Nat BY DEF IInv, TypeOK
    <3>2. retries' \in Nat BY <2>1, <3>1
    <3> QED BY <1>2, <2>1, <3>2, ClosedTypes DEF IInv, TypeOK, pinVars
  <2>6. Docs' BY <1>2, <2>1, ClosedTypes DEF IInv, Docs, pinVars
  <2> QED BY <1>1, <2>4, <2>5, <2>6 DEF IInv
<1>4. CASE ~url
  <2>1. UNCHANGED <<connVars, wireVars, member, left>>
    BY <1>4 DEF Reconnect
  <2>2. Link' /\ Agree'
    <3>1. CASE current' = NoRoom /\ conn = "connecting"
      BY <2>1, <3>1 DEF IInv, Link, Agree, connVars, wireVars
    <3>2. CASE UNCHANGED <<current, late>> /\ silent' = silent
      BY <2>1, <3>2 DEF IInv, Link, Agree, LastTells, ShowsIt, connVars, wireVars
    <3>3. CASE UNCHANGED showVars
      BY <2>1, <3>2, <3>3 DEF showVars
    <3> QED BY <1>4, <3>1, <3>2, <3>3 DEF showVars, IInv, Docs
  <2>3. TypeOK' BY <1>2, <2>1 DEF IInv, TypeOK, pinVars, connVars
  <2>4. Docs' BY <1>2, <2>1 DEF IInv, Docs, pinVars, wireVars
  <2> QED BY <1>1, <2>2, <2>3, <2>4 DEF IInv
<1> QED BY <1>3, <1>4

LEMMA ReconnectsInv ==
    ASSUME IInv, ConnectTimeout \/ RetryTimer \/ RunMarked \/ UserReconnect
    PROVE  IInv'
<1>1. CASE ConnectTimeout
  <2>1. /\ conn = "connecting" /\ Lost /\ Reconnect
        /\ UNCHANGED <<queue, last_receive, waiting, marked, everConnected, requested,
                       helloed, refused, tasks, exists, lock, pinVars, chats>>
    BY <1>1 DEF ConnectTimeout
  <2>2. current' = NoRoom /\ prior' \in {prior, current} /\ late' = FALSE /\ silent' = FALSE
    BY <2>1 DEF Lost, SetCurrentRoom
  <2>3. marked \in {"none", "connect", "reconnect"} /\ prior' \in Room \cup {NoRoom}
    BY <2>2 DEF IInv, TypeOK
  <2> QED BY <2>1, <2>2, <2>3, ReconnectInv
<1>2. CASE RetryTimer
  <2>1. /\ retries > 0 /\ retries' = retries - 1 /\ Connect
        /\ UNCHANGED <<queue, last_receive, uiVars, requested, prior, helloed, current, late,
                       refused, tasks, exists, lock, pinVars, bounds>>
    BY <1>2 DEF RetryTimer
  <2>2. retries \in Nat /\ marked \in {"none", "connect", "reconnect"}
    BY DEF IInv, TypeOK
  <2>3. retries' \in Nat
    BY <2>1, <2>2
  <2> QED BY <2>1, <2>2, <2>3, ConnectInv DEF uiVars
<1>3. CASE RunMarked
  <2>1. /\ marked' = "none"
        /\ UNCHANGED <<queue, last_receive, waiting, everConnected, requested, prior, helloed,
                       current, late, refused, tasks, exists, lock, pinVars, bounds>>
        /\ \/ Connect /\ UNCHANGED retries
           \/ Reconnect /\ silent' = (silent \/ (url /\ current # NoRoom))
    BY <1>3 DEF RunMarked
  <2>2. retries \in Nat /\ prior \in Room \cup {NoRoom}
    BY DEF IInv, TypeOK
  <2>3. CASE Connect /\ UNCHANGED retries
    BY <2>1, <2>2, <2>3, ConnectInv
  <2>4. CASE Reconnect /\ silent' = (silent \/ (url /\ current # NoRoom))
    BY <2>1, <2>2, <2>4, ReconnectInv DEF bounds
  <2> QED BY <2>1, <2>3, <2>4
<1>4. CASE UserReconnect
  <2>1. /\ ~everConnected /\ Reconnect
        /\ UNCHANGED <<queue, last_receive, uiVars, requested, helloed, refused, tasks, exists,
                       lock, pinVars, showVars, bounds>>
    BY <1>4 DEF UserReconnect
  <2>2. current = NoRoom BY <2>1 DEF IInv, Link
  <2>3. marked \in {"none", "connect", "reconnect"} /\ prior \in Room \cup {NoRoom}
    BY DEF IInv, TypeOK
  <2> QED BY <2>1, <2>2, <2>3, ReconnectInv DEF uiVars, showVars, bounds
<1> QED BY <1>1, <1>2, <1>3, <1>4

\* The socket is left to close, or the network goes silent.
LEMMA NothingArrivesInv ==
    ASSUME IInv, ForgetAndReconnect \/ Silence
    PROVE  IInv'
<1>1. /\ conn = "open" /\ (conn' = "closing" \/ (conn' = "open" /\ dead'))
      /\ up' = <<>> /\ down' = <<>>
      /\ UNCHANGED <<connected, connecting, url, retries, queue, last_receive, uiVars, requested,
                     helloed, refused, tasks, roomVars, pinVars, showVars, chats>>
  <2>1. CASE ForgetAndReconnect
    BY <2>1 DEF ForgetAndReconnect
  <2>2. CASE Silence
    BY <2>2 DEF Silence, connVars
  <2> QED BY <2>1, <2>2
<1>2. Link'
  BY <1>1 DEF IInv, Link, uiVars, showVars
<1>3. Agree' BY <1>1 DEF Agree
<1>4. Cached' BY <1>1, CachedSame
<1>5. TypeOK' BY <1>1 DEF IInv, TypeOK, uiVars, roomVars, pinVars, showVars
<1>6. Docs' BY <1>1 DEF IInv, Docs, pinVars, showVars
<1> QED BY <1>2, <1>3, <1>4, <1>5, <1>6 DEF IInv

-----------------------------------------------------------------------------
(* What the client does between documents. *)

\* It may send, defer and remember what it likes, as long as no PIN is sent but
\* to its room.
LEMMA ClientInv ==
    ASSUME IInv,
           UNCHANGED <<connVars, everConnected, dead, down, roomVars, pinCache, typed, showVars>>,
           up' \in Seq(Presents(typed)), queue' \in Seq(AppDoc), tasks' \in Seq(Task), chats' \in Nat,
           last_receive' \in {"null", "heard", "overdue"}, waiting' \subseteq Defers,
           marked' \in {"none", "connect", "reconnect"}, requested' \in Room,
           helloed' \in Room \cup {NoRoom}, prompts' \subseteq Room,
           refused' \in {"no", "disabled", "account", "swallowed"}
    PROVE  IInv'
<1>1. Link' /\ Agree' BY ToldSame DEF connVars, roomVars
<1>2. Cached' BY DEF IInv, Cached
<1>3. TypeOK' BY DEF IInv, TypeOK, connVars, roomVars, showVars
<1>4. Docs' BY DEF IInv, Docs, showVars
<1> QED BY <1>1, <1>2, <1>3, <1>4 DEF IInv

LEMMA Types ==
    ASSUME IInv
    PROVE  /\ up \in Seq(Presents(typed)) /\ queue \in Seq(AppDoc) /\ tasks \in Seq(Task) /\ chats \in Nat
           /\ last_receive \in {"null", "heard", "overdue"} /\ waiting \subseteq Defers
           /\ marked \in {"none", "connect", "reconnect"} /\ requested \in Room
           /\ helloed \in Room \cup {NoRoom} /\ prompts \subseteq Room
           /\ refused \in {"no", "disabled", "account", "swallowed"}
           /\ pinCache \in [Room -> PIN \cup {NoPIN}] /\ prior \in Room \cup {NoRoom}
           /\ current \in Room \cup {NoRoom}
BY DEF IInv, TypeOK, Docs

LEMMA SendFacts ==
    ASSUME IInv, NEW m \in Presents(typed), Send(m)
    PROVE  up' \in Seq(Presents(typed))
<1>1. up' = Append(up, m) \/ up' = up BY DEF Send
<1>2. up \in Seq(Presents(typed)) BY Types
<1>3. Append(up, m) \in Seq(Presents(typed)) BY <1>2, AppendFacts
<1> QED BY <1>1, <1>2, <1>3

LEMMA ChatInv ==
    ASSUME IInv, Chat
    PROVE  IInv'
<1>1. /\ chats' = chats + 1
      /\ UNCHANGED <<connVars, last_receive, uiVars, requested, helloed, refused, tasks, dead,
                     down, roomVars, pinVars, showVars>>
      /\ \/ Send(App(chats')) /\ UNCHANGED queue
         \/ queue' = Append(queue, App(chats')) /\ UNCHANGED up
  BY DEF Chat
<1>2. chats' \in Nat BY <1>1, Types
<1>3. App(chats') \in AppDoc /\ App(chats') \in Presents(typed)
  BY <1>2, NoPINToTell DEF App, AppDoc
<1>4. queue' \in Seq(AppDoc)
  BY <1>1, <1>3, Types, AppendFacts
<1>5. up' \in Seq(Presents(typed))
  BY <1>1, <1>3, Types, SendFacts
<1> QED BY <1>1, <1>2, <1>4, <1>5, Types, ClientInv DEF uiVars, pinVars

LEMMA HeartbeatInv ==
    ASSUME IInv, Overdue \/ Idle
    PROVE  IInv'
<1>1. /\ last_receive' \in {"overdue", "null"} /\ (up' = up \/ Send(Alive))
      /\ UNCHANGED <<connVars, queue, uiVars, requested, helloed, refused, tasks, dead, down,
                     roomVars, pinVars, showVars, bounds>>
  BY DEF Overdue, Idle, wireVars
<1>2. up' \in Seq(Presents(typed))
  BY <1>1, NoPINToTell, Types, SendFacts
<1> QED BY <1>1, <1>2, Types, ClientInv DEF uiVars, pinVars, bounds

LEMMA WaitingInv ==
    ASSUME IInv, Resolve \/ DelayOver \/ Navigate
    PROVE  IInv'
<1>1. CASE Resolve
  <2>1. waiting' \subseteq Defers BY <1>1, Types DEF Resolve
  <2> QED BY <1>1, <2>1, Types, ClientInv DEF Resolve, wireVars, pinVars, bounds
<1>2. CASE DelayOver
  BY <1>2, Types, ClientInv DEF DelayOver, wireVars, pinVars, bounds
<1>3. CASE Navigate
  <2>1. PICK r \in Room : LocationChange(r, tasks)
    BY <1>3 DEF Navigate
  <2>2. tasks' \in Seq(Task)
    <3>1. Join \in Task BY DEF Task
    <3> QED BY <2>1, <3>1, Types, AppendFacts DEF LocationChange
  <2>3. marked' \in {"none", "connect", "reconnect"} /\ requested' \in Room
    BY <2>1, Types DEF LocationChange
  <2> QED BY <1>3, <2>2, <2>3, Types, ClientInv DEF Navigate, wireVars, pinVars
<1> QED BY <1>1, <1>2, <1>3

LEMMA RunTaskInv ==
    ASSUME IInv, RunTask
    PROVE  IInv'
<1> DEFINE t == Head(tasks)
<1>1. t \in Task /\ Tail(tasks) \in Seq(Task)
  BY Types, HeadTail DEF RunTask
<1>2. UNCHANGED <<connVars, queue, last_receive, waiting, everConnected, reconnecting, dead,
                  down, roomVars, pinVars, showVars, bounds>>
  BY DEF RunTask
<1>3. \/ JoinRequestedRoom(current, pinCache, Tail(tasks)) /\ UNCHANGED <<requested, marked>>
      \/ t.do = "clear" /\ ClearHelloed(t.room) /\ tasks' = Tail(tasks)
         /\ UNCHANGED <<requested, marked, refused, up>>
      \/ t.do = "go" /\ LocationChange(t.room, Tail(tasks)) /\ UNCHANGED <<helloed, refused, up>>
      \/ tasks' = Tail(tasks) /\ UNCHANGED <<requested, marked, helloed, refused, up>>
  BY DEF RunTask
<1> HIDE DEF t
<1>4. /\ up' \in Seq(Presents(typed)) /\ tasks' \in Seq(Task)
      /\ marked' \in {"none", "connect", "reconnect"} /\ requested' \in Room
      /\ helloed' \in Room \cup {NoRoom} /\ refused' \in {"no", "disabled", "account", "swallowed"}
  <2>1. CASE JoinRequestedRoom(current, pinCache, Tail(tasks)) /\ UNCHANGED <<requested, marked>>
    BY <1>1, <2>1, Types, JoinFacts DEF IInv, Cached
  <2>2. CASE t.do = "clear" /\ ClearHelloed(t.room) /\ tasks' = Tail(tasks)
             /\ UNCHANGED <<requested, marked, refused, up>>
    BY <1>1, <2>2, Types DEF ClearHelloed
  <2>3. CASE t.do = "go" /\ LocationChange(t.room, Tail(tasks)) /\ UNCHANGED <<helloed, refused, up>>
    <3>1. t.room \in Room BY <1>1, <2>3 DEF Task, Join
    <3>2. tasks' \in Seq(Task)
      BY <1>1, <2>3, AppendFacts DEF LocationChange, Task
    <3> QED BY <2>3, <3>1, <3>2, Types DEF LocationChange
  <2>4. CASE tasks' = Tail(tasks) /\ UNCHANGED <<requested, marked, helloed, refused, up>>
    BY <1>1, <2>4, Types
  <2> QED BY <1>3, <2>1, <2>2, <2>3, <2>4
<1> QED BY <1>2, <1>4, Types, ClientInv DEF pinVars, bounds

LEMMA CancelPINInv ==
    ASSUME IInv, RoomClientAssumption, CancelPIN
    PROVE  IInv'
<1>1. tasks' \in Seq(Task)
  BY Types, GoFacts DEF CancelPIN, IInv
<1>2. prompts' \subseteq Room
  BY Types DEF CancelPIN
<1> QED BY <1>1, <1>2, Types, ClientInv DEF CancelPIN, wireVars, uiVars, bounds

\* The dialog puts a PIN into the cache for the room it was typed for.
LEMMA EnterPINInv ==
    ASSUME IInv, EnterPIN
    PROVE  IInv'
<1>1. PICK r \in prompts, p \in PIN :
          /\ prompts' = prompts \ {r} /\ pinCache' = [pinCache EXCEPT ![r] = p]
          /\ typed' = [typed EXCEPT ![r] = @ \cup {p}]
  BY DEF EnterPIN, Store
<1>2. /\ tasks' = Append(tasks, Join)
      /\ UNCHANGED <<connVars, queue, last_receive, uiVars, requested, helloed, refused,
                     wireVars, roomVars, showVars, bounds>>
  BY DEF EnterPIN
<1>3. r \in Room /\ typed \in [Room -> SUBSET PIN] /\ pinCache \in [Room -> PIN \cup {NoPIN}]
  BY Types DEF IInv, Docs
<1>4. /\ typed' \in [Room -> SUBSET PIN] /\ p \in typed'[r]
      /\ \A s \in Room : typed[s] \subseteq typed'[s]
  BY <1>1, <1>3
<1>5. /\ pinCache' \in [Room -> PIN \cup {NoPIN}] /\ pinCache'[r] = p
      /\ \A s \in Room \ {r} : pinCache'[s] = pinCache[s]
  BY <1>1, <1>3
<1>6. Cached'
  BY <1>4, <1>5 DEF IInv, Cached
<1>7. Docs'
  <2>1. Presents(typed) \subseteq Presents(typed')
    BY <1>4 DEF Presents, UpDoc, AppDoc, Alive
  <2>2. up' \in Seq(Presents(typed'))
    BY <1>2, <2>1, Types, SeqOfMore DEF wireVars
  <2>3. tasks' \in Seq(Task)
    BY <1>2, Types, AppendFacts DEF Task
  <2> QED BY <1>2, <1>4, <2>2, <2>3 DEF IInv, Docs, wireVars, bounds, showVars
<1>8. Link' /\ Agree'
  BY <1>2, ToldSame DEF connVars, wireVars, uiVars, roomVars
<1>9. TypeOK'
  BY <1>1, <1>2, <1>5 DEF IInv, TypeOK, connVars, uiVars, roomVars, showVars
<1> QED BY <1>6, <1>7, <1>8, <1>9 DEF IInv

-----------------------------------------------------------------------------
(* Documents of the server. *)

\* The client shows what the last answer told it, until a Room of another room.
LEMMA TailTells ==
    ASSUME IInv, conn = "open", down # <<>>, down' = Tail(down), UNCHANGED <<conn, dead, member>>,
           \/ /\ ~IsAnswer(Head(down)) /\ silent' = silent
              /\ late' = (late \/ current # current')
           \/ IsAnswer(Head(down)) /\ current' = Tells(Head(down))
    PROVE  Agree'
<1>1. /\ Len(down) \in Nat /\ Len(down) > 0 /\ Len(down') = Len(down) - 1 /\ Head(down) = down[1]
      /\ \A i \in 1..Len(down') : down'[i] = down[i + 1]
  BY HeadTail DEF IInv, Docs
<1> SUFFICES ASSUME conn' = "open", ~dead' PROVE LastTells' \/ ShowsIt'
  BY DEF Agree
<1>2. LastTells \/ ShowsIt BY DEF IInv, Agree
<1>3. ASSUME NEW i \in 1..Len(down), i # 1, IsAnswer(down[i]), Tells(down[i]) = member,
             \A j \in 1..Len(down) : j > i => ~IsAnswer(down[j])
      PROVE  LastTells'
  <2>1. i - 1 \in 1..Len(down') /\ down'[i - 1] = down[i] BY <1>1, <1>3
  <2>2. \A j \in 1..Len(down') : j > i - 1 => ~IsAnswer(down'[j]) BY <1>1, <1>3
  <2>3. IsAnswer(down'[i - 1]) /\ Tells(down'[i - 1]) = member' BY <1>3, <2>1
  <2> QED BY <2>1, <2>2, <2>3 DEF LastTells
<1>4. CASE IsAnswer(Head(down)) /\ current' = Tells(Head(down))
  <2>1. LastTells BY <1>1, <1>2, <1>4 DEF ShowsIt
  <2>2. PICK i \in 1..Len(down) :
            /\ IsAnswer(down[i]) /\ Tells(down[i]) = member
            /\ \A j \in 1..Len(down) : j > i => ~IsAnswer(down[j])
    BY <2>1 DEF LastTells
  <2>3. CASE i = 1
    <3>1. \A j \in 1..Len(down') : ~IsAnswer(down'[j])
      <4> TAKE j \in 1..Len(down')
      <4>1. j + 1 \in 1..Len(down) /\ j + 1 > 1 /\ down'[j] = down[j + 1] BY <1>1
      <4> QED BY <2>2, <2>3, <4>1
    <3>2. current' = member' BY <1>1, <1>4, <2>2, <2>3
    <3> QED BY <3>1, <3>2 DEF ShowsIt
  <2> QED BY <1>3, <2>2, <2>3
<1>5. CASE /\ ~IsAnswer(Head(down)) /\ silent' = silent
           /\ late' = (late \/ current # current')
  <2>1. CASE LastTells
    <3>1. PICK i \in 1..Len(down) :
              /\ IsAnswer(down[i]) /\ Tells(down[i]) = member
              /\ \A j \in 1..Len(down) : j > i => ~IsAnswer(down[j])
      BY <2>1 DEF LastTells
    <3> QED BY <1>1, <1>3, <1>5, <3>1
  <2>2. CASE ShowsIt
    <3>1. \A j \in 1..Len(down') : ~IsAnswer(down'[j])
      <4> TAKE j \in 1..Len(down')
      <4>1. j + 1 \in 1..Len(down) /\ down'[j] = down[j + 1] BY <1>1
      <4> QED BY <2>2, <4>1 DEF ShowsIt
    <3>2. current' = member' \/ late' \/ silent'
      BY <1>5, <2>2 DEF ShowsIt
    <3> QED BY <3>1, <3>2 DEF ShowsIt
  <2> QED BY <1>2, <2>1, <2>2
<1> QED BY <1>4, <1>5

\* What the server appends keeps that: an answer tells where it has the client now.
LEMMA AppendTells ==
    ASSUME IInv, UNCHANGED <<conn, dead, current, late, silent>>, NEW m \in DownDoc,
           down' = Append(down, m),
           IF IsAnswer(m) THEN member' = Tells(m) ELSE member' = member
    PROVE  Agree'
<1>1. /\ Len(down) \in Nat /\ Len(down') = Len(down) + 1 /\ down'[Len(down) + 1] = m
      /\ \A i \in 1..Len(down) : down'[i] = down[i]
  BY AppendFacts DEF IInv, Docs
<1> SUFFICES ASSUME conn' = "open", ~dead' PROVE LastTells' \/ ShowsIt'
  BY DEF Agree
<1>2. CASE IsAnswer(m)
  <2>1. Len(down) + 1 \in 1..Len(down') BY <1>1
  <2>2. \A j \in 1..Len(down') : ~(j > Len(down) + 1) BY <1>1
  <2> QED BY <1>1, <1>2, <2>1, <2>2 DEF LastTells
<1>3. CASE ~IsAnswer(m)
  <2>1. \A j \in 1..Len(down') : (j \in 1..Len(down) /\ down'[j] = down[j]) \/ ~IsAnswer(down'[j])
    BY <1>1, <1>3
  <2>2. CASE LastTells
    <3>1. PICK i \in 1..Len(down) :
              /\ IsAnswer(down[i]) /\ Tells(down[i]) = member
              /\ \A j \in 1..Len(down) : j > i => ~IsAnswer(down[j])
      BY <2>2 DEF LastTells
    <3>2. i \in 1..Len(down') /\ IsAnswer(down'[i]) /\ Tells(down'[i]) = member'
      BY <1>1, <1>3, <3>1
    <3>3. \A j \in 1..Len(down') : j > i => ~IsAnswer(down'[j])
      BY <2>1, <3>1
    <3> QED BY <3>2, <3>3 DEF LastTells
  <2>3. CASE ShowsIt
    BY <1>3, <2>1, <2>3 DEF ShowsIt
  <2> QED BY <2>2, <2>3 DEF IInv, Agree
<1> QED BY <1>2, <1>3

\* The client takes a document, and shows what it tells.
LEMMA ReceiveInv ==
    ASSUME IInv, RoomClientAssumption, Receive
    PROVE  IInv'
<1> DEFINE m == Head(down)
<1>1. /\ conn = "open" /\ down # <<>> /\ down' = Tail(down) /\ last_receive' = "heard"
      /\ UNCHANGED <<connVars, queue, uiVars, requested, dead, roomVars, typed, bounds, got>>
  BY DEF Receive
<1>2. m \in DownDoc /\ down' \in Seq(DownDoc)
  BY <1>1, HeadTail DEF IInv, Docs
<1>3. everConnected /\ conn' = "open" BY <1>1 DEF IInv, Link, connVars
<1>4. ASSUME \/ /\ ~IsAnswer(m) /\ silent' = silent
                /\ late' = (late \/ current # current')
             \/ IsAnswer(m) /\ current' = Tells(m),
             Cached',
             up' \in Seq(Presents(typed)), tasks' \in Seq(Task), prompts' \subseteq Room,
             helloed' \in Room \cup {NoRoom}, refused' \in {"no", "disabled", "account", "swallowed"},
             pinCache' \in [Room -> PIN \cup {NoPIN}],
             prior' \in Room \cup {NoRoom}, current' \in Room \cup {NoRoom},
             late' \in BOOLEAN, silent' \in BOOLEAN
      PROVE  IInv'
  <2>1. Agree' BY <1>1, <1>4, TailTells DEF connVars, roomVars
  <2>2. Link' BY <1>1, <1>3 DEF Link, uiVars
  <2>3. TypeOK' BY <1>1, <1>4 DEF IInv, TypeOK, connVars, uiVars, roomVars
  <2>4. Docs' BY <1>1, <1>2, <1>4 DEF IInv, Docs, bounds
  <2> QED BY <1>4, <2>1, <2>2, <2>3, <2>4 DEF IInv
<1>5. late \in BOOLEAN /\ silent \in BOOLEAN BY DEF IInv, Docs
<1>6. CASE ReceiveSelf \/ ReceiveAlive
  <2>1. /\ m \in {Self, Alive} /\ tasks' \in {tasks, Append(tasks, Join)}
        /\ UNCHANGED <<helloed, up, refused, pinCache, prompts, showVars>>
    BY <1>6 DEF ReceiveSelf, ReceiveAlive
  <2>2. ~IsAnswer(m) BY <2>1 DEF IsAnswer, Self, Alive
  <2>3. tasks' \in Seq(Task)
    <3>1. Join \in Task BY DEF Task
    <3>2. Append(tasks, Join) \in Seq(Task) BY <3>1, Types, AppendFacts
    <3> QED BY <2>1, <3>2, Types
  <2>4. Cached' BY <1>1, <2>1 DEF IInv, Cached
  <2>5. late' = (late \/ current # current') BY <1>5, <2>1 DEF showVars
  <2> QED BY <1>4, <1>5, <2>1, <2>2, <2>3, <2>4, <2>5, Types DEF showVars
<1>7. CASE ReceiveWelcome
  <2>1. m.type = "Welcome" /\ m.room \in Room
    BY <1>2, <1>7 DEF ReceiveWelcome, DownDoc, Self, Alive
  <2>2. /\ current' = m.room /\ prior' \in {prior, current} /\ late' = FALSE /\ silent' = FALSE
        /\ UNCHANGED <<helloed, up, refused, tasks, pinCache, prompts>>
    BY <1>7 DEF ReceiveWelcome, SetCurrentRoom
  <2>3. IsAnswer(m) /\ Tells(m) = m.room BY <2>1 DEF IsAnswer, Tells
  <2>4. Cached' BY <1>1, <2>2 DEF IInv, Cached
  <2> HIDE DEF m
  <2> QED BY <1>4, <2>1, <2>2, <2>3, <2>4, Types
<1>8. CASE ReceiveRoom
  <2>1. m.type = "Room" /\ m.room \in Room
    BY <1>2, <1>8 DEF ReceiveRoom, DownDoc, Self, Alive
  <2>2. /\ current' = m.room /\ late' = (late \/ current # current')
        /\ UNCHANGED <<helloed, up, refused, tasks, pinCache, prompts, prior, silent>>
    BY <1>8 DEF ReceiveRoom
  <2>3. ~IsAnswer(m) BY <2>1 DEF IsAnswer
  <2>4. Cached' BY <1>1, <2>2 DEF IInv, Cached
  <2>5. late' \in BOOLEAN BY <2>2
  <2> HIDE DEF m
  <2> QED BY <1>4, <1>5, <2>1, <2>2, <2>3, <2>4, <2>5, Types
<1>9. CASE ReceiveError
  <2> DEFINE c == m.code
             pins == PinsAfter(c)
  <2>1. m.type = "Error" /\ pinCache' = pins BY <1>9 DEF ReceiveError
  <2>2. IsAnswer(m) /\ Tells(m) = NoRoom BY <2>1 DEF IsAnswer, Tells
  <2>3. current' = NoRoom /\ prior' \in {prior, current, NoRoom} /\ late' = FALSE /\ silent' = FALSE
    BY <1>9 DEF ReceiveError, LeaveOnError, SetCurrentRoom
  <2>4. /\ pins \in [Room -> PIN \cup {NoPIN}]
        /\ \A r \in Room : pins[r] # NoPIN => pins[r] \in typed[r]
    BY Types DEF PinsAfter, IInv, Cached
  <2>5. Cached' BY <1>1, <2>1, <2>4 DEF Cached
  <2>6. /\ up' \in Seq(Presents(typed)) /\ tasks' \in Seq(Task) /\ prompts' \subseteq Room
        /\ helloed' \in Room \cup {NoRoom} /\ refused' \in {"no", "disabled", "account", "swallowed"}
    <3>1. CASE JoinRequestedRoom(NoRoom, pins, tasks) /\ UNCHANGED prompts
      BY <2>4, <3>1, Types, JoinFacts
    <3>2. CASE /\ refused' = "account" /\ UNCHANGED <<helloed, up, prompts>>
               /\ \E p \in Room \cup {NoRoom} : tasks' = ThenGo(tasks, PriorOrDefault(p))
      BY <3>2, Types, GoFacts DEF IInv
    <3>3. CASE prompts' \in {prompts, prompts \cup {requested}}
               /\ refused' \in {refused, "disabled", "swallowed"} /\ UNCHANGED <<helloed, up, tasks>>
      BY <3>3, Types
    <3>4. (IF current = NoRoom THEN prior ELSE current) \in Room \cup {NoRoom}
      BY Types
    <3> HIDE DEF pins
    <3> QED BY <1>9, <3>1, <3>2, <3>3, <3>4 DEF ReceiveError, pins
  <2> HIDE DEF m, pins
  <2> QED BY <1>4, <2>1, <2>2, <2>3, <2>4, <2>5, <2>6, Types
<1> QED BY <1>6, <1>7, <1>8, <1>9 DEF Receive

-----------------------------------------------------------------------------
(* The server. *)

\* An answer is the Welcome to the room, or an Error.
LEMMA AnswerFacts ==
    ASSUME NEW r \in Room, NEW p
    PROVE  /\ Answer(r, p) \in DownDoc /\ IsAnswer(Answer(r, p))
           /\ Answer(r, p) = Welcome(r) \/ (Answer(r, p) # Welcome(r) /\ Tells(Answer(r, p)) = NoRoom)
           /\ Tells(Welcome(r)) = r
<1>1. Welcome(r) \in DownDoc /\ IsAnswer(Welcome(r)) /\ Tells(Welcome(r)) = r /\ Welcome(r).type = "Welcome"
  BY DEF Welcome, DownDoc, IsAnswer, Tells
<1>2. ASSUME NEW c \in Codes
      PROVE  /\ Error(c) \in DownDoc /\ IsAnswer(Error(c)) /\ Tells(Error(c)) = NoRoom
             /\ Error(c) # Welcome(r)
  <2>1. Error(c).type = "Error" BY DEF Error
  <2> QED BY <1>1, <2>1 DEF Error, DownDoc, IsAnswer, Tells
<1>3. \/ Answer(r, p) = Welcome(r)
      \/ \E c \in Codes : Answer(r, p) = Error(c)
  BY DEF Answer, Codes
<1> QED BY <1>1, <1>2, <1>3

LEMMA ServeInv ==
    ASSUME IInv, Serve
    PROVE  IInv'
<1> DEFINE m == Head(up)
<1>1. /\ conn = "open" /\ up # <<>> /\ up' = Tail(up)
      /\ UNCHANGED <<connVars, queue, last_receive, uiVars, requested, helloed, refused, tasks,
                     dead, pinVars, showVars, bounds>>
  BY DEF Serve
<1>2. m \in Presents(typed) /\ up' \in Seq(Presents(typed))
  BY <1>1, Types, HeadTail
<1>3. Cached' BY <1>1, CachedSame
<1>4. everConnected /\ conn' = "open" BY <1>1 DEF IInv, Link, connVars
<1>5. Link' BY <1>1, <1>4 DEF Link, uiVars
<1>6. ASSUME Agree', down' \in Seq(DownDoc), member' \in Room \cup {NoRoom}, left' \subseteq Room,
             exists' \subseteq Room, lock' \in [Room -> PIN \cup {NoPIN}],
             member' # NoRoom => member' \in exists'
      PROVE  IInv'
  <2>1. TypeOK' BY <1>1, <1>6 DEF IInv, TypeOK, connVars, uiVars, pinVars, showVars
  <2>2. Docs' BY <1>1, <1>2, <1>6 DEF IInv, Docs, pinVars, bounds, showVars
  <2> QED BY <1>3, <1>5, <1>6, <2>1, <2>2 DEF IInv
<1>7. /\ down \in Seq(DownDoc) /\ member \in Room \cup {NoRoom} /\ left \subseteq Room /\ exists \subseteq Room
      /\ lock \in [Room -> PIN \cup {NoPIN}] /\ (member # NoRoom => member \in exists)
  BY DEF IInv, TypeOK, Docs
<1>8. CASE m.type = "Hello" /\ HandleHello(m.room, m.pin)
  <2> DEFINE r == m.room
             a == Answer(r, m.pin)
  <2>1. r \in Room /\ m.pin \in PIN \cup {NoPIN}
    BY <1>2, <1>8 DEF Presents, UpDoc, AppDoc, Alive
  <2>2. /\ down' = Append(down, a)
        /\ member' = (IF a = Welcome(r) THEN r ELSE NoRoom)
        /\ left' = (IF member \in {NoRoom, r} THEN left \ {r} ELSE (left \cup {member}) \ {r})
        /\ IF a = Welcome(r) /\ r \notin exists
           THEN exists' = exists \cup {r} /\ lock' = [lock EXCEPT ![r] = m.pin]
           ELSE UNCHANGED <<exists, lock>>
    BY <1>8 DEF HandleHello
  <2>3. a \in DownDoc /\ IsAnswer(a) /\ member' = Tells(a)
    BY <2>1, <2>2, AnswerFacts
  <2> HIDE DEF a, r, m
  <2>4. down' \in Seq(DownDoc)
    BY <1>7, <2>2, <2>3, AppendFacts
  <2>5. Agree'
    BY <1>1, <2>2, <2>3, AppendTells DEF connVars, showVars
  <2>6. member' \in Room \cup {NoRoom} /\ exists' \subseteq Room /\ (member' # NoRoom => member' \in exists')
    BY <1>7, <2>1, <2>2
  <2>7. left' \subseteq Room /\ lock' \in [Room -> PIN \cup {NoPIN}]
    BY <1>7, <2>1, <2>2
  <2> QED BY <1>6, <2>4, <2>5, <2>6, <2>7
<1>9. CASE m.type = "Alive" /\ down' = Append(down, m) /\ UNCHANGED roomVars
  <2>1. m = Alive /\ m \in DownDoc /\ ~IsAnswer(m)
    BY <1>2, <1>9 DEF Presents, UpDoc, AppDoc, DownDoc, IsAnswer
  <2> HIDE DEF m
  <2>2. down' \in Seq(DownDoc)
    BY <1>7, <1>9, <2>1, AppendFacts
  <2>3. Agree'
    BY <1>1, <1>9, <2>1, AppendTells DEF connVars, showVars, roomVars
  <2> QED BY <1>6, <1>7, <1>9, <2>2, <2>3 DEF roomVars
<1>10. CASE UNCHANGED <<down, roomVars>>
  <2>1. Agree' BY <1>1, <1>10, ToldSame DEF connVars, roomVars, uiVars
  <2> QED BY <1>6, <1>7, <1>10, <2>1 DEF roomVars
<1> QED BY <1>8, <1>9, <1>10 DEF Serve

\* Other clients change the rooms, and a Room may come.
LEMMA OthersInv ==
    ASSUME IInv, Others
    PROVE  IInv'
<1>1. UNCHANGED <<connVars, queue, last_receive, uiVars, requested, helloed, refused, tasks,
                  dead, up, pinVars, showVars, navs, faults, chats, got>>
  BY DEF Others
<1>2. /\ down \in Seq(DownDoc) /\ member \in Room \cup {NoRoom} /\ left \subseteq Room /\ exists \subseteq Room
      /\ lock \in [Room -> PIN \cup {NoPIN}] /\ (member # NoRoom => member \in exists)
  BY DEF IInv, TypeOK, Docs
<1>3. Cached' BY <1>1, CachedSame
<1>4. ASSUME Agree', Link', down' \in Seq(DownDoc), left' \subseteq Room, exists' \subseteq Room,
             lock' \in [Room -> PIN \cup {NoPIN}], member' = member, member # NoRoom => member \in exists'
      PROVE  IInv'
  <2>1. TypeOK' BY <1>1, <1>2, <1>4 DEF IInv, TypeOK, connVars, uiVars, pinVars, showVars
  <2>2. Docs' BY <1>1, <1>4 DEF IInv, Docs, pinVars, showVars
  <2> QED BY <1>3, <1>4, <2>1, <2>2 DEF IInv
<1>5. CASE OthersCreate
  <2>1. PICK r \in Room, p \in PIN \cup {NoPIN} :
            exists' = exists \cup {r} /\ lock' = [lock EXCEPT ![r] = p] /\ UNCHANGED <<member, left, down>>
    BY <1>5 DEF OthersCreate
  <2>2. Agree' /\ Link' BY <1>1, <2>1, ToldSame DEF connVars, uiVars
  <2> QED BY <1>2, <1>4, <2>1, <2>2
<1>6. CASE OthersUpdate
  <2>1. PICK r \in exists, p \in PIN \cup {NoPIN} :
            /\ lock' = [lock EXCEPT ![r] = p] /\ UNCHANGED <<member, left, exists>>
            /\ down' = Append(down, RoomDoc(r)) \/ down' = down
    BY <1>6 DEF OthersUpdate
  <2>2. RoomDoc(r) \in DownDoc /\ ~IsAnswer(RoomDoc(r))
    BY <1>2 DEF RoomDoc, DownDoc, IsAnswer
  <2>3. Append(down, RoomDoc(r)) \in Seq(DownDoc)
    BY <1>2, <2>2, AppendFacts
  <2>4. Link' BY <1>1, <2>1 DEF IInv, Link, connVars, uiVars, showVars
  <2>5. Agree'
    <3>1. CASE down' = Append(down, RoomDoc(r))
      BY <1>1, <2>1, <2>2, <3>1, AppendTells DEF connVars, showVars
    <3>2. CASE down' = down
      BY <1>1, <2>1, <3>2, ToldSame DEF connVars, uiVars
    <3> QED BY <2>1, <3>1, <3>2
  <2>6. lock' \in [Room -> PIN \cup {NoPIN}] BY <1>2, <2>1
  <2> QED BY <1>2, <1>4, <2>1, <2>3, <2>4, <2>5, <2>6
<1>7. CASE Expire
  <2>1. PICK r \in exists \ {member} :
            /\ exists' = exists \ {r} /\ lock' = [lock EXCEPT ![r] = NoPIN] /\ left' = left \ {r}
            /\ UNCHANGED <<member, down>>
    BY <1>7 DEF Expire
  <2>2. Agree' /\ Link' BY <1>1, <2>1, ToldSame DEF connVars, uiVars
  <2> QED BY <1>2, <1>4, <2>1, <2>2
<1> QED BY <1>5, <1>6, <1>7 DEF Others

-----------------------------------------------------------------------------
(* The specification. *)

LEMMA InitInv == Init => IInv
<1> SUFFICES ASSUME Init PROVE IInv
  OBVIOUS
<1>1. TypeOK BY DEF Init, TypeOK
<1>2. Docs
  <2>1. /\ up \in Seq(Presents(typed)) /\ down \in Seq(DownDoc)
        /\ queue \in Seq(AppDoc) /\ tasks \in Seq(Task)
    BY DEF Init
  <2>2. chats \in Nat /\ typed \in [Room -> SUBSET PIN]
    BY DEF Init
  <2>3. late \in BOOLEAN /\ silent \in BOOLEAN
    BY DEF Init
  <2> QED BY <2>1, <2>2, <2>3 DEF Docs
<1>3. Cached BY DEF Init, Cached
<1>4. Link /\ Agree BY DEF Init, Link, Agree
<1> QED BY <1>1, <1>2, <1>3, <1>4 DEF IInv

LEMMA StutterInv ==
    ASSUME IInv, UNCHANGED vars
    PROVE  IInv'
<1>1. Link' /\ Agree' BY ToldSame DEF vars, showVars
<1>2. TypeOK' BY DEF IInv, TypeOK, vars
<1>3. Docs' BY DEF IInv, Docs, vars
<1>4. Cached' BY DEF IInv, Cached, vars
<1> QED BY <1>1, <1>2, <1>3, <1>4 DEF IInv

LEMMA NextInv ==
    ASSUME IInv, Next
    PROVE  IInv'
BY RoomClientAssumption, OnOpenInv, LostInv, ReconnectsInv, NothingArrivesInv, ChatInv, HeartbeatInv,
   WaitingInv, RunTaskInv, EnterPINInv, CancelPINInv, ReceiveInv, ServeInv, OthersInv DEF Next

LEMMA Invariance == Spec => []IInv
<1>1. IInv /\ [Next]_vars => IInv'
  BY NextInv, StutterInv
<1> QED BY InitInv, <1>1, PTL DEF Spec

-----------------------------------------------------------------------------
(* Theorems. *)

\* The connector keeps its shape (connector.js:28-226), and rooms and PINs are
\* what they are declared to be.
THEOREM TypeCorrect == Spec => []TypeOK
<1>1. IInv => TypeOK BY DEF IInv
<1> QED BY <1>1, Invariance, PTL

\* When all documents are delivered, the client shows the room the server has it
\* in, but for a Room that came late and a socket replaced silently (rooms.js:48-230).
THEOREM ShowsTheRoom == Spec => []ShowsItsRoom
<1>1. IInv => ShowsItsRoom
  <2> SUFFICES ASSUME IInv, conn = "open", ~dead, down = <<>>, ~late, ~silent PROVE current = member
    BY DEF ShowsItsRoom
  <2>1. 1..Len(down) = {} OBVIOUS
  <2> QED BY <2>1 DEF IInv, Agree, LastTells, ShowsIt
<1> QED BY <1>1, Invariance, PTL

\* A PIN typed for one room is never presented to another one (roompin.js:29-66).
THEOREM PINsStay == Spec => []PINStaysWithRoom
<1>1. IInv => PINStaysWithRoom
  <2> SUFFICES ASSUME IInv, NEW i \in 1..Len(up), up[i].type = "Hello", up[i].pin # NoPIN
               PROVE  up[i].pin \in typed[up[i].room]
    BY DEF PINStaysWithRoom
  <2>1. up[i] \in Presents(typed) BY DEF IInv, Docs
  <2> QED BY <2>1 DEF Presents
<1> QED BY <1>1, Invariance, PTL
===============================================================================
