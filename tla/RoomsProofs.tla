---------------------------- MODULE RoomsProofs ----------------------------
(***************************************************************************)
(* What holds of the rooms for any number of connections, rooms, workers   *)
(* and messages.                                                           *)
(***************************************************************************)
EXTENDS Rooms, TLAPS

-----------------------------------------------------------------------------
(* Sequences. *)

\* Nothing is left of a queue when its length is zero.
LEMMA EmptyFacts ==
    ASSUME NEW S, NEW q \in Seq(S)
    PROVE  q = <<>> <=> Len(q) = 0
OBVIOUS

\* The tail of a queue: what worker and handler do with the head done.
LEMMA TailFacts ==
    ASSUME NEW S, NEW q \in Seq(S), q # <<>>
    PROVE  /\ Tail(q) \in Seq(S)
           /\ Len(q) \in Nat /\ Len(q) >= 1
           /\ Len(Tail(q)) = Len(q) - 1
           /\ Tail(q) = <<>> <=> Len(q) = 1
           /\ Head(q) = q[1] /\ q[1] \in S
           /\ \A i \in 1..Len(Tail(q)) : i + 1 \in 1..Len(q) /\ Tail(q)[i] = q[i + 1]
<1>1. /\ Tail(q) \in Seq(S)
      /\ Len(q) \in Nat /\ Len(q) >= 1
      /\ Len(Tail(q)) = Len(q) - 1
      /\ Head(q) = q[1] /\ q[1] \in S
      /\ \A i \in 1..Len(Tail(q)) : i + 1 \in 1..Len(q) /\ Tail(q)[i] = q[i + 1]
  OBVIOUS
<1>2. Tail(q) = <<>> <=> Len(Tail(q)) = 0 BY <1>1, EmptyFacts
<1> QED BY <1>1, <1>2

\* A job put on a channel comes last.
LEMMA AppendFacts ==
    ASSUME NEW S, NEW q \in Seq(S), NEW e \in S
    PROVE  /\ Append(q, e) \in Seq(S)
           /\ Len(q) \in Nat
           /\ Len(Append(q, e)) = Len(q) + 1
           /\ Append(q, e)[Len(q) + 1] = e
           /\ \A i \in 1..Len(q) : Append(q, e)[i] = q[i]
OBVIOUS

\* The handlers' calls are calls.
LEMMA CallTypes ==
    ASSUME TypeOK, NEW s \in Session
    PROVE  /\ \A r \in Room, c \in Credentials : JoinCalls(r, c) \in Seq(Call)
           /\ Hello[s] =>
                /\ LeaveCalls(s) \in Seq(Call)
                /\ \A op \in Op, c \in Credentials : NewCall(op, Roomid[s], c) \in Call
                /\ \A op \in Op : Plain(op, Roomid[s]) \in Call
<1>1. \A op \in Op, r \in Room, c \in Credentials : NewCall(op, r, c) \in Call
  BY DEF NewCall, Call
<1>2. \A op \in Op, r \in Room : Plain(op, r) \in Call
  BY <1>1 DEF Plain, Credentials
<1>3. Hello[s] => Roomid[s] \in Room
  BY DEF TypeOK
<1>4. {"join", "Joined", "Left", "leave", "welcome"} \subseteq Op
  BY DEF Op, Answered, Broadcasts
<1> QED BY <1>1, <1>2, <1>3, <1>4 DEF JoinCalls, LeaveCalls

-----------------------------------------------------------------------------
(* Types. *)

\* A message starts a handler whose calls are well typed.
LEMMA ReceiveTypes ==
    ASSUME TypeOK, NEW s \in Session, NEW cs \in Seq(Call),
           Receive(s, cs)
    PROVE  TypeOK'
BY DEF TypeOK, Receive, Begin, Reads, managerVars, workerVars, sessionVars, clientVars

\* The end of a call leaves the rest of the handler.
LEMMA AdvanceTypes ==
    ASSUME TypeOK, NEW s \in Session, todo[s] # <<>>, Advance(s)
    PROVE  /\ todo'   \in [Session -> Seq(Call)]
           /\ phase'  \in [Session -> {"idle", "get", "create", "send", "await", "panicked"}]
           /\ target' \in [Session -> Worker \cup {NoWorker}]
           /\ reply'  \in [Session -> Reply \cup {NoReply}]
<1>1. todo[s] \in Seq(Call) BY DEF TypeOK
<1>2. Tail(todo[s]) \in Seq(Call) BY <1>1, TailFacts
<1> QED BY <1>2 DEF TypeOK, Advance

\* An answer, whatever the call, keeps the types of what the handler holds.
LEMMA AnswerTypes ==
    ASSUME TypeOK, NEW s \in Session, todo[s] # <<>>,
           NEW rep \in Reply, Answer(s, rep),
           UNCHANGED <<managerVars, workerVars, workers>>
    PROVE  TypeOK'
<1>1. todo[s] \in Seq(Call) BY DEF TypeOK
<1>2. Cur(s) \in Call BY <1>1, TailFacts DEF Cur
<1>3. CASE /\ Cur(s).op = "join" /\ rep.ok
           /\ Advance(s)
           /\ Hello'  = [Hello EXCEPT ![s] = TRUE]
           /\ Roomid' = [Roomid EXCEPT ![s] = Cur(s).room]
           /\ UNCHANGED <<disconnected, sent, clientVars>>
  BY <1>2, <1>3, AdvanceTypes DEF TypeOK, managerVars, workerVars, clientVars, Call
<1>4. CASE Cur(s).op = "join" /\ ~rep.ok /\ JoinFailed(s)
  BY <1>4 DEF TypeOK, JoinFailed, managerVars, workerVars
<1>5. CASE /\ Cur(s).op \in {"welcome", "users"}
           /\ Advance(s)
           /\ ShowUsers(s, rep.users, Cur(s).op = "welcome")
           /\ UNCHANGED sessionVars
  <2>1. rep.users \subseteq Session BY DEF Reply
  <2>2. buddies' \in [Session -> SUBSET Session]
    BY <1>5, <2>1 DEF TypeOK, ShowUsers
  <2>3. inRoom' \in [Session -> BOOLEAN]
    BY <1>5 DEF TypeOK, ShowUsers
  <2> QED
    BY <1>5, <2>2, <2>3, AdvanceTypes DEF TypeOK, managerVars, workerVars, sessionVars
<1>6. CASE Cur(s).op = "update" /\ Advance(s) /\ UNCHANGED <<sessionVars, clientVars>>
  BY <1>6, AdvanceTypes DEF TypeOK, managerVars, workerVars, sessionVars, clientVars
<1> QED BY <1>3, <1>4, <1>5, <1>6 DEF Answer

\* A call that needs no answer, likewise.
LEMMA AdvancePlainTypes ==
    ASSUME TypeOK, NEW s \in Session, todo[s] # <<>>, AdvancePlain(s)
    PROVE  /\ todo'   \in [Session -> Seq(Call)]
           /\ phase'  \in [Session -> {"idle", "get", "create", "send", "await", "panicked"}]
           /\ target' \in [Session -> Worker \cup {NoWorker}]
           /\ reply'  \in [Session -> Reply \cup {NoReply}]
           /\ Hello'  \in [Session -> BOOLEAN]
           /\ \A t \in Session : Hello'[t] => Hello[t]
           /\ UNCHANGED <<Roomid, disconnected, sent, buddies, inRoom>>
BY AdvanceTypes DEF TypeOK, AdvancePlain, clientVars

\* The job at the head of a channel is a job.
LEMMA HeadJob ==
    ASSUME TypeOK, NEW w \in Worker, workers[w] # <<>>
    PROVE  /\ Job1(w) \in Job /\ Job1(w) = workers[w][1] /\ 1 \in 1..Len(workers[w])
           /\ Tail(workers[w]) \in Seq(Job)
<1>1. workers[w] \in Seq(Job) BY DEF TypeOK
<1> QED BY <1>1, TailFacts DEF Job1

\* Every message of a connection keeps the types.
LEMMA MessageTypes ==
    ASSUME TypeOK, NEW s \in Session, Message(s)
    PROVE  TypeOK'
<1>1. ASSUME NEW r \in Room, NEW c \in Credentials, HandleHello(s, r, c) PROVE TypeOK'
  <2> DEFINE cs == (IF LeavesFirst(s, r) THEN LeaveCalls(s) ELSE <<>>) \o JoinCalls(r, c)
  <2>1. cs \in Seq(Call) BY CallTypes DEF LeavesFirst
  <2>2. Receive(s, cs) BY <1>1 DEF HandleHello
  <2> HIDE DEF cs
  <2> QED BY <2>1, <2>2, ReceiveTypes
<1>2. ASSUME HandleLeave(s) PROVE TypeOK'
  BY <1>2, CallTypes, ReceiveTypes DEF HandleLeave
<1>3. ASSUME HandleUsers(s) PROVE TypeOK'
  <2>1. "users" \in Op BY DEF Op, Answered
  <2>2. <<Plain("users", Roomid[s])>> \in Seq(Call) BY <1>3, <2>1, CallTypes DEF HandleUsers
  <2> QED BY <1>3, <2>2, ReceiveTypes DEF HandleUsers
<1>4. ASSUME NEW c \in Credentials, HandleRoom(s, c) PROVE TypeOK'
  <2>1. "update" \in Op /\ "Notify" \in Op BY DEF Op, Answered, Broadcasts
  <2>2. <<NewCall("update", Roomid[s], c), Plain("Notify", Roomid[s])>> \in Seq(Call)
    BY <1>4, <2>1, CallTypes DEF HandleRoom, MayUpdate
  <2> QED BY <1>4, <2>2, ReceiveTypes DEF HandleRoom
<1>5. ASSUME HandleChat(s) PROVE TypeOK'
  <2>1. "Notify" \in Op BY DEF Op, Broadcasts
  <2>2. <<Plain("Notify", Roomid[s])>> \in Seq(Call) BY <1>5, <2>1, CallTypes DEF HandleChat
  <2> QED BY <1>5, <2>2, ReceiveTypes DEF HandleChat
<1>6. ASSUME Close(s) PROVE TypeOK'
  <2>1. CASE Hello[s]
    <3>1. "Left" \in Op /\ "leave" \in Op BY DEF Op, Broadcasts
    <3>2. <<Plain("Left", Roomid[s]), Plain("leave", Roomid[s])>> \in Seq(Call)
      BY <2>1, <3>1, CallTypes
    <3> QED BY <1>6, <2>1, <3>2 DEF TypeOK, Close, CloseCalls, Begin, managerVars, workerVars
  <2>2. CASE ~Hello[s]
    BY <1>6, <2>2 DEF TypeOK, Close, managerVars, workerVars
  <2> QED BY <2>1, <2>2
<1> QED BY <1>1, <1>2, <1>3, <1>4, <1>5, <1>6 DEF Message

\* Every step of a call keeps the types.
LEMMA CallStepTypes ==
    ASSUME TypeOK, NEW s \in Session, CallStep(s)
    PROVE  TypeOK'
<1>1. ASSUME todo[s] # <<>> PROVE Cur(s) \in Call
  <2>1. todo[s] \in Seq(Call) BY DEF TypeOK
  <2> QED BY <1>1, <2>1, TailFacts DEF Cur
<1>2. ASSUME GetFound(s) PROVE TypeOK'
  BY <1>1, <1>2 DEF GetFound, At, TypeOK, Call, managerVars, workerVars, sessionVars, clientVars
<1>3. ASSUME GetMissing(s) PROVE TypeOK'
  <2>1. todo[s] # <<>> BY <1>3 DEF GetMissing, At
  <2>2. CASE Answer(s, Ok)
    <3>1. Ok \in Reply BY DEF Ok, Reply
    <3> QED BY <1>3, <2>1, <2>2, <3>1, AnswerTypes DEF GetMissing
  <2>3. CASE AdvancePlain(s)
    BY <1>3, <2>1, <2>3, AdvancePlainTypes DEF GetMissing, TypeOK, managerVars, workerVars
  <2> QED BY <1>3, <2>2, <2>3 DEF GetMissing
<1>4. ASSUME GetRefused(s) PROVE TypeOK'
  BY <1>4 DEF GetRefused, JoinFailed, TypeOK, managerVars, workerVars
<1>5. ASSUME GetForCreate(s) PROVE TypeOK'
  BY <1>5 DEF GetForCreate, TypeOK, managerVars, workerVars, sessionVars, clientVars
<1>6. ASSUME Create(s) PROVE TypeOK'
  <2>1. Cur(s) \in Call BY <1>1, <1>6 DEF Create, At
  <2> DEFINE r == Cur(s).room
             w == CHOOSE v \in Worker : wstate[v] = "unborn"
  <2>2. r \in Room BY <2>1 DEF Call
  <2>3. CASE /\ roomTable[r] # NoWorker
             /\ target' = [target EXCEPT ![s] = roomTable[r]]
             /\ phase'  = [phase EXCEPT ![s] = "send"]
             /\ UNCHANGED <<managerVars, workerVars, todo, reply, sessionVars, clientVars>>
    BY <1>6, <2>2, <2>3
    DEF Create, Recheck, TypeOK, managerVars, workerVars, sessionVars, clientVars
  <2>4. CASE JoinFailed(s) /\ UNCHANGED <<managerVars, workerVars>>
    BY <1>6, <2>4 DEF Create, JoinFailed, TypeOK, managerVars, workerVars
  <2>5. CASE /\ Unborn # {}
             /\ roomTable'   = [roomTable EXCEPT ![r] = w]
             /\ wstate'      = [wstate EXCEPT ![w] = "running"]
             /\ wroom'       = [wroom EXCEPT ![w] = r]
             /\ credentials' = [credentials EXCEPT ![w] = RequiredPIN(Cur(s).cred)]
             /\ target'      = [target EXCEPT ![s] = w]
             /\ phase'       = [phase EXCEPT ![s] = "send"]
             /\ UNCHANGED <<users, todo, reply, sessionVars, clientVars>>
    <3>1. w \in Worker BY <2>5 DEF Unborn
    <3>2. RequiredPIN(Cur(s).cred) \in PIN \cup {NoCredentials} BY DEF RequiredPIN
    <3> HIDE DEF w, r
    <3> QED BY <1>6, <2>2, <2>5, <3>1, <3>2 DEF Create, Recheck, TypeOK, sessionVars, clientVars
  <2> QED BY <1>6, <2>3, <2>4, <2>5 DEF Create, Recheck
<1>7. ASSUME Send(s) PROVE TypeOK'
  <2>1. todo[s] # <<>> /\ Cur(s) \in Call BY <1>1, <1>7 DEF Send, At
  <2> DEFINE job == [op |-> Cur(s).op, from |-> s, cred |-> Cur(s).cred]
  <2>2. job \in Job BY <2>1 DEF Job, Call
  <2>3. workers' \in [Worker -> Seq(Job)]
    <3>1. workers' = [workers EXCEPT ![target[s]] = Append(@, job)] \/ workers' = workers
      BY <1>7 DEF Send
    <3> HIDE DEF job
    <3>2. \A v \in Worker : Append(workers[v], job) \in Seq(Job)
      <4> TAKE v \in Worker
      <4>1. workers[v] \in Seq(Job) BY DEF TypeOK
      <4> QED BY <2>2, <4>1, AppendFacts
    <3>3. workers \in [Worker -> Seq(Job)] BY DEF TypeOK
    <3>4. CASE workers' = workers BY <3>3, <3>4
    <3>5. CASE workers' = [workers EXCEPT ![target[s]] = Append(@, job)]
      BY <3>2, <3>3, <3>5
    <3> QED BY <3>1, <3>4, <3>5
  <2>4. CASE Cur(s).op \in Answered
    BY <1>7, <2>3, <2>4 DEF Send, TypeOK, managerVars, workerVars, sessionVars, clientVars
  <2>5. CASE Cur(s).op \notin Answered
    BY <1>7, <2>1, <2>3, <2>5, AdvancePlainTypes DEF Send, TypeOK, managerVars, workerVars
  <2> QED BY <2>4, <2>5
<1>8. ASSUME SendPanics(s) PROVE TypeOK'
  BY <1>8 DEF SendPanics, TypeOK, managerVars, workerVars, sessionVars, clientVars
<1>9. ASSUME Await(s) PROVE TypeOK'
  <2>1. todo[s] # <<>> /\ reply[s] \in Reply BY <1>9 DEF Await, At, TypeOK
  <2> QED BY <1>9, <2>1, AnswerTypes DEF Await
<1> QED BY <1>2, <1>3, <1>4, <1>5, <1>6, <1>7, <1>8, <1>9 DEF CallStep

\* Every step of a worker keeps the types.
LEMMA WorkerStepTypes ==
    ASSUME TypeOK, NEW w \in Worker, WorkerStep(w)
    PROVE  TypeOK'
<1>1. ASSUME workers[w] # <<>>, Finish(w) PROVE workers' \in [Worker -> Seq(Job)]
  BY <1>1, HeadJob DEF Finish, TypeOK
<1>2. ASSUME workers[w] # <<>>, NEW ok \in BOOLEAN, NEW us \in SUBSET Session,
             Result(w, ok, us)
      PROVE  reply' \in [Session -> Reply \cup {NoReply}]
  BY <1>2, HeadJob DEF Result, TypeOK, Reply, Job
<1>3. ASSUME RunJoin(w) PROVE TypeOK'
  <2>1. Accepts(w, Job1(w).cred) \in BOOLEAN BY DEF Accepts
  <2>2. reply' \in [Session -> Reply \cup {NoReply}]
    BY <1>2, <1>3, <2>1 DEF RunJoin, Runs
  <2>3. users' \in [Worker -> SUBSET Session]
    <3>1. Job1(w).from \in Session BY <1>3, HeadJob DEF RunJoin, Runs, Job
    <3>2. users' = [users EXCEPT ![w] = @ \cup {Job1(w).from}] \/ users' = users
      BY <1>3 DEF RunJoin
    <3>3. users \in [Worker -> SUBSET Session] BY DEF TypeOK
    <3>4. CASE users' = [users EXCEPT ![w] = @ \cup {Job1(w).from}]
      BY <3>1, <3>3, <3>4
    <3> QED BY <3>2, <3>3, <3>4
  <2> QED
    BY <1>1, <1>3, <2>2, <2>3
    DEF RunJoin, Runs, TypeOK, managerVars, workerVars, sessionVars, clientVars
<1>4. ASSUME RunLeave(w) PROVE TypeOK'
  BY <1>1, <1>4 DEF RunLeave, Runs, TypeOK, managerVars, workerVars, sessionVars, clientVars
<1>5. ASSUME RunUpdate(w) PROVE TypeOK'
  <2>1. reply' \in [Session -> Reply \cup {NoReply}]
    BY <1>2, <1>5 DEF RunUpdate, Runs
  <2>2. credentials' \in [Worker -> PIN \cup {NoCredentials}]
    BY <1>5 DEF RunUpdate, TypeOK, RequiredPIN
  <2> QED
    BY <1>1, <1>5, <2>1, <2>2
    DEF RunUpdate, Runs, TypeOK, managerVars, workerVars, sessionVars, clientVars
<1>6. ASSUME RunUsers(w) PROVE TypeOK'
  <2>1. reply' \in [Session -> Reply \cup {NoReply}]
    BY <1>2, <1>6 DEF RunUsers, Runs, TypeOK
  <2> QED
    BY <1>1, <1>6, <2>1
    DEF RunUsers, Runs, TypeOK, managerVars, workerVars, sessionVars, clientVars
<1>7. ASSUME RunBroadcast(w) PROVE TypeOK'
  <2>1. Job1(w).from \in Session BY <1>7, HeadJob DEF RunBroadcast, Runs, Job
  <2>2. buddies' \in [Session -> SUBSET Session]
    BY <1>7, <2>1 DEF RunBroadcast, TypeOK
  <2> QED
    BY <1>1, <1>7, <2>2
    DEF RunBroadcast, Runs, TypeOK, managerVars, workerVars, sessionVars
<1>8. ASSUME Expire(w) \/ CloseWorkers(w) \/ Cleanup(w) PROVE TypeOK'
  BY <1>8
  DEF Expire, CloseWorkers, Cleanup, TypeOK, workerVars, sessionVars, clientVars
<1> QED BY <1>3, <1>4, <1>5, <1>6, <1>7, <1>8 DEF WorkerStep, RunJob

\* The state always has the shape its declarations give it: Rooms.tla as a whole.
THEOREM TypeCorrect == Spec => []TypeOK
<1>1. Init => TypeOK
  BY DEF Init, TypeOK
<1>2. TypeOK /\ [Next]_vars => TypeOK'
  <2> SUFFICES ASSUME TypeOK, [Next]_vars PROVE TypeOK'
    OBVIOUS
  <2>1. CASE UNCHANGED vars BY <2>1 DEF TypeOK, vars
  <2> QED BY <2>1, MessageTypes, CallStepTypes, WorkerStepTypes DEF Next
<1> QED BY <1>1, <1>2, PTL DEF Spec

-----------------------------------------------------------------------------
(* The inductive invariant: the steps of a handler. *)

\* Only the handler of s moves.
OnlySession(s) == \A t \in Session \ {s} :
    /\ todo'[t] = todo[t] /\ phase'[t] = phase[t]
    /\ target'[t] = target[t] /\ reply'[t] = reply[t]
    /\ Hello'[t] = Hello[t] /\ Roomid'[t] = Roomid[t]
    /\ disconnected'[t] = disconnected[t]

\* The parts of the invariant about the other sessions survive a step of s that
\* leaves the rooms alone; what is left to show is about s.
LEMMA HandlerFrame ==
    ASSUME IInv, TypeOK', NEW s \in Session,
           UNCHANGED <<roomTable, wstate, wroom, users, workers>>, OnlySession(s),
           phase[s] = "await" => reply[s] # NoReply,
           CallOK(s)', TodoOK(s)', ReplyOK(s)', HelloOK(s)'
    PROVE  IInv'
<1>1. TableInv'
  BY DEF IInv, TableInv, Alive
<1>2. ASSUME NEW t \in Session, t # s
      PROVE  CallOK(t)' /\ TodoOK(t)' /\ ReplyOK(t)' /\ HelloOK(t)'
  <2>1. CallOK(t) /\ TodoOK(t) /\ ReplyOK(t) /\ HelloOK(t)
    BY <1>2 DEF IInv, CallInv, TodoInv, ReplyInv, HelloInv
  <2>2. /\ todo'[t] = todo[t] /\ phase'[t] = phase[t]
        /\ target'[t] = target[t] /\ reply'[t] = reply[t]
        /\ Hello'[t] = Hello[t] /\ Roomid'[t] = Roomid[t]
        /\ disconnected'[t] = disconnected[t]
    BY <1>2 DEF OnlySession
  <2>3. CallOK(t)' BY <2>1, <2>2 DEF CallOK, Cur
  <2>4. TodoOK(t)' BY <2>1, <2>2 DEF TodoOK
  <2>5. ReplyOK(t)' BY <2>1, <2>2 DEF ReplyOK, Cur, Member, LeaveQueued
  <2>6. HelloOK(t)' BY <2>1, <2>2 DEF HelloOK, Leaving, Member, LeaveQueued
  <2> QED BY <2>3, <2>4, <2>5, <2>6
<1>3. QueueInv'
  <2> SUFFICES ASSUME NEW w \in Worker, NEW i \in 1..Len(workers[w])
               PROVE  QueueOK(w, i)'
    BY DEF QueueInv
  <2> DEFINE t == workers[w][i].from
  <2>1. QueueOK(w, i) BY DEF IInv, QueueInv
  <2>2. CASE workers[w][i].op \in Answered
    <3>1. t \in Session
      <4>1. workers[w] \in Seq(Job) BY DEF IInv, TypeOK
      <4>2. workers[w][i] \in Job BY <4>1
      <4> QED BY <4>2 DEF Job
    <3>2. phase[t] = "await" /\ reply[t] = NoReply
      BY <2>1, <2>2 DEF QueueOK
    <3>3. t # s BY <3>2
    <3>4. todo'[t] = todo[t] /\ phase'[t] = phase[t] /\ target'[t] = target[t]
          /\ reply'[t] = reply[t]
      BY <3>1, <3>3 DEF OnlySession
    <3> QED BY <2>1, <2>2, <3>4 DEF QueueOK, Cur
  <2>3. CASE workers[w][i].op \notin Answered
    BY <2>3 DEF QueueOK
  <2> QED BY <2>2, <2>3
<1>4. CallInv' /\ TodoInv' /\ ReplyInv' /\ HelloInv'
  BY <1>2 DEF CallInv, TodoInv, ReplyInv, HelloInv
<1> QED BY <1>1, <1>3, <1>4 DEF IInv

\* The head of a handler's calls.
LEMMA CurFacts ==
    ASSUME TypeOK, NEW s \in Session, todo[s] # <<>>
    PROVE  /\ Cur(s) \in Call /\ Cur(s) = todo[s][1] /\ 1 \in 1..Len(todo[s])
           /\ todo[s] \in Seq(Call)
<1>1. todo[s] \in Seq(Call) BY DEF TypeOK
<1> QED BY <1>1, TailFacts DEF Cur

\* Advance moves s alone, and leaves what Begin and JoinRoom established.
LEMMA AdvanceFacts ==
    ASSUME IInv, NEW s \in Session, todo[s] # <<>>, Advance(s),
           disconnected' = disconnected
    PROVE  /\ CallOK(s)' /\ TodoOK(s)' /\ ReplyOK(s)'
           /\ \A t \in Session \ {s} :
                  /\ todo'[t] = todo[t] /\ phase'[t] = phase[t]
                  /\ target'[t] = target[t] /\ reply'[t] = reply[t]
           /\ Cur(s).op # "Left" => (Leaving(s) <=> Leaving(s)')
<1> DEFINE q == todo[s]
<1>1. q \in Seq(Call) /\ q # <<>> BY DEF IInv, TypeOK
<1>2. /\ todo'[s] = Tail(q)
      /\ phase'[s] = IF Len(q) = 1 THEN "idle" ELSE "get"
      /\ reply'[s] = NoReply
  BY DEF IInv, TypeOK, Advance
<1>3. /\ Len(q) \in Nat /\ Len(q) >= 1 /\ Len(Tail(q)) = Len(q) - 1
      /\ Tail(q) = <<>> <=> Len(q) = 1
      /\ Head(q) = q[1]
      /\ \A i \in 1..Len(Tail(q)) : i + 1 \in 1..Len(q) /\ Tail(q)[i] = q[i + 1]
  BY <1>1, TailFacts
<1>4. CallOK(s)' BY <1>2, <1>3 DEF CallOK
<1>5. TodoOK(s)'
  <2> SUFFICES ASSUME NEW i \in 1..Len(Tail(q))
               PROVE  /\ q[i + 1].op = "leave" =>
                          \/ disconnected[s]
                          \/ i + 1 \in 1..Len(Tail(q)) /\ q[i + 2].op = "Left"
                      /\ q[i + 1].op # "update"
    BY <1>2, <1>3 DEF TodoOK
  <2>1. i + 1 \in 1..Len(q) /\ i + 1 # 1 /\ (i + 1) + 1 = i + 2 BY <1>3
  <2>2. TodoOK(s) BY DEF IInv, TodoInv
  <2>3. q[i + 1].op = "leave" =>
            disconnected[s] \/ (i + 2 \in 1..Len(q) /\ q[i + 2].op = "Left")
    BY <2>1, <2>2 DEF TodoOK
  <2>4. q[i + 1].op # "update" BY <2>1, <2>2 DEF TodoOK
  <2>5. i + 2 \in 1..Len(q) => i + 1 \in 1..Len(Tail(q)) BY <1>3
  <2> QED BY <2>3, <2>4, <2>5
<1>6. ReplyOK(s)' BY <1>2 DEF ReplyOK
<1>7. ASSUME Cur(s).op # "Left" PROVE Leaving(s) <=> Leaving(s)'
  <2>1. q[1].op # "Left" BY <1>3, <1>7 DEF Cur
  <2>2. ASSUME Leaving(s) PROVE Leaving(s)'
    <3>1. PICK i \in 1..Len(q) : q[i].op = "Left" BY <2>2 DEF Leaving
    <3>2. i - 1 \in 1..Len(Tail(q)) /\ (i - 1) + 1 = i BY <1>3, <2>1, <3>1
    <3>3. Tail(q)[i - 1].op = "Left" BY <1>3, <3>1, <3>2
    <3> QED BY <1>2, <3>2, <3>3 DEF Leaving
  <2>3. ASSUME Leaving(s)' PROVE Leaving(s)
    <3>1. PICK i \in 1..Len(Tail(q)) : Tail(q)[i].op = "Left" BY <1>2, <2>3 DEF Leaving
    <3> QED BY <1>3, <3>1 DEF Leaving
  <2> QED BY <2>2, <2>3
<1>8. \A t \in Session \ {s} :
          /\ todo'[t] = todo[t] /\ phase'[t] = phase[t]
          /\ target'[t] = target[t] /\ reply'[t] = reply[t]
  BY DEF IInv, TypeOK, Advance
<1> QED BY <1>4, <1>5, <1>6, <1>7, <1>8

\* JoinFailed moves s alone and leaves it in no room.
LEMMA JoinFailedFacts ==
    ASSUME IInv, NEW s \in Session, JoinFailed(s)
    PROVE  /\ CallOK(s)' /\ TodoOK(s)' /\ ReplyOK(s)' /\ HelloOK(s)'
           /\ OnlySession(s)
<1>1. /\ todo'[s] = <<>> /\ phase'[s] = "idle" /\ reply'[s] = NoReply /\ ~Hello'[s]
  BY DEF IInv, TypeOK, JoinFailed
<1>2. OnlySession(s) BY DEF IInv, TypeOK, JoinFailed, OnlySession
<1>3. TodoOK(s)' BY <1>1 DEF TodoOK
<1> QED BY <1>1, <1>2, <1>3 DEF CallOK, ReplyOK, HelloOK

\* A call without an answer is over: s is in a room after it only if it was before,
\* and the call was not part of leaving.
LEMMA AdvancePlainFacts ==
    ASSUME IInv, NEW s \in Session, todo[s] # <<>>, AdvancePlain(s)
    PROVE  /\ CallOK(s)' /\ TodoOK(s)' /\ ReplyOK(s)' /\ OnlySession(s)
           /\ Roomid' = Roomid /\ disconnected' = disconnected
           /\ Hello'[s] /\ ~disconnected[s] /\ ~Leaving(s)' =>
                  Hello[s] /\ ~Leaving(s) /\ Cur(s).op # "leave"
<1>1. /\ Advance(s) /\ Roomid' = Roomid /\ disconnected' = disconnected
      /\ Hello' = [Hello EXCEPT ![s] = @ /\ (Cur(s).op # "Left" \/ disconnected[s])]
  BY DEF AdvancePlain
<1>2. /\ CallOK(s)' /\ TodoOK(s)' /\ ReplyOK(s)'
      /\ \A t \in Session \ {s} :
             /\ todo'[t] = todo[t] /\ phase'[t] = phase[t]
             /\ target'[t] = target[t] /\ reply'[t] = reply[t]
      /\ Cur(s).op # "Left" => (Leaving(s) <=> Leaving(s)')
  BY <1>1, AdvanceFacts
<1>3. Hello \in [Session -> BOOLEAN] BY DEF IInv, TypeOK
<1>4. OnlySession(s) BY <1>1, <1>2, <1>3 DEF OnlySession
<1>5. ASSUME Hello'[s], ~disconnected[s], ~Leaving(s)'
      PROVE  Hello[s] /\ ~Leaving(s) /\ Cur(s).op # "leave"
  <2>1. Hello[s] /\ Cur(s).op # "Left" BY <1>1, <1>3, <1>5
  <2>2. ~Leaving(s) BY <1>2, <1>5, <2>1
  <2>3. ASSUME Cur(s).op = "leave" PROVE FALSE
    <3>1. TodoOK(s) BY DEF IInv, TodoInv
    <3>2. Cur(s) = todo[s][1] /\ 1 \in 1..Len(todo[s]) BY CurFacts DEF IInv
    <3>3. 1 + 1 \in 1..Len(todo[s]) /\ todo[s][1 + 1].op = "Left"
      BY <1>5, <2>3, <3>1, <3>2 DEF TodoOK
    <3> QED BY <2>2, <3>3 DEF Leaving
  <2> QED BY <2>1, <2>2, <2>3
<1> QED BY <1>1, <1>2, <1>4, <1>5

\* An answer preserves the invariant; that of a join that succeeded must come from
\* the worker.
LEMMA AnswerInv ==
    ASSUME IInv, TypeOK', NEW s \in Session, todo[s] # <<>>, NEW rep, Answer(s, rep),
           UNCHANGED <<managerVars, workerVars, workers>>,
           phase[s] = "await" => reply[s] # NoReply,
           Cur(s).op = "join" => phase[s] = "await" /\ rep = reply[s]
    PROVE  IInv'
<1>1. UNCHANGED <<roomTable, wstate, wroom, users, workers>>
  BY DEF managerVars, workerVars
<1>2. CASE /\ Cur(s).op = "join" /\ rep.ok
           /\ Advance(s)
           /\ Hello'  = [Hello EXCEPT ![s] = TRUE]
           /\ Roomid' = [Roomid EXCEPT ![s] = Cur(s).room]
           /\ UNCHANGED <<disconnected, sent, clientVars>>
  <2>1. /\ CallOK(s)' /\ TodoOK(s)' /\ ReplyOK(s)'
        /\ \A t \in Session \ {s} :
               /\ todo'[t] = todo[t] /\ phase'[t] = phase[t]
               /\ target'[t] = target[t] /\ reply'[t] = reply[t]
    BY <1>2, AdvanceFacts
  <2>2. OnlySession(s) BY <1>2, <2>1 DEF OnlySession, IInv, TypeOK
  <2>3. phase[s] = "await" /\ reply[s].ok /\ reply[s] # NoReply BY <1>2
  <2>4. Member(s, target[s]) BY <1>2, <2>3 DEF IInv, ReplyInv, ReplyOK
  <2>5. target[s] \in Worker /\ wroom[target[s]] = Cur(s).room
    BY <2>3 DEF IInv, CallInv, CallOK
  <2>6. Cur(s).room \in Room /\ roomTable[Cur(s).room] = target[s]
    BY <2>4, <2>5 DEF IInv, TableInv, Alive, Member
  <2>7. Roomid'[s] = Cur(s).room BY <1>2 DEF IInv, TypeOK
  <2>8. HelloOK(s)'
    BY <1>1, <2>4, <2>5, <2>6, <2>7 DEF HelloOK, Member, LeaveQueued
  <2> QED BY <1>1, <2>1, <2>2, <2>8, HandlerFrame
<1>3. CASE JoinFailed(s)
  BY <1>1, <1>3, JoinFailedFacts, HandlerFrame
<1>4. CASE /\ Cur(s).op \in {"welcome", "users", "update"}
           /\ Advance(s)
           /\ UNCHANGED sessionVars
  <2>1. UNCHANGED <<Hello, Roomid, disconnected>> BY <1>4 DEF sessionVars
  <2>2. /\ CallOK(s)' /\ TodoOK(s)' /\ ReplyOK(s)'
        /\ \A t \in Session \ {s} :
               /\ todo'[t] = todo[t] /\ phase'[t] = phase[t]
               /\ target'[t] = target[t] /\ reply'[t] = reply[t]
        /\ Leaving(s) <=> Leaving(s)'
    BY <1>4, <2>1, AdvanceFacts
  <2>3. OnlySession(s) BY <2>1, <2>2 DEF OnlySession
  <2>4. HelloOK(s) BY DEF IInv, HelloInv
  <2>5. HelloOK(s)' BY <1>1, <2>1, <2>2, <2>4 DEF HelloOK, Member, LeaveQueued
  <2> QED BY <1>1, <2>2, <2>3, <2>5, HandlerFrame
<1> QED BY <1>2, <1>3, <1>4 DEF Answer

\* The steps that end a call without touching a channel.
LEMMA GetMissingInv ==
    ASSUME IInv, TypeOK', NEW s \in Session, GetMissing(s) PROVE IInv'
<1>1. todo[s] # <<>> /\ phase[s] # "await" /\ Cur(s).op # "join"
  BY DEF GetMissing, At
<1>2. UNCHANGED <<managerVars, workerVars, workers>> BY DEF GetMissing
<1>3. CASE Answer(s, Ok) BY <1>1, <1>2, <1>3, AnswerInv
<1>4. CASE AdvancePlain(s)
  <2>1. /\ CallOK(s)' /\ TodoOK(s)' /\ ReplyOK(s)' /\ OnlySession(s)
        /\ Roomid' = Roomid /\ disconnected' = disconnected
        /\ Hello'[s] /\ ~disconnected[s] /\ ~Leaving(s)' => Hello[s] /\ ~Leaving(s)
    BY <1>1, <1>4, AdvancePlainFacts
  <2>2. UNCHANGED <<roomTable, wstate, wroom, users, workers>>
    BY <1>2 DEF managerVars, workerVars
  <2>3. HelloOK(s) BY DEF IInv, HelloInv
  <2>4. HelloOK(s)' BY <2>1, <2>2, <2>3 DEF HelloOK, Member, LeaveQueued
  <2> QED BY <1>1, <2>1, <2>2, <2>4, HandlerFrame
<1> QED BY <1>3, <1>4 DEF GetMissing

LEMMA AwaitInv ==
    ASSUME IInv, TypeOK', NEW s \in Session, Await(s) PROVE IInv'
BY AnswerInv DEF Await, At

\* A step that only looks something up moves the phase and the target of s.
LEMMA PhaseInv ==
    ASSUME IInv, TypeOK', NEW s \in Session, todo[s] # <<>>, phase[s] # "await",
           NEW p \in {"send", "create", "panicked"},
           phase' = [phase EXCEPT ![s] = p],
           p = "send" =>
               /\ roomTable[Cur(s).room] # NoWorker
               /\ target' = [target EXCEPT ![s] = roomTable[Cur(s).room]],
           p # "send" => target' = target,
           p = "create" => Cur(s).op = "join",
           UNCHANGED <<roomTable, wstate, wroom, users, workers, todo, reply, Hello,
                       Roomid, disconnected>>
    PROVE  IInv'
<1>1. OnlySession(s) BY DEF OnlySession, IInv, TypeOK
<1>2. phase'[s] = p BY DEF IInv, TypeOK
<1>3. CallOK(s) /\ TodoOK(s) /\ HelloOK(s)
  BY DEF IInv, CallInv, TodoInv, HelloInv
<1>4. ASSUME p = "send"
      PROVE  target'[s] \in Worker /\ wstate[target'[s]] # "unborn" /\ wroom[target'[s]] = Cur(s).room
  <2>1. Cur(s).room \in Room BY CurFacts DEF IInv, Call
  <2>2. roomTable[Cur(s).room] \in Worker BY <1>4, <2>1 DEF IInv, TypeOK
  <2>3. Alive(roomTable[Cur(s).room]) /\ wroom[roomTable[Cur(s).room]] = Cur(s).room
    BY <1>4, <2>1 DEF IInv, TableInv
  <2>4. target'[s] = roomTable[Cur(s).room] BY <1>4 DEF IInv, TypeOK
  <2> QED BY <2>2, <2>3, <2>4 DEF Alive
<1>5. CallOK(s)' BY <1>2, <1>3, <1>4 DEF CallOK, Cur
<1>6. TodoOK(s)' BY <1>3 DEF TodoOK
<1>7. ReplyOK(s)' BY <1>2 DEF ReplyOK
<1>8. HelloOK(s)' BY <1>3 DEF HelloOK, Leaving, Member, LeaveQueued
<1> QED BY <1>1, <1>5, <1>6, <1>7, <1>8, HandlerFrame

\* A worker that comes into being changes nothing for anybody else.
LEMMA NewWorkerInv ==
    ASSUME IInv, TypeOK', NEW s \in Session, todo[s] # <<>>, phase[s] = "create",
           NEW w \in Worker, wstate[w] = "unborn",
           roomTable[Cur(s).room] = NoWorker,
           roomTable' = [roomTable EXCEPT ![Cur(s).room] = w],
           wstate'    = [wstate EXCEPT ![w] = "running"],
           wroom'     = [wroom EXCEPT ![w] = Cur(s).room],
           target'    = [target EXCEPT ![s] = w],
           phase'     = [phase EXCEPT ![s] = "send"],
           UNCHANGED <<users, workers, todo, reply, Hello, Roomid, disconnected>>
    PROVE  IInv'
<1> DEFINE r == Cur(s).room
<1>1. r \in Room BY CurFacts DEF IInv, Call
<1>2. /\ roomTable \in [Room -> Worker \cup {NoWorker}]
      /\ wroom \in [Worker -> Room \cup {NoRoom}]
      /\ wstate \in [Worker -> {"unborn", "running", "stopping", "closed", "gone"}]
  BY DEF IInv, TypeOK
<1>3. /\ roomTable'[r] = w /\ wstate'[w] = "running" /\ wroom'[w] = r
      /\ \A x \in Room \ {r} : roomTable'[x] = roomTable[x]
      /\ \A v \in Worker \ {w} : wstate'[v] = wstate[v] /\ wroom'[v] = wroom[v]
  BY <1>1, <1>2
<1>4. TableInv BY DEF IInv
<1>5. TableInv'
  <2>1. ASSUME NEW x \in Room, roomTable'[x] # NoWorker
        PROVE  /\ wstate'[roomTable'[x]] \in {"running", "stopping", "closed"}
               /\ wroom'[roomTable'[x]] = x
    <3>1. CASE x = r BY <1>3, <3>1
    <3>2. CASE x # r
      <4>1. /\ roomTable'[x] = roomTable[x] /\ roomTable[x] \in Worker
            /\ Alive(roomTable[x]) /\ wroom[roomTable[x]] = x
        BY <1>2, <1>3, <1>4, <2>1, <3>2 DEF TableInv
      <4>2. roomTable[x] \in Worker \ {w} BY <4>1 DEF Alive
      <4>3. /\ wstate'[roomTable[x]] = wstate[roomTable[x]]
            /\ wroom'[roomTable[x]] = wroom[roomTable[x]]
        BY <1>3, <4>2
      <4> QED BY <4>1, <4>3 DEF Alive
    <3> QED BY <3>1, <3>2
  <2>2. ASSUME NEW v \in Worker, wstate'[v] \in {"running", "stopping", "closed"}
        PROVE  wroom'[v] \in Room /\ roomTable'[wroom'[v]] = v
    <3>1. CASE v = w BY <1>1, <1>3, <3>1
    <3>2. CASE v # w
      <4>1. Alive(v) /\ wroom'[v] = wroom[v] BY <1>3, <2>2, <3>2 DEF Alive
      <4>2. wroom[v] \in Room /\ roomTable[wroom[v]] = v BY <1>4, <4>1 DEF TableInv
      <4>3. wroom[v] # r BY <4>2, ConstantsAssumption
      <4> QED BY <1>3, <4>1, <4>2, <4>3
    <3> QED BY <3>1, <3>2
  <2>3. (/\ \A v \in Worker : wstate[v] # "running" => users[v] = {}
         /\ \A v \in Worker : wstate[v] = "unborn" => workers[v] = <<>>)'
    BY <1>3, <1>4 DEF TableInv
  <2>4. (\A x \in Room : roomTable[x] # NoWorker =>
            Alive(roomTable[x]) /\ wroom[roomTable[x]] = x)'
    BY <2>1 DEF Alive
  <2>5. (\A v \in Worker : Alive(v) => wroom[v] \in Room /\ roomTable[wroom[v]] = v)'
    BY <2>2 DEF Alive
  <2> QED BY <2>3, <2>4, <2>5 DEF TableInv, Alive
<1>6. QueueInv'
  <2>1. ASSUME NEW v \in Worker, NEW i \in 1..Len(workers[v]), workers[v][i].op \in Answered
        PROVE  /\ phase'[workers[v][i].from] = phase[workers[v][i].from]
               /\ target'[workers[v][i].from] = target[workers[v][i].from]
    <3>1. phase[workers[v][i].from] = "await" BY <2>1 DEF IInv, QueueInv, QueueOK
    <3>2. workers[v][i].from # s BY <3>1
    <3> QED BY <3>2 DEF IInv, TypeOK
  <2> QED BY <2>1 DEF IInv, QueueInv, QueueOK, Cur
<1>7. ASSUME NEW t \in Session PROVE CallOK(t)' /\ TodoOK(t)' /\ ReplyOK(t)' /\ HelloOK(t)'
  <2>1. CallOK(t) /\ TodoOK(t) /\ ReplyOK(t) /\ HelloOK(t)
    BY DEF IInv, CallInv, TodoInv, ReplyInv, HelloInv
  <2>2. TodoOK(t)' BY <2>1 DEF TodoOK
  <2>3. HelloOK(t)'
    <3>1. SUFFICES ASSUME Hello[t], ~disconnected[t], ~Leaving(t)
                   PROVE  HelloOK(t)'
      BY DEF HelloOK, Leaving
    <3>2. /\ Roomid[t] \in Room /\ roomTable[Roomid[t]] \in Worker
          /\ Member(t, roomTable[Roomid[t]])
      BY <2>1, <3>1 DEF HelloOK
    <3>3. Roomid[t] # r /\ roomTable[Roomid[t]] # w
      BY <3>2, ConstantsAssumption DEF Member
    <3> QED BY <1>3, <3>2, <3>3 DEF HelloOK, Member, LeaveQueued
  <2>4. CASE t = s
    <3>1. phase'[s] = "send" /\ target'[s] = w BY DEF IInv, TypeOK
    <3>2. CallOK(s)' BY <1>3, <2>1, <2>4, <3>1 DEF CallOK, Cur
    <3>3. ReplyOK(s)' BY <3>1 DEF ReplyOK
    <3> QED BY <2>2, <2>3, <2>4, <3>2, <3>3
  <2>5. CASE t # s
    <3>1. phase'[t] = phase[t] /\ target'[t] = target[t] BY <2>5 DEF IInv, TypeOK
    <3>2. phase[t] \in {"send", "await"} => target[t] \in Worker /\ target[t] # w
      BY <2>1 DEF CallOK
    <3>3. CallOK(t)' BY <1>3, <2>1, <3>1, <3>2 DEF CallOK, Cur
    <3>4. ReplyOK(t)' BY <1>3, <2>1, <3>1, <3>2 DEF ReplyOK, Cur, Member, LeaveQueued
    <3> QED BY <2>2, <2>3, <3>3, <3>4
  <2> QED BY <2>4, <2>5
<1> QED BY <1>5, <1>6, <1>7 DEF IInv, CallInv, TodoInv, ReplyInv, HelloInv

LEMMA CreateInv ==
    ASSUME IInv, TypeOK', NEW s \in Session, Create(s) PROVE IInv'
<1>1. todo[s] # <<>> /\ phase[s] = "create" /\ workers' = workers BY DEF Create, At
<1>2. CASE /\ roomTable[Cur(s).room] # NoWorker
           /\ target' = [target EXCEPT ![s] = roomTable[Cur(s).room]]
           /\ phase'  = [phase EXCEPT ![s] = "send"]
           /\ UNCHANGED <<managerVars, workerVars, todo, reply, sessionVars, clientVars>>
  BY <1>1, <1>2, PhaseInv DEF managerVars, workerVars, sessionVars
<1>3. CASE JoinFailed(s) /\ UNCHANGED <<managerVars, workerVars>>
  BY <1>1, <1>3, JoinFailedFacts, HandlerFrame DEF managerVars, workerVars
<1>4. CASE /\ Unborn # {} /\ roomTable[Cur(s).room] = NoWorker
           /\ LET w == CHOOSE v \in Worker : wstate[v] = "unborn" IN
              /\ roomTable'   = [roomTable EXCEPT ![Cur(s).room] = w]
              /\ wstate'      = [wstate EXCEPT ![w] = "running"]
              /\ wroom'       = [wroom EXCEPT ![w] = Cur(s).room]
              /\ target'      = [target EXCEPT ![s] = w]
           /\ phase' = [phase EXCEPT ![s] = "send"]
           /\ UNCHANGED <<users, todo, reply, sessionVars, clientVars>>
  <2> DEFINE w == CHOOSE v \in Worker : wstate[v] = "unborn"
  <2>1. w \in Worker /\ wstate[w] = "unborn" BY <1>4 DEF Unborn
  <2>2. /\ roomTable' = [roomTable EXCEPT ![Cur(s).room] = w]
        /\ wstate'    = [wstate EXCEPT ![w] = "running"]
        /\ wroom'     = [wroom EXCEPT ![w] = Cur(s).room]
        /\ target'    = [target EXCEPT ![s] = w]
        /\ UNCHANGED <<Hello, Roomid, disconnected>>
    BY <1>4 DEF sessionVars
  <2> HIDE DEF w
  <2> QED BY <1>1, <1>4, <2>1, <2>2, NewWorkerInv
<1> QED BY <1>2, <1>3, <1>4 DEF Create, Recheck

\* A job that is sent comes after all others of its channel.
LEMMA SendInv ==
    ASSUME IInv, TypeOK', NEW s \in Session, Send(s) PROVE IInv'
<1> DEFINE w   == target[s]
           job == [op |-> Cur(s).op, from |-> s, cred |-> Cur(s).cred]
<1>1. todo[s] # <<>> /\ phase[s] = "send" /\ UNCHANGED <<roomTable, wstate, wroom, users>>
  BY DEF Send, At, managerVars, workerVars
<1>2. CallOK(s) /\ TodoOK(s) /\ ReplyOK(s) /\ HelloOK(s)
  BY DEF IInv, CallInv, TodoInv, ReplyInv, HelloInv
<1>3. w \in Worker /\ wstate[w] # "unborn" /\ wroom[w] = Cur(s).room /\ reply[s] = NoReply
  BY <1>1, <1>2 DEF CallOK
<1>4. workers' = [workers EXCEPT ![w] = Append(@, job)] \/ workers' = workers
  BY DEF Send
<1>5. /\ workers \in [Worker -> Seq(Job)] /\ job \in Job /\ job.from = s
      /\ job.op = Cur(s).op /\ job.cred = Cur(s).cred
  BY <1>1, CurFacts DEF IInv, TypeOK, Call, Job
<1> HIDE DEF job
<1>6. ASSUME NEW v \in Worker, NEW i \in 1..Len(workers'[v])
      PROVE  \/ i \in 1..Len(workers[v]) /\ workers'[v][i] = workers[v][i]
             \/ v = w /\ workers'[v][i] = job /\ i = Len(workers'[v])
  <2>1. CASE workers' = workers BY <2>1
  <2>2. CASE workers' = [workers EXCEPT ![w] = Append(@, job)]
    <3>1. CASE v # w BY <1>5, <2>2, <3>1
    <3>2. CASE v = w
      <4>1. workers'[v] = Append(workers[w], job) BY <1>3, <1>5, <2>2, <3>2
      <4>2. workers[w] \in Seq(Job) BY <1>3, <1>5
      <4> QED BY <1>5, <3>2, <4>1, <4>2, AppendFacts
    <3> QED BY <3>1, <3>2
  <2> QED BY <1>4, <2>1, <2>2
<1>7. /\ OnlySession(s) /\ CallOK(s)' /\ TodoOK(s)' /\ ReplyOK(s)'
      /\ Roomid' = Roomid /\ disconnected' = disconnected
      /\ Hello'[s] /\ ~disconnected[s] /\ ~Leaving(s)' =>
             Hello[s] /\ ~Leaving(s) /\ Cur(s).op # "leave"
      /\ Cur(s).op \in Answered =>
             /\ phase'[s] = "await" /\ target'[s] = w /\ reply'[s] = NoReply
             /\ todo'[s] = todo[s]
  <2>1. CASE Cur(s).op \in Answered
    <3>1. /\ phase' = [phase EXCEPT ![s] = "await"]
          /\ UNCHANGED <<todo, target, reply, Hello, Roomid, disconnected>>
      BY <2>1 DEF Send, sessionVars
    <3>2. phase'[s] = "await" BY <3>1 DEF IInv, TypeOK
    <3>3. OnlySession(s) BY <3>1 DEF OnlySession, IInv, TypeOK
    <3>4. CallOK(s)' BY <1>1, <1>2, <1>3, <2>1, <3>1, <3>2 DEF CallOK, Cur
    <3>5. TodoOK(s)' BY <1>2, <3>1 DEF TodoOK
    <3>6. ReplyOK(s)' BY <1>3, <3>1 DEF ReplyOK
    <3>7. Leaving(s)' <=> Leaving(s) BY <3>1 DEF Leaving
    <3>8. Cur(s).op # "leave" BY <2>1 DEF Answered
    <3> QED BY <1>3, <3>1, <3>2, <3>3, <3>4, <3>5, <3>6, <3>7, <3>8
  <2>2. CASE Cur(s).op \notin Answered
    BY <1>1, <2>2, AdvancePlainFacts DEF Send
  <2> QED BY <2>1, <2>2
<1>8. TableInv'
  <2>1. \A v \in Worker : wstate[v] = "unborn" => workers'[v] = workers[v]
    BY <1>3, <1>4, <1>5
  <2> QED BY <1>1, <2>1 DEF IInv, TableInv, Alive
<1>9. QueueInv'
  <2> SUFFICES ASSUME NEW v \in Worker, NEW i \in 1..Len(workers'[v]),
                      workers'[v][i].op \in Answered
               PROVE  QueueOK(v, i)'
    BY DEF QueueInv, QueueOK
  <2>1. CASE v = w /\ workers'[v][i] = job /\ i = Len(workers'[v])
    <3>1. Cur(s)' = Cur(s) BY <1>5, <1>7, <2>1 DEF Cur
    <3>2. ~ \E k \in 1..Len(workers'[v]) : k > i BY <2>1
    <3> QED BY <1>5, <1>7, <2>1, <3>1, <3>2 DEF QueueOK
  <2>2. CASE i \in 1..Len(workers[v]) /\ workers'[v][i] = workers[v][i]
    <3> DEFINE t == workers[v][i].from
    <3>1. QueueOK(v, i) BY <2>2 DEF IInv, QueueInv
    <3>2. workers[v][i].op \in Answered BY <2>2
    <3>3. /\ phase[t] = "await" /\ target[t] = v /\ reply[t] = NoReply
          /\ Cur(t).op = workers[v][i].op /\ Cur(t).cred = workers[v][i].cred
          /\ \A k \in 1..Len(workers[v]) : k > i => workers[v][k].from # t
      BY <3>1, <3>2 DEF QueueOK
    <3>4. t \in Session /\ t # s
      <4>1. workers[v] \in Seq(Job) BY <1>5
      <4>2. workers[v][i] \in Job BY <2>2, <4>1
      <4> QED BY <1>1, <3>3, <4>2 DEF Job
    <3>5. todo'[t] = todo[t] /\ phase'[t] = phase[t] /\ target'[t] = target[t]
          /\ reply'[t] = reply[t]
      BY <1>7, <3>4 DEF OnlySession
    <3>6. ASSUME NEW k \in 1..Len(workers'[v]), k > i PROVE workers'[v][k].from # t
      BY <1>5, <1>6, <3>3, <3>4, <3>6
    <3> QED BY <2>2, <3>3, <3>5, <3>6 DEF QueueOK, Cur
  <2> QED BY <1>6, <2>1, <2>2
<1>10. ASSUME NEW t \in Session, NEW v \in Worker, LeaveQueued(t, v)'
       PROVE  LeaveQueued(t, v) \/ (t = s /\ Cur(s).op = "leave")
  BY <1>5, <1>6, <1>10 DEF LeaveQueued
<1>11. HelloOK(s)'
  BY <1>1, <1>2, <1>7, <1>10 DEF HelloOK, Member
<1>12. ASSUME NEW t \in Session, t # s
       PROVE  CallOK(t)' /\ TodoOK(t)' /\ ReplyOK(t)' /\ HelloOK(t)'
  <2>1. CallOK(t) /\ TodoOK(t) /\ ReplyOK(t) /\ HelloOK(t)
    BY DEF IInv, CallInv, TodoInv, ReplyInv, HelloInv
  <2>2. /\ todo'[t] = todo[t] /\ phase'[t] = phase[t]
        /\ target'[t] = target[t] /\ reply'[t] = reply[t]
        /\ Hello'[t] = Hello[t] /\ Roomid'[t] = Roomid[t]
        /\ disconnected'[t] = disconnected[t]
    BY <1>7, <1>12 DEF OnlySession
  <2>3. CallOK(t)' BY <1>1, <2>1, <2>2 DEF CallOK, Cur
  <2>4. TodoOK(t)' BY <2>1, <2>2 DEF TodoOK
  <2>5. ReplyOK(t)'
    BY <1>1, <1>10, <1>12, <2>1, <2>2 DEF ReplyOK, CallOK, Cur, Member
  <2>6. HelloOK(t)'
    BY <1>1, <1>10, <1>12, <2>1, <2>2 DEF HelloOK, Leaving, Member
  <2> QED BY <2>3, <2>4, <2>5, <2>6
<1> QED
  BY <1>7, <1>8, <1>9, <1>11, <1>12
  DEF IInv, CallInv, TodoInv, ReplyInv, HelloInv

\* The lookups and the panic only move the handler of s.
LEMMA LookupInv ==
    ASSUME IInv, TypeOK', NEW s \in Session, GetFound(s) \/ GetForCreate(s) \/ SendPanics(s)
    PROVE  IInv'
<1>1. CASE GetFound(s)
  BY <1>1, PhaseInv DEF GetFound, At, managerVars, workerVars, sessionVars
<1>2. CASE GetForCreate(s)
  BY <1>2, PhaseInv DEF GetForCreate, At, managerVars, workerVars, sessionVars
<1>3. CASE SendPanics(s)
  BY <1>3, PhaseInv DEF SendPanics, At, managerVars, workerVars, sessionVars
<1> QED BY <1>1, <1>2, <1>3

LEMMA GetRefusedInv ==
    ASSUME IInv, TypeOK', NEW s \in Session, GetRefused(s) PROVE IInv'
<1>1. phase[s] # "await" /\ JoinFailed(s) /\ UNCHANGED <<managerVars, workerVars, workers>>
  BY DEF GetRefused, At
<1> QED BY <1>1, JoinFailedFacts, HandlerFrame DEF managerVars, workerVars

LEMMA CallStepInv ==
    ASSUME IInv, TypeOK', NEW s \in Session, CallStep(s) PROVE IInv'
BY LookupInv, GetMissingInv, GetRefusedInv, CreateInv, SendInv, AwaitInv DEF CallStep

-----------------------------------------------------------------------------
(* The inductive invariant: the messages of a connection. *)

\* A handler that begins: an idle session is not leaving, so it is in its room.
LEMMA BeginInv ==
    ASSUME IInv, TypeOK', NEW s \in Session, Reads(s),
           NEW cs \in Seq(Call), cs # <<>>, Begin(s, cs),
           \A t \in Session \ {s} : disconnected'[t] = disconnected[t],
           \A i \in 1..Len(cs) :
               /\ cs[i].op = "leave" =>
                      disconnected'[s] \/ (i + 1 \in 1..Len(cs) /\ cs[i + 1].op = "Left")
               /\ cs[i].op = "update" =>
                      /\ i = 1 /\ Len(cs) = 2 /\ cs[2].op = "Notify"
                      /\ Hello[s] /\ ~disconnected'[s] /\ cs[1].room = Roomid[s]
    PROVE  IInv'
<1>1. /\ UNCHANGED <<roomTable, wstate, wroom, users, workers, target, reply, Hello, Roomid>>
      /\ phase[s] = "idle" /\ ~disconnected[s]
      /\ todo' = [todo EXCEPT ![s] = cs] /\ phase' = [phase EXCEPT ![s] = "get"]
  BY DEF Begin, Reads, managerVars, workerVars
<1>2. todo'[s] = cs /\ phase'[s] = "get" BY <1>1 DEF IInv, TypeOK
<1>3. OnlySession(s) BY <1>1 DEF OnlySession, IInv, TypeOK
<1>4. CallOK(s) /\ HelloOK(s) BY DEF IInv, CallInv, HelloInv
<1>5. todo[s] = <<>> /\ reply[s] = NoReply BY <1>1, <1>4 DEF CallOK
<1>6. ~Leaving(s) BY <1>5 DEF Leaving
<1>7. CallOK(s)' BY <1>1, <1>2, <1>5 DEF CallOK
<1>8. TodoOK(s)' BY <1>1, <1>2 DEF TodoOK
<1>9. ReplyOK(s)' BY <1>2 DEF ReplyOK
<1>10. HelloOK(s)' BY <1>1, <1>4, <1>6 DEF HelloOK, Member, LeaveQueued
<1> QED BY <1>1, <1>3, <1>7, <1>8, <1>9, <1>10, HandlerFrame

\* The same for the messages of a client.
LEMMA ReceiveInv ==
    ASSUME IInv, TypeOK', NEW s \in Session, NEW cs \in Seq(Call), cs # <<>>, Receive(s, cs),
           \A i \in 1..Len(cs) :
               /\ cs[i].op = "leave" => i + 1 \in 1..Len(cs) /\ cs[i + 1].op = "Left"
               /\ cs[i].op = "update" =>
                      /\ i = 1 /\ Len(cs) = 2 /\ cs[2].op = "Notify"
                      /\ Hello[s] /\ cs[1].room = Roomid[s]
    PROVE  IInv'
<1>1. Reads(s) /\ ~disconnected[s] /\ Begin(s, cs) /\ disconnected' = disconnected
  BY DEF Receive, Reads
<1> QED BY <1>1, BeginInv

\* Two calls, then three more.
LEMMA ConcatFacts ==
    ASSUME NEW S, NEW l \in Seq(S), NEW j \in Seq(S)
    PROVE  Len(l) = 2 /\ Len(j) = 3 =>
               /\ l \o j \in Seq(S) /\ Len(l \o j) = 5
               /\ (l \o j)[1] = l[1] /\ (l \o j)[2] = l[2]
               /\ (l \o j)[3] = j[1] /\ (l \o j)[4] = j[2] /\ (l \o j)[5] = j[3]
<1> DEFINE cs == l \o j
<1>1. /\ cs \in Seq(S) /\ Len(cs) = Len(l) + Len(j)
      /\ \A i \in 1..Len(l) : cs[i] = l[i]
      /\ \A i \in 1..Len(j) : cs[Len(l) + i] = j[i]
  OBVIOUS
<1> HIDE DEF cs
<1> SUFFICES ASSUME Len(l) = 2, Len(j) = 3
             PROVE  /\ cs \in Seq(S) /\ Len(cs) = 5
                    /\ cs[1] = l[1] /\ cs[2] = l[2]
                    /\ cs[3] = j[1] /\ cs[4] = j[2] /\ cs[5] = j[3]
  BY Zenon DEF cs
<1>2. Len(cs) = 5 BY <1>1
<1>3. cs[1] = l[1] /\ cs[2] = l[2] BY <1>1
<1>4. cs[2 + 1] = j[1] /\ cs[2 + 2] = j[2] /\ cs[2 + 3] = j[3] BY <1>1
<1> QED BY <1>1, <1>2, <1>3, <1>4

\* What the calls of a handler are, when it leaves one room for another.
LEMMA LeaveThenJoin ==
    ASSUME NEW cs \in Seq(Call), Len(cs) = 5, cs[1].op = "leave", cs[2].op = "Left",
           cs[3].op = "join", cs[4].op = "Joined", cs[5].op = "welcome"
    PROVE  \A i \in 1..Len(cs) :
                /\ cs[i].op = "leave" => i + 1 \in 1..Len(cs) /\ cs[i + 1].op = "Left"
                /\ cs[i].op # "update"
<1> SUFFICES ASSUME NEW i \in 1..Len(cs)
             PROVE  /\ cs[i].op = "leave" => i + 1 \in 1..Len(cs) /\ cs[i + 1].op = "Left"
                    /\ cs[i].op # "update"
  OBVIOUS
<1>1. i \in {1, 2, 3, 4, 5} OBVIOUS
<1>2. CASE i = 1
  <2>1. 1 + 1 = 2 /\ 2 \in 1..Len(cs) OBVIOUS
  <2> QED BY <1>2, <2>1
<1>3. CASE i # 1 BY <1>1, <1>3
<1> QED BY <1>2, <1>3

\* Hello: leave the room of before, if it is another one, and join.
LEMMA HandleHelloInv ==
    ASSUME IInv, TypeOK', NEW s \in Session, NEW r \in Room, NEW c \in Credentials,
           HandleHello(s, r, c)
    PROVE  IInv'
<1> DEFINE j == JoinCalls(r, c)
           l == LeaveCalls(s)
<1>1. j \in Seq(Call) /\ (Hello[s] => l \in Seq(Call)) BY CallTypes DEF IInv
<1>2. /\ Len(j) = 3 /\ j[1].op = "join" /\ j[2].op = "Joined" /\ j[3].op = "welcome"
  BY DEF JoinCalls, Plain, NewCall
<1>3. /\ Len(l) = 2 /\ l[1].op = "leave" /\ l[2].op = "Left"
  BY DEF LeaveCalls, Plain, NewCall
<1> HIDE DEF j, l
<1>4. CASE Hello[s] /\ Roomid[s] # r
  <2> DEFINE cs == l \o j
  <2>1. /\ cs \in Seq(Call) /\ cs # <<>>
        /\ Len(cs) = 5 /\ cs[1] = l[1] /\ cs[2] = l[2]
        /\ cs[3] = j[1] /\ cs[4] = j[2] /\ cs[5] = j[3]
    <3>1. Len(l) = 2 /\ Len(j) = 3 =>
              /\ cs \in Seq(Call) /\ Len(cs) = 5
              /\ cs[1] = l[1] /\ cs[2] = l[2]
              /\ cs[3] = j[1] /\ cs[4] = j[2] /\ cs[5] = j[3]
      BY <1>1, <1>4, ConcatFacts
    <3> HIDE DEF cs
    <3>2. Len(l) = 2 /\ Len(j) = 3 BY <1>2, <1>3
    <3>3. cs \in Seq(Call) /\ Len(cs) = 5 BY <3>1, <3>2, Zenon
    <3>4. cs # <<>>
      <4>1. Len(cs) # 0 BY <3>3
      <4> QED BY <3>3, <4>1, EmptyFacts, Zenon
    <3> QED BY <3>1, <3>2, <3>4, Zenon
  <2>2. Receive(s, cs) BY <1>4 DEF HandleHello, LeavesFirst, j, l
  <2> HIDE DEF cs
  <2>3. \A i \in 1..Len(cs) :
            /\ cs[i].op = "leave" => i + 1 \in 1..Len(cs) /\ cs[i + 1].op = "Left"
            /\ cs[i].op # "update"
    BY <1>2, <1>3, <2>1, LeaveThenJoin
  <2> QED BY <2>1, <2>2, <2>3, ReceiveInv
<1>5. CASE ~(Hello[s] /\ Roomid[s] # r)
  <2>1. <<>> \o j = j BY <1>1
  <2>2. Receive(s, j) BY <1>5, <2>1 DEF HandleHello, LeavesFirst, j, l
  <2>3. ASSUME NEW i \in 1..Len(j) PROVE j[i].op # "leave" /\ j[i].op # "update"
    <3>1. i \in {1, 2, 3} BY <1>2
    <3> QED BY <1>2, <3>1
  <2>4. j # <<>> BY <1>2
  <2> QED BY <1>1, <2>2, <2>3, <2>4, ReceiveInv
<1> QED BY <1>4, <1>5

LEMMA MessageInv ==
    ASSUME IInv, TypeOK', NEW s \in Session, Message(s) PROVE IInv'
<1>1. ASSUME HandleLeave(s) PROVE IInv'
  <2> DEFINE cs == LeaveCalls(s)
  <2>1. cs \in Seq(Call) BY <1>1, CallTypes DEF HandleLeave, IInv
  <2>2. Len(cs) = 2 /\ cs[1].op = "leave" /\ cs[2].op = "Left"
    BY DEF LeaveCalls, Plain, NewCall
  <2>3. Receive(s, cs) BY <1>1 DEF HandleLeave
  <2> HIDE DEF cs
  <2>4. ASSUME NEW i \in 1..Len(cs)
        PROVE  /\ cs[i].op = "leave" => i + 1 \in 1..Len(cs) /\ cs[i + 1].op = "Left"
               /\ cs[i].op # "update"
    <3>1. i \in {1, 2} BY <2>2
    <3> QED BY <2>2, <3>1
  <2>5. cs # <<>> BY <2>2
  <2> QED BY <2>1, <2>3, <2>4, <2>5, ReceiveInv
<1>2. ASSUME HandleUsers(s) \/ HandleChat(s) PROVE IInv'
  <2>1. PICK op \in {"users", "Notify"} : Receive(s, <<Plain(op, Roomid[s])>>) /\ Hello[s]
    BY <1>2 DEF HandleUsers, HandleChat
  <2> DEFINE cs == <<Plain(op, Roomid[s])>>
  <2>2. op \in Op /\ op # "leave" /\ op # "update" BY DEF Op, Answered, Broadcasts
  <2>3. cs \in Seq(Call) BY <2>1, <2>2, CallTypes DEF IInv
  <2>4. Len(cs) = 1 /\ cs[1].op = op BY DEF Plain, NewCall
  <2>5. Receive(s, cs) BY <2>1
  <2> HIDE DEF cs
  <2>6. ASSUME NEW i \in 1..Len(cs) PROVE cs[i].op # "leave" /\ cs[i].op # "update"
    <3>1. i = 1 BY <2>4
    <3> QED BY <2>2, <2>4, <3>1
  <2>7. cs # <<>> BY <2>4
  <2> QED BY <2>3, <2>5, <2>6, <2>7, ReceiveInv
<1>3. ASSUME NEW c \in Credentials, HandleRoom(s, c) PROVE IInv'
  <2> DEFINE cs == <<NewCall("update", Roomid[s], c), Plain("Notify", Roomid[s])>>
  <2>1. "update" \in Op /\ "Notify" \in Op BY DEF Op, Answered, Broadcasts
  <2>2. Hello[s] /\ Receive(s, cs) BY <1>3 DEF HandleRoom, MayUpdate
  <2>3. cs \in Seq(Call) BY <2>1, <2>2, CallTypes DEF IInv
  <2>4. /\ Len(cs) = 2 /\ cs[1].op = "update" /\ cs[1].room = Roomid[s] /\ cs[2].op = "Notify"
    BY DEF Plain, NewCall
  <2> HIDE DEF cs
  <2>5. ASSUME NEW i \in 1..Len(cs) PROVE cs[i].op # "leave" /\ (cs[i].op = "update" => i = 1)
    <3>1. i = 1 \/ i = 2 BY <2>4
    <3>2. CASE i = 1 BY <2>4, <3>2
    <3>3. CASE i = 2 BY <2>4, <3>3
    <3> QED BY <3>1, <3>2, <3>3
  <2>6. Len(cs) # 0 BY <2>4
  <2>7. cs # <<>> BY <2>6
  <2> QED BY <2>2, <2>3, <2>4, <2>5, <2>7, ReceiveInv
<1>4. ASSUME Close(s) PROVE IInv'
  <2>1. /\ Reads(s) /\ disconnected' = [disconnected EXCEPT ![s] = TRUE]
    BY <1>4 DEF Close
  <2>2. disconnected'[s] /\ \A t \in Session \ {s} : disconnected'[t] = disconnected[t]
    BY <2>1 DEF IInv, TypeOK
  <2>3. CASE Hello[s]
    <3> DEFINE cs == <<Plain("Left", Roomid[s]), Plain("leave", Roomid[s])>>
    <3>1. "Left" \in Op /\ "leave" \in Op BY DEF Op, Broadcasts
    <3>2. cs \in Seq(Call) BY <2>3, <3>1, CallTypes DEF IInv
    <3>3. Len(cs) = 2 /\ cs[1].op = "Left" /\ cs[2].op = "leave" BY DEF Plain, NewCall
    <3>4. Begin(s, cs) BY <1>4, <2>3 DEF Close, CloseCalls
    <3> HIDE DEF cs
    <3>5. ASSUME NEW i \in 1..Len(cs) PROVE cs[i].op # "update"
      <4>1. i \in {1, 2} BY <3>3
      <4> QED BY <3>3, <4>1
    <3>6. cs # <<>> BY <3>3
    <3> QED BY <2>1, <2>2, <3>2, <3>4, <3>5, <3>6, BeginInv
  <2>4. CASE ~Hello[s]
    <3>1. UNCHANGED <<roomTable, wstate, wroom, users, workers, todo, phase, target, reply,
                      Hello, Roomid>>
      BY <1>4, <2>4 DEF Close, managerVars, workerVars
    <3>2. OnlySession(s) BY <2>2, <3>1 DEF OnlySession
    <3>3. CallOK(s) BY DEF IInv, CallInv
    <3>4. phase[s] = "idle" /\ todo[s] = <<>> BY <2>1, <3>3 DEF Reads, CallOK
    <3>5. CallOK(s)' BY <3>1, <3>3 DEF CallOK, Cur
    <3>6. TodoOK(s)' /\ ReplyOK(s)' /\ HelloOK(s)'
      BY <2>2, <3>1, <3>4 DEF TodoOK, ReplyOK, HelloOK
    <3> QED BY <3>1, <3>2, <3>4, <3>5, <3>6, HandlerFrame
  <2> QED BY <2>3, <2>4
<1> QED BY <1>1, <1>2, <1>3, <1>4, HandleHelloInv DEF Message

-----------------------------------------------------------------------------
(* The inductive invariant: the steps of a worker. *)

\* A worker that has run its first job: nobody but the sender of that job gets an
\* answer, and nobody but who asked to leave is taken out of the room.
LEMMA RunInv ==
    ASSUME IInv, TypeOK', NEW w \in Worker, wstate[w] = "running", workers[w] # <<>>, Finish(w),
           UNCHANGED <<roomTable, wstate, wroom, todo, phase, target, Hello, Roomid, disconnected>>,
           \A v \in Worker \ {w} : users'[v] = users[v],
           \A t \in users[w] : t \in users'[w] \/ (Job1(w).op = "leave" /\ t = Job1(w).from),
           \A t \in Session : reply'[t] # reply[t] =>
               /\ t = Job1(w).from /\ Job1(w).op \in Answered
               /\ Job1(w).op = "join" /\ reply'[t].ok => t \in users'[w]
    PROVE  IInv'
<1> DEFINE q == workers[w]
<1>1. /\ workers \in [Worker -> Seq(Job)] /\ q \in Seq(Job)
      /\ \A v \in Worker : workers[v] \in Seq(Job)
  BY DEF IInv, TypeOK
<1>2. /\ Len(q) \in Nat /\ Len(q) >= 1 /\ Len(Tail(q)) = Len(q) - 1
      /\ Head(q) = q[1] /\ q[1] \in Job
      /\ \A i \in 1..Len(Tail(q)) : i + 1 \in 1..Len(q) /\ Tail(q)[i] = q[i + 1]
  BY <1>1, TailFacts
<1>3. Job1(w) = q[1] /\ 1 \in 1..Len(q) BY <1>2 DEF Job1
<1>4. /\ workers'[w] = Tail(q)
      /\ \A v \in Worker \ {w} : workers'[v] = workers[v]
  BY <1>1 DEF Finish
<1>5. ASSUME Job1(w).op \in Answered
      PROVE  LET s == Job1(w).from IN
             /\ phase[s] = "await" /\ target[s] = w /\ Cur(s).op = Job1(w).op
             /\ \A k \in 1..Len(q) : k > 1 => q[k].from # s
  <2>1. QueueOK(w, 1) BY <1>3 DEF IInv, QueueInv
  <2> QED BY <1>3, <1>5, <2>1 DEF QueueOK
<1>6. ASSUME NEW t \in Session, NEW v \in Worker, LeaveQueued(t, v)'
      PROVE  LeaveQueued(t, v)
  <2>1. CASE v = w
    <3>1. PICK i \in 1..Len(Tail(q)) : Tail(q)[i].op = "leave" /\ Tail(q)[i].from = t
      BY <1>4, <1>6, <2>1 DEF LeaveQueued
    <3>2. i + 1 \in 1..Len(q) /\ q[i + 1].op = "leave" /\ q[i + 1].from = t
      BY <1>2, <3>1
    <3> QED BY <2>1, <3>2 DEF LeaveQueued
  <2>2. CASE v # w BY <1>4, <1>6, <2>2 DEF LeaveQueued
  <2> QED BY <2>1, <2>2
<1>7. ASSUME NEW t \in Session, NEW v \in Worker, Member(t, v)
      PROVE  Member(t, v)'
  <2>1. wstate'[v] = "running" /\ ~LeaveQueued(t, v) /\ ~LeaveQueued(t, v)'
    BY <1>6, <1>7 DEF Member
  <2>2. CASE v # w BY <1>7, <2>1, <2>2 DEF Member
  <2>3. CASE v = w
    <3>1. ~(Job1(w).op = "leave" /\ t = Job1(w).from)
      BY <1>3, <2>1, <2>3 DEF LeaveQueued
    <3>2. t \in users'[w] BY <1>7, <2>3, <3>1 DEF Member
    <3> QED BY <2>1, <2>3, <3>2 DEF Member
  <2> QED BY <2>2, <2>3
<1>8. TableInv'
  <2>1. (/\ \A r \in Room : roomTable[r] # NoWorker =>
                Alive(roomTable[r]) /\ wroom[roomTable[r]] = r
         /\ \A v \in Worker : Alive(v) => wroom[v] \in Room /\ roomTable[wroom[v]] = v)'
    BY DEF IInv, TableInv, Alive
  <2>2. (/\ \A v \in Worker : wstate[v] # "running" => users[v] = {}
         /\ \A v \in Worker : wstate[v] = "unborn" => workers[v] = <<>>)'
    BY <1>4 DEF IInv, TableInv
  <2> QED BY <2>1, <2>2 DEF TableInv
<1>9. ASSUME NEW v \in Worker, NEW i \in 1..Len(workers'[v]) PROVE QueueOK(v, i)'
  <2> DEFINE t == workers'[v][i].from
  <2> SUFFICES ASSUME workers'[v][i].op \in Answered
               PROVE  /\ phase[t] = "await" /\ target[t] = v /\ reply'[t] = NoReply
                      /\ Cur(t).op = workers'[v][i].op /\ Cur(t).cred = workers'[v][i].cred
                      /\ \A k \in 1..Len(workers'[v]) : k > i => workers'[v][k].from # t
    BY DEF QueueOK, Cur
  <2>1. CASE v # w
    <3>1. workers'[v] = workers[v] BY <1>4, <2>1
    <3>2. QueueOK(v, i) BY <3>1 DEF IInv, QueueInv
    <3>3. /\ phase[t] = "await" /\ target[t] = v /\ reply[t] = NoReply
          /\ Cur(t).op = workers'[v][i].op /\ Cur(t).cred = workers'[v][i].cred
          /\ \A k \in 1..Len(workers'[v]) : k > i => workers'[v][k].from # t
      BY <3>1, <3>2 DEF QueueOK
    <3>4. t \in Session
      <4>1. workers[v][i] \in Job BY <1>1, <3>1
      <4> QED BY <3>1, <4>1 DEF Job
    <3>5. reply'[t] = reply[t] BY <1>5, <2>1, <3>3, <3>4
    <3> QED BY <3>3, <3>5
  <2>2. CASE v = w
    <3>1. i \in 1..Len(Tail(q)) /\ workers'[v] = Tail(q) BY <1>4, <2>2
    <3>2. i + 1 \in 1..Len(q) /\ workers'[v][i] = q[i + 1] BY <1>2, <3>1
    <3>3. QueueOK(w, i + 1) BY <3>2 DEF IInv, QueueInv
    <3>4. /\ phase[t] = "await" /\ target[t] = w /\ reply[t] = NoReply
          /\ Cur(t).op = workers'[v][i].op /\ Cur(t).cred = workers'[v][i].cred
          /\ \A k \in 1..Len(q) : k > i + 1 => q[k].from # t
      BY <3>2, <3>3 DEF QueueOK
    <3>5. ASSUME NEW k \in 1..Len(workers'[v]), k > i PROVE workers'[v][k].from # t
      <4>1. k + 1 \in 1..Len(q) /\ k + 1 > i + 1 /\ workers'[v][k] = q[k + 1]
        BY <1>2, <3>1, <3>5
      <4> QED BY <3>4, <4>1
    <3>6. t \in Session
      <4>1. q[i + 1] \in Job BY <1>1, <3>2
      <4> QED BY <3>2, <4>1 DEF Job
    <3>7. Job1(w).op \in Answered => t # Job1(w).from
      <4>1. i + 1 > 1 BY <3>1
      <4> QED BY <1>5, <3>2, <4>1
    <3>8. reply'[t] = reply[t] BY <3>6, <3>7
    <3> QED BY <2>2, <3>4, <3>5, <3>8
  <2> QED BY <2>1, <2>2
<1>10. ASSUME NEW t \in Session PROVE CallOK(t)' /\ TodoOK(t)' /\ ReplyOK(t)' /\ HelloOK(t)'
  <2>1. CallOK(t) /\ TodoOK(t) /\ ReplyOK(t) /\ HelloOK(t)
    BY DEF IInv, CallInv, TodoInv, ReplyInv, HelloInv
  <2>2. CallOK(t)'
    <3>1. phase[t] # "await" => reply'[t] = NoReply BY <1>5, <2>1 DEF CallOK
    <3> QED BY <2>1, <3>1 DEF CallOK, Cur
  <2>3. TodoOK(t)' BY <2>1 DEF TodoOK
  <2>4. HelloOK(t)' BY <1>7, <2>1 DEF HelloOK, Leaving
  <2>5. ReplyOK(t)'
    <3> SUFFICES ASSUME phase[t] = "await", Cur(t).op = "join", reply'[t] # NoReply, reply'[t].ok
                 PROVE  Member(t, target[t])'
      BY DEF ReplyOK, Cur
    <3>1. target[t] \in Worker BY <2>1 DEF CallOK
    <3>2. CASE reply'[t] = reply[t]
      BY <1>7, <2>1, <3>1, <3>2 DEF ReplyOK
    <3>3. CASE reply'[t] # reply[t]
      <4>1. /\ t = Job1(w).from /\ Job1(w).op \in Answered /\ target[t] = w
            /\ Job1(w).op = "join"
            /\ \A k \in 1..Len(q) : k > 1 => q[k].from # t
        BY <1>5, <3>3
      <4>2. t \in users'[w] BY <3>3, <4>1
      <4>3. ~LeaveQueued(t, w)'
        <5> SUFFICES ASSUME NEW i \in 1..Len(Tail(q)) PROVE Tail(q)[i].from # t
          BY <1>4 DEF LeaveQueued
        <5>1. i + 1 \in 1..Len(q) /\ i + 1 > 1 /\ Tail(q)[i] = q[i + 1] BY <1>2
        <5> QED BY <4>1, <5>1
      <4> QED BY <4>1, <4>2, <4>3 DEF Member
    <3> QED BY <3>2, <3>3
  <2> QED BY <2>2, <2>3, <2>4, <2>5
<1> QED BY <1>8, <1>9, <1>10 DEF IInv, CallInv, TodoInv, QueueInv, ReplyInv, HelloInv

LEMMA RunJobInv ==
    ASSUME IInv, TypeOK', NEW w \in Worker, RunJob(w) PROVE IInv'
<1>1. users \in [Worker -> SUBSET Session] /\ reply \in [Session -> Reply \cup {NoReply}]
  BY DEF IInv, TypeOK
<1>2. ASSUME NEW ok, NEW us, Result(w, ok, us), NEW t \in Session, reply'[t] # reply[t]
      PROVE  t = Job1(w).from /\ reply'[t] = [ok |-> ok, users |-> us]
  BY <1>1, <1>2 DEF Result
<1>3. CASE RunJoin(w)
  <2> DEFINE ok == Accepts(w, Job1(w).cred)
  <2>1. /\ users' = IF ok THEN [users EXCEPT ![w] = @ \cup {Job1(w).from}] ELSE users
        /\ Result(w, ok, {})
    BY <1>3 DEF RunJoin
  <2>2. /\ wstate[w] = "running" /\ workers[w] # <<>> /\ Finish(w) /\ Job1(w).op = "join"
        /\ UNCHANGED <<roomTable, wstate, wroom, todo, phase, target, Hello, Roomid, disconnected>>
    BY <1>3 DEF RunJoin, Runs, managerVars, sessionVars
  <2> HIDE DEF ok
  <2>3. /\ \A v \in Worker \ {w} : users'[v] = users[v]
        /\ \A t \in users[w] : t \in users'[w]
        /\ ok => Job1(w).from \in users'[w]
    BY <1>1, <2>1
  <2>4. ASSUME NEW t \in Session, reply'[t] # reply[t]
        PROVE  /\ t = Job1(w).from /\ Job1(w).op \in Answered
               /\ reply'[t].ok => t \in users'[w]
    <3>1. t = Job1(w).from /\ reply'[t] = [ok |-> ok, users |-> {}] BY <1>2, <2>1, <2>4
    <3>2. Job1(w).op \in Answered BY <2>2 DEF Answered
    <3> QED BY <2>3, <3>1, <3>2
  <2> QED BY <2>2, <2>3, <2>4, RunInv
<1>4. CASE RunLeave(w)
  <2>1. /\ wstate[w] = "running" /\ workers[w] # <<>> /\ Finish(w) /\ Job1(w).op = "leave"
        /\ users' = [users EXCEPT ![w] = @ \ {Job1(w).from}]
        /\ UNCHANGED <<roomTable, wstate, wroom, todo, phase, target, reply, Hello, Roomid,
                       disconnected>>
    BY <1>4 DEF RunLeave, Runs, managerVars, sessionVars
  <2>2. /\ \A v \in Worker \ {w} : users'[v] = users[v]
        /\ \A t \in users[w] : t \in users'[w] \/ t = Job1(w).from
    BY <1>1, <2>1
  <2> QED BY <2>1, <2>2, RunInv
<1>5. CASE RunUpdate(w) \/ RunUsers(w)
  <2>1. /\ wstate[w] = "running" /\ workers[w] # <<>> /\ Finish(w) /\ users' = users
        /\ Job1(w).op \in {"update", "welcome", "users"}
        /\ UNCHANGED <<roomTable, wstate, wroom, todo, phase, target, Hello, Roomid, disconnected>>
    BY <1>5 DEF RunUpdate, RunUsers, Runs, managerVars, workerVars, sessionVars
  <2>2. PICK us : Result(w, TRUE, us)
    BY <1>5 DEF RunUpdate, RunUsers
  <2>3. ASSUME NEW t \in Session, reply'[t] # reply[t]
        PROVE  t = Job1(w).from /\ Job1(w).op \in Answered /\ Job1(w).op # "join"
    BY <1>2, <2>1, <2>2, <2>3 DEF Answered
  <2> QED BY <2>1, <2>3, RunInv
<1>6. CASE RunBroadcast(w)
  <2>1. /\ wstate[w] = "running" /\ workers[w] # <<>> /\ Finish(w) /\ users' = users
        /\ UNCHANGED <<roomTable, wstate, wroom, todo, phase, target, reply, Hello, Roomid,
                       disconnected>>
    BY <1>6 DEF RunBroadcast, Runs, managerVars, workerVars, sessionVars
  <2> QED BY <2>1, RunInv
<1> QED BY <1>3, <1>4, <1>5, <1>6 DEF RunJob

\* The end of a worker concerns no session that is a member of a room.
LEMMA WorkerEndInv ==
    ASSUME IInv, TypeOK', NEW w \in Worker, wstate[w] # "unborn", users[w] = {},
           NEW x \in {"stopping", "closed", "gone"}, wstate' = [wstate EXCEPT ![w] = x],
           \A r \in Room : roomTable[r] # w => roomTable'[r] = roomTable[r],
           UNCHANGED <<wroom, users, workers, todo, phase, target, reply, Hello, Roomid,
                       disconnected>>,
           TableInv'
    PROVE  IInv'
<1>1. wstate'[w] = x /\ \A v \in Worker \ {w} : wstate'[v] = wstate[v]
  BY DEF IInv, TypeOK
<1>2. ASSUME NEW t \in Session, NEW v \in Worker, Member(t, v)
      PROVE  v # w /\ Member(t, v)'
  <2>1. v # w BY <1>2 DEF Member
  <2> QED BY <1>1, <1>2, <2>1 DEF Member, LeaveQueued
<1>3. ASSUME NEW t \in Session PROVE CallOK(t)' /\ TodoOK(t)' /\ ReplyOK(t)' /\ HelloOK(t)'
  <2>1. CallOK(t) /\ TodoOK(t) /\ ReplyOK(t) /\ HelloOK(t)
    BY DEF IInv, CallInv, TodoInv, ReplyInv, HelloInv
  <2>2. CallOK(t)' BY <1>1, <2>1 DEF CallOK, Cur
  <2>3. TodoOK(t)' BY <2>1 DEF TodoOK
  <2>4. ReplyOK(t)'
    <3> SUFFICES ASSUME phase[t] = "await", Cur(t).op = "join", reply[t] # NoReply, reply[t].ok
                 PROVE  Member(t, target[t])'
      BY DEF ReplyOK, Cur
    <3>1. PICK v \in Worker : v = target[t] /\ Member(t, v) BY <2>1 DEF ReplyOK, CallOK
    <3>2. Member(t, v)' BY <1>2, <3>1
    <3>3. target'[t] = v BY <3>1
    <3> QED BY <3>2, <3>3 DEF Member, LeaveQueued
  <2>5. HelloOK(t)'
    <3> SUFFICES ASSUME Hello[t], ~disconnected[t], ~Leaving(t)
                 PROVE  HelloOK(t)'
      BY DEF HelloOK, Leaving
    <3>1. /\ Roomid[t] \in Room /\ roomTable[Roomid[t]] \in Worker
          /\ Member(t, roomTable[Roomid[t]])
      BY <2>1 DEF HelloOK
    <3>2. roomTable[Roomid[t]] # w BY <1>2, <3>1
    <3>3. roomTable'[Roomid[t]] = roomTable[Roomid[t]] BY <3>1, <3>2
    <3>4. wstate'[roomTable[Roomid[t]]] = "running" BY <1>1, <3>1, <3>2 DEF Member
    <3> QED BY <3>1, <3>3, <3>4 DEF HelloOK, Member, LeaveQueued
  <2> QED BY <2>2, <2>3, <2>4, <2>5
<1>4. QueueInv' BY DEF IInv, QueueInv, QueueOK, Cur
<1> QED BY <1>3, <1>4 DEF IInv, CallInv, TodoInv, ReplyInv, HelloInv

LEMMA ExpireInv ==
    ASSUME IInv, TypeOK', NEW w \in Worker, Expire(w) \/ CloseWorkers(w) \/ Cleanup(w)
    PROVE  IInv'
<1>1. TableInv /\ wstate \in [Worker -> {"unborn", "running", "stopping", "closed", "gone"}]
      /\ roomTable \in [Room -> Worker \cup {NoWorker}]
  BY DEF IInv, TypeOK
<1>2. CASE Expire(w) \/ CloseWorkers(w)
  <2>1. PICK x \in {"stopping", "closed"} : wstate' = [wstate EXCEPT ![w] = x]
    BY <1>2 DEF Expire, CloseWorkers
  <2>2. /\ Alive(w) /\ users[w] = {}
        /\ UNCHANGED <<roomTable, wroom, users, workers, todo, phase, target, reply, Hello,
                       Roomid, disconnected>>
    BY <1>1, <1>2 DEF Expire, NotInUse, CloseWorkers, TableInv, Alive, workerVars, sessionVars
  <2>3. wstate'[w] = x /\ \A v \in Worker \ {w} : wstate'[v] = wstate[v]
    BY <1>1, <2>1
  <2>4. ASSUME NEW v \in Worker
        PROVE  wstate'[v] \in {"running", "stopping", "closed"} <=> Alive(v)
    BY <2>2, <2>3 DEF Alive
  <2>5. (\A r \in Room : roomTable[r] # NoWorker =>
             Alive(roomTable[r]) /\ wroom[roomTable[r]] = r)'
    BY <1>1, <2>2, <2>4 DEF TableInv, Alive
  <2>6. (\A v \in Worker : Alive(v) => wroom[v] \in Room /\ roomTable[wroom[v]] = v)'
    BY <1>1, <2>2, <2>4 DEF TableInv, Alive
  <2>7. (/\ \A v \in Worker : wstate[v] # "running" => users[v] = {}
         /\ \A v \in Worker : wstate[v] = "unborn" => workers[v] = <<>>)'
    BY <1>1, <2>2, <2>3 DEF TableInv
  <2>8. TableInv' BY <2>5, <2>6, <2>7 DEF TableInv
  <2>9. wstate[w] # "unborn" BY <2>2 DEF Alive
  <2> QED BY <2>1, <2>2, <2>8, <2>9, WorkerEndInv
<1>3. CASE Cleanup(w)
  <2>1. /\ wstate[w] = "closed" /\ wstate' = [wstate EXCEPT ![w] = "gone"]
        /\ roomTable' = [roomTable EXCEPT ![wroom[w]] = NoWorker]
        /\ UNCHANGED <<wroom, users, workers, todo, phase, target, reply, Hello,
                       Roomid, disconnected>>
    BY <1>3 DEF Cleanup, workerVars, sessionVars
  <2>2. wroom[w] \in Room /\ roomTable[wroom[w]] = w /\ users[w] = {}
    BY <1>1, <2>1 DEF TableInv, Alive
  <2>3. /\ wstate'[w] = "gone" /\ \A v \in Worker \ {w} : wstate'[v] = wstate[v]
        /\ roomTable'[wroom[w]] = NoWorker
        /\ \A r \in Room \ {wroom[w]} : roomTable'[r] = roomTable[r]
    BY <1>1, <2>1, <2>2
  <2>4. ASSUME NEW r \in Room, roomTable'[r] # NoWorker
        PROVE  /\ wstate'[roomTable'[r]] \in {"running", "stopping", "closed"}
               /\ wroom[roomTable'[r]] = r
    <3>1. r # wroom[w] /\ roomTable'[r] = roomTable[r] BY <2>3, <2>4
    <3>2. Alive(roomTable[r]) /\ wroom[roomTable[r]] = r BY <1>1, <2>4, <3>1 DEF TableInv
    <3>3. roomTable[r] \in Worker \ {w} BY <1>1, <2>4, <3>1, <3>2
    <3>4. wstate'[roomTable[r]] = wstate[roomTable[r]] BY <2>3, <3>3
    <3> QED BY <3>1, <3>2, <3>4 DEF Alive
  <2>5. ASSUME NEW v \in Worker, wstate'[v] \in {"running", "stopping", "closed"}
        PROVE  wroom[v] \in Room /\ roomTable'[wroom[v]] = v
    <3>1. v # w /\ wstate'[v] = wstate[v] BY <2>3, <2>5
    <3>2. wroom[v] \in Room /\ roomTable[wroom[v]] = v
      BY <1>1, <2>5, <3>1 DEF TableInv, Alive
    <3> QED BY <2>2, <2>3, <3>1, <3>2
  <2>6. (\A r \in Room : roomTable[r] # NoWorker =>
             Alive(roomTable[r]) /\ wroom[roomTable[r]] = r)'
    BY <2>1, <2>4 DEF Alive
  <2>7. (\A v \in Worker : Alive(v) => wroom[v] \in Room /\ roomTable[wroom[v]] = v)'
    BY <2>1, <2>5 DEF Alive
  <2>8. (/\ \A v \in Worker : wstate[v] # "running" => users[v] = {}
         /\ \A v \in Worker : wstate[v] = "unborn" => workers[v] = <<>>)'
    BY <1>1, <2>1, <2>2, <2>3 DEF TableInv
  <2>9. TableInv' BY <2>6, <2>7, <2>8 DEF TableInv
  <2>10. \A r \in Room : roomTable[r] # w => roomTable'[r] = roomTable[r]
    BY <2>2, <2>3
  <2> QED BY <2>1, <2>2, <2>9, <2>10, WorkerEndInv
<1> QED BY <1>2, <1>3

-----------------------------------------------------------------------------
(* The theorems. *)

\* IInv is an invariant: it is what makes OneWorkerPerRoom and HelloIsMember
\* inductive (roomworker.go, room_manager.go, session.go).
THEOREM Invariance == Spec => []IInv
<1>1. Init => IInv
  <2> SUFFICES ASSUME Init PROVE IInv
    OBVIOUS
  <2>1. TypeOK BY DEF Init, TypeOK
  <2>2. TableInv BY DEF Init, TableInv, Alive
  <2>3. CallInv BY DEF Init, CallInv, CallOK
  <2>4. TodoInv BY DEF Init, TodoInv, TodoOK
  <2>5. QueueInv BY DEF Init, QueueInv
  <2>6. ReplyInv /\ HelloInv BY DEF Init, ReplyInv, ReplyOK, HelloInv, HelloOK
  <2> QED BY <2>1, <2>2, <2>3, <2>4, <2>5, <2>6 DEF IInv
<1>2. IInv /\ TypeOK' /\ [Next]_vars => IInv'
  <2> SUFFICES ASSUME IInv, TypeOK', [Next]_vars PROVE IInv'
    OBVIOUS
  <2>1. CASE UNCHANGED vars
    <3>1. TableInv' BY <2>1 DEF IInv, TableInv, Alive, vars
    <3>2. CallInv' /\ TodoInv'
      BY <2>1 DEF IInv, CallInv, CallOK, TodoInv, TodoOK, Cur, vars
    <3>3. QueueInv' BY <2>1 DEF IInv, QueueInv, QueueOK, Cur, vars
    <3>4. ReplyInv'
      BY <2>1 DEF IInv, ReplyInv, ReplyOK, Cur, Member, LeaveQueued, vars
    <3>5. HelloInv'
      BY <2>1 DEF IInv, HelloInv, HelloOK, Leaving, Member, LeaveQueued, vars
    <3> QED BY <3>1, <3>2, <3>3, <3>4, <3>5 DEF IInv
  <2>2. ASSUME NEW s \in Session, Message(s) \/ CallStep(s) PROVE IInv'
    BY <2>2, MessageInv, CallStepInv
  <2>3. ASSUME NEW w \in Worker, WorkerStep(w) PROVE IInv'
    BY <2>3, RunJobInv, ExpireInv DEF WorkerStep
  <2> QED BY <2>1, <2>2, <2>3 DEF Next
<1> QED BY <1>1, <1>2, TypeCorrect, PTL DEF Spec

\* The table of GetOrCreate never has two live workers of one room, and the
\* cleanup goroutine only ever takes its own worker off it.
THEOREM OneWorker == Spec => []OneWorkerPerRoom
<1>1. IInv => OneWorkerPerRoom
  BY ConstantsAssumption DEF IInv, TableInv, OneWorkerPerRoom
<1> QED BY <1>1, Invariance, PTL

\* Whoever JoinRoom told that it is in a room is in it, until it leaves: the
\* expiry of a worker does not strand a session.
THEOREM Membership == Spec => []HelloIsMember
<1>1. IInv => HelloIsMember
  BY ConstantsAssumption DEF IInv, HelloInv, HelloOK, HelloIsMember, Member
<1> QED BY <1>1, Invariance, PTL

\* UpdateRoom checks that the session is in the room long before the worker runs
\* the update: the check still holds then.
LEMMA UpdateByMember ==
    ASSUME IInv, NEW w \in Worker, Runs(w, {"update"})
    PROVE  Job1(w).from \in users[w]
<1> DEFINE s == Job1(w).from
<1>1. /\ Job1(w) = workers[w][1] /\ 1 \in 1..Len(workers[w]) /\ s \in Session
      /\ Job1(w).op = "update" /\ wstate[w] = "running"
  BY HeadJob DEF Runs, IInv, Job
<1>2. QueueOK(w, 1) BY <1>1 DEF IInv, QueueInv
<1>3. phase[s] = "await" /\ target[s] = w /\ Cur(s).op = "update"
  BY <1>1, <1>2 DEF QueueOK, Answered
<1>4. CallOK(s) /\ TodoOK(s) /\ HelloOK(s)
  BY <1>1 DEF IInv, CallInv, TodoInv, HelloInv
<1>5. todo[s] # <<>> /\ wroom[w] = Cur(s).room BY <1>3, <1>4 DEF CallOK
<1>6. Cur(s) = todo[s][1] /\ 1 \in 1..Len(todo[s]) BY <1>1, <1>5, CurFacts DEF IInv
<1>7. /\ Len(todo[s]) = 2 /\ todo[s][2].op = "Notify" /\ Hello[s] /\ ~disconnected[s]
      /\ Cur(s).room = Roomid[s]
  BY <1>3, <1>4, <1>6 DEF TodoOK
<1>8. ~Leaving(s)
  <2>1. ASSUME NEW i \in 1..Len(todo[s]) PROVE todo[s][i].op # "Left"
    <3>1. i = 1 \/ i = 2 BY <1>7
    <3> QED BY <1>3, <1>6, <1>7, <3>1
  <2> QED BY <2>1 DEF Leaving
<1>9. Member(s, roomTable[Roomid[s]]) BY <1>4, <1>7, <1>8 DEF HelloOK
<1>10. roomTable[wroom[w]] = w BY <1>1 DEF IInv, TableInv, Alive
<1> QED BY <1>5, <1>7, <1>9, <1>10 DEF Member

THEOREM PINByMember == Spec => PINChangedByMember
<1>1. IInv /\ [Next]_vars =>
        [\A w \in Worker : credentials'[w] # credentials[w] /\ wstate[w] # "unborn" =>
             Job1(w).from \in users[w]]_vars
  <2> SUFFICES ASSUME IInv, Next, NEW w \in Worker,
                      credentials'[w] # credentials[w], wstate[w] # "unborn"
               PROVE  Job1(w).from \in users[w]
    OBVIOUS
  <2>1. credentials \in [Worker -> PIN \cup {NoCredentials}] BY DEF IInv, TypeOK
  <2>2. ASSUME NEW s \in Session, Message(s) PROVE FALSE
    BY <2>2
    DEF Message, HandleHello, HandleLeave, HandleUsers, HandleRoom, HandleChat, Close,
        Receive, Begin, workerVars
  <2>3. ASSUME NEW s \in Session, CallStep(s) PROVE FALSE
    <3>1. CASE Create(s)
      <4>1. CASE UNCHANGED credentials BY <4>1
      <4>2. CASE /\ Unborn # {}
                 /\ LET v == CHOOSE v \in Worker : wstate[v] = "unborn" IN
                    credentials' = [credentials EXCEPT ![v] = RequiredPIN(Cur(s).cred)]
        <5> DEFINE v == CHOOSE v \in Worker : wstate[v] = "unborn"
        <5>1. v \in Worker /\ wstate[v] = "unborn" BY <4>2 DEF Unborn
        <5>2. credentials' = [credentials EXCEPT ![v] = RequiredPIN(Cur(s).cred)] BY <4>2
        <5> HIDE DEF v
        <5>3. v # w BY <5>1
        <5> QED BY <2>1, <5>1, <5>2, <5>3
      <4> QED BY <3>1, <4>1, <4>2 DEF Create, JoinFailed, workerVars
    <3>2. CASE ~Create(s)
      BY <2>3, <3>2
      DEF CallStep, GetFound, GetMissing, GetRefused, GetForCreate, Send, SendPanics, Await,
          workerVars
    <3> QED BY <3>1, <3>2
  <2>4. ASSUME NEW v \in Worker, WorkerStep(v) PROVE Job1(w).from \in users[w]
    <3>1. CASE RunUpdate(v)
      <4>1. v = w BY <2>1, <3>1 DEF RunUpdate
      <4> QED BY <3>1, <4>1, UpdateByMember DEF RunUpdate
    <3>2. CASE ~RunUpdate(v)
      BY <2>4, <3>2
      DEF WorkerStep, RunJob, RunJoin, RunLeave, RunUsers, RunBroadcast, Expire,
          CloseWorkers, Cleanup, workerVars
    <3> QED BY <3>1, <3>2
  <2> QED BY <2>2, <2>3, <2>4 DEF Next
<1> QED BY <1>1, Invariance, PTL DEF Spec, PINChangedByMember

-----------------------------------------------------------------------------
(* The rooms implement the directory. *)

\* What the directory sees of a room.
MembersOf(r) == IF r \in OpenRooms THEN users[roomTable[r]] ELSE {}
PINOf(r)     == IF r \in OpenRooms THEN credentials[roomTable[r]] ELSE NoCredentials
Asked(s)     == IF Asks(s) THEN {Cur(s)} ELSE {}

\* A step that keeps the rooms and the requests is none of the directory's.
LEMMA DirectoryStutter ==
    ASSUME OpenRooms' = OpenRooms,
           \A r \in Room : MembersOf(r)' = MembersOf(r) /\ PINOf(r)' = PINOf(r),
           UNCHANGED todo
    PROVE  UNCHANGED Directory!vars
<1>1. [r \in Room |-> MembersOf(r)]' = [r \in Room |-> MembersOf(r)] OBVIOUS
<1>2. [r \in Room |-> PINOf(r)]' = [r \in Room |-> PINOf(r)] OBVIOUS
<1>3. [s \in Session |-> Asked(s)]' = [s \in Session |-> Asked(s)] BY DEF Asked, Asks, Cur
<1> QED BY <1>1, <1>2, <1>3, Zenon DEF Directory!vars, MembersOf, PINOf, Asked

\* A handler that goes on to its next call makes a request or is done with one.
LEMMA HandlerAsks ==
    ASSUME IInv, IInv', NEW s \in Session, UNCHANGED <<managerVars, workerVars>>,
           \A t \in Session : t # s => todo'[t] = todo[t]
    PROVE  [Directory!Next]_Directory!vars
<1>1. /\ OpenRooms' = OpenRooms
      /\ [r \in Room |-> MembersOf(r)]' = [r \in Room |-> MembersOf(r)]
      /\ [r \in Room |-> PINOf(r)]' = [r \in Room |-> PINOf(r)]
  BY DEF managerVars, workerVars, OpenRooms, MembersOf, PINOf
<1>2. \A t \in Session : t # s => Asked(t)' = Asked(t) BY DEF Asked, Asks, Cur
<1>3. [t \in Session |-> Asked(t)]' = [[t \in Session |-> Asked(t)] EXCEPT ![s] = Asked(s)']
  BY <1>2
<1>4. Asked(s)' \in {{}} \cup {{q} : q \in Directory!Request}
  <2>1. CASE ~Asks(s)' BY <2>1 DEF Asked
  <2>2. CASE Asks(s)'
    <3>1. todo'[s] \in Seq(Call) /\ todo'[s] # <<>> BY <2>2 DEF Asks, IInv, TypeOK
    <3>2. Cur(s)' \in Call BY <3>1, TailFacts DEF Cur
    <3>3. Cur(s)' \in Directory!Request
      BY <2>2, <3>2 DEF Asks, Call, Directory!Request, Credentials
    <3> QED BY <2>2, <3>3 DEF Asked
  <2> QED BY <2>1, <2>2
<1>5. Directory!Ask(s)
  BY <1>1, <1>3, <1>4, Zenon DEF Directory!Ask, MembersOf, PINOf, Asked
<1>6. Directory!Next BY <1>5, Zenon DEF Directory!Next
<1> QED BY <1>6

\* The worker of an open room is the worker of that room only.
LEMMA RunningFacts ==
    ASSUME IInv, NEW w \in Worker, wstate[w] = "running"
    PROVE  /\ wroom[w] \in OpenRooms /\ roomTable[wroom[w]] = w
           /\ MembersOf(wroom[w]) = users[w] /\ PINOf(wroom[w]) = credentials[w]
           /\ \A x \in Room : x # wroom[w] => roomTable[x] # w
<1>1. TableInv BY DEF IInv
<1>2. wroom[w] \in Room /\ roomTable[wroom[w]] = w BY <1>1 DEF TableInv, Alive
<1>3. wroom[w] \in OpenRooms BY <1>2, ConstantsAssumption DEF OpenRooms
<1>4. \A x \in Room : x # wroom[w] => roomTable[x] # w
  BY <1>1, ConstantsAssumption DEF TableInv
<1> QED BY <1>2, <1>3, <1>4 DEF MembersOf, PINOf

\* A job changes nothing the directory sees of the other rooms.
LEMMA JobFrame ==
    ASSUME IInv, NEW w \in Worker, wstate[w] = "running", NEW r, r = wroom[w],
           UNCHANGED managerVars,
           \A v \in Worker : v # w =>
               users'[v] = users[v] /\ credentials'[v] = credentials[v]
    PROVE  /\ OpenRooms' = OpenRooms
           /\ MembersOf(r)' = users'[w] /\ PINOf(r)' = credentials'[w]
           /\ \A x \in Room : x # r => MembersOf(x)' = MembersOf(x) /\ PINOf(x)' = PINOf(x)
<1>1. roomTable' = roomTable /\ wstate' = wstate /\ wroom' = wroom BY DEF managerVars
<1>2. OpenRooms' = OpenRooms BY <1>1 DEF OpenRooms
<1>3. r \in OpenRooms /\ roomTable[r] = w /\ \A x \in Room : x # r => roomTable[x] # w
  BY RunningFacts
<1>4. ASSUME NEW x \in Room, x # r
      PROVE  MembersOf(x)' = MembersOf(x) /\ PINOf(x)' = PINOf(x)
  <2>1. CASE x \in OpenRooms
    <3>1. roomTable[x] \in Worker /\ roomTable[x] # w
      BY <1>3, <1>4, <2>1 DEF OpenRooms, IInv, TypeOK
    <3> QED BY <1>1, <1>2, <2>1, <3>1 DEF MembersOf, PINOf
  <2>2. CASE x \notin OpenRooms BY <1>2, <2>2 DEF MembersOf, PINOf
  <2> QED BY <2>1, <2>2
<1> QED BY <1>1, <1>2, <1>3, <1>4 DEF MembersOf, PINOf

\* A message concerns one handler.
LEMMA MessageOthers ==
    ASSUME IInv, NEW s \in Session, Message(s)
    PROVE  \A t \in Session : t # s => todo'[t] = todo[t]
<1>1. \/ todo' = todo
      \/ \E cs : todo' = [todo EXCEPT ![s] = cs]
  BY DEF Message, HandleHello, HandleLeave, HandleUsers, HandleRoom, HandleChat, Close,
         Receive, Begin
<1> QED BY <1>1 DEF IInv, TypeOK

\* The same of a call.
LEMMA CallOthers ==
    ASSUME IInv, NEW s \in Session, CallStep(s), ~Create(s)
    PROVE  \A t \in Session : t # s => todo'[t] = todo[t]
<1>1. CASE JoinFailed(s) BY <1>1 DEF JoinFailed, IInv, TypeOK
<1>2. CASE Advance(s) BY <1>2 DEF Advance, IInv, TypeOK
<1>3. CASE todo' = todo BY <1>3
<1> QED
  BY <1>1, <1>2, <1>3
  DEF CallStep, GetFound, GetMissing, GetRefused, GetForCreate, Send, SendPanics, Await,
      Answer, AdvancePlain

\* A room is created: the directory opens it with nobody in it.
LEMMA CreateOpens ==
    ASSUME IInv, IInv', NEW s \in Session, Create(s)
    PROVE  [Directory!Next]_Directory!vars
<1>1. CASE UNCHANGED <<managerVars, workerVars>>
  <2>1. \A t \in Session : t # s => todo'[t] = todo[t]
    BY DEF Create, JoinFailed, IInv, TypeOK
  <2> QED BY <1>1, <2>1, HandlerAsks
<1>2. CASE ~UNCHANGED <<managerVars, workerVars>>
  <2> PICK w, r, p, q : /\ w = CHOOSE v \in Worker : wstate[v] = "unborn"
                        /\ r = Cur(s).room
                        /\ p = RequiredPIN(Cur(s).cred)
                        /\ q = Cur(s)
    OBVIOUS
  <2>1. /\ roomTable[r] = NoWorker /\ Unborn # {}
        /\ roomTable'   = [roomTable EXCEPT ![r] = w]
        /\ wstate'      = [wstate EXCEPT ![w] = "running"]
        /\ credentials' = [credentials EXCEPT ![w] = p]
        /\ users' = users /\ todo' = todo
    BY <1>2 DEF Create, Recheck
  <2>2. w \in Worker /\ wstate[w] = "unborn" BY <2>1 DEF Unborn
  <2>3. r \in Room BY CurFacts DEF Create, At, IInv, Call
  <2>4. p \in PIN \cup {NoCredentials} BY DEF RequiredPIN
  <2>5. TypeOK /\ TableInv BY DEF IInv
  <2>6. /\ roomTable'[r] = w /\ wstate'[w] = "running" /\ credentials'[w] = p
        /\ \A x \in Room : x # r => roomTable'[x] = roomTable[x]
        /\ \A v \in Worker : v # w =>
               wstate'[v] = wstate[v] /\ credentials'[v] = credentials[v]
    BY <2>1, <2>2, <2>3, <2>5 DEF TypeOK
  <2>7. w # NoWorker BY <2>2, ConstantsAssumption
  <2>8. \A x \in Room : roomTable[x] # NoWorker => roomTable[x] \in Worker /\ roomTable[x] # w
    <3> SUFFICES ASSUME NEW x \in Room, roomTable[x] # NoWorker
                 PROVE  roomTable[x] \in Worker /\ roomTable[x] # w
      OBVIOUS
    <3>1. roomTable[x] \in Worker BY <2>5 DEF TypeOK
    <3>2. wstate[roomTable[x]] # "unborn" BY <2>5 DEF TableInv, Alive
    <3> QED BY <2>2, <3>1, <3>2
  <2>9. r \notin OpenRooms /\ OpenRooms' = OpenRooms \cup {r}
    <3>1. r \notin OpenRooms BY <2>1 DEF OpenRooms
    <3>2. r \in OpenRooms' BY <2>3, <2>6, <2>7 DEF OpenRooms
    <3>3. ASSUME NEW x \in Room, x # r PROVE x \in OpenRooms' <=> x \in OpenRooms
      <4>1. roomTable'[x] = roomTable[x] BY <2>6, <3>3
      <4>2. roomTable[x] # NoWorker => wstate'[roomTable[x]] = wstate[roomTable[x]]
        BY <2>6, <2>8
      <4> QED BY <4>1, <4>2 DEF OpenRooms
    <3>4. OpenRooms \subseteq Room /\ OpenRooms' \subseteq Room BY DEF OpenRooms
    <3> QED BY <3>1, <3>2, <3>3, <3>4
  <2>10. users[w] = {} BY <2>2, <2>5 DEF TableInv
  <2>11. ASSUME NEW x \in Room
         PROVE  /\ MembersOf(x)' = MembersOf(x)
                /\ PINOf(x)' = IF x = r THEN p ELSE PINOf(x)
    <3>1. CASE x = r
      BY <2>1, <2>6, <2>9, <2>10, <3>1 DEF MembersOf, PINOf
    <3>2. CASE x # r /\ x \in OpenRooms
      <4>1. roomTable[x] \in Worker /\ roomTable[x] # w BY <2>8, <3>2 DEF OpenRooms
      <4> QED BY <2>1, <2>6, <2>9, <3>2, <4>1 DEF MembersOf, PINOf
    <3>3. CASE x # r /\ x \notin OpenRooms
      BY <2>9, <3>3 DEF MembersOf, PINOf
    <3> QED BY <3>1, <3>2, <3>3
  <2>12. [x \in Room |-> MembersOf(x)]' = [x \in Room |-> MembersOf(x)] BY <2>11
  <2>13. [x \in Room |-> PINOf(x)]' = [[x \in Room |-> PINOf(x)] EXCEPT ![r] = p]
    BY <2>3, <2>11
  <2>14. [t \in Session |-> Asked(t)]' = [t \in Session |-> Asked(t)]
    BY <2>1 DEF Asked, Asks, Cur
  <2>15. q.op = "join" /\ q \in [t \in Session |-> Asked(t)][s]
    <3>1. todo[s] # <<>> /\ phase[s] = "create" BY DEF Create, At
    <3>2. Cur(s).op = "join" BY <3>1 DEF IInv, CallInv, CallOK
    <3> QED BY <3>1, <3>2 DEF Asked, Asks
  <2>16. p = Directory!Required(q.cred) BY DEF Directory!Required, RequiredPIN
  <2>17. Directory!Open(q)
    BY <2>9, <2>12, <2>13, <2>14, <2>15, <2>16, Zenon
    DEF Directory!Open, MembersOf, PINOf, Asked
  <2>18. Directory!Next BY <2>15, <2>17, Zenon DEF Directory!Next, Asked
  <2> QED BY <2>18
<1> QED BY <1>1, <1>2

\* A job that joins or updates is what its session, which waits, has asked for.
LEMMA HeadRequest ==
    ASSUME IInv, NEW w \in Worker, Runs(w, {"join", "update"}), NEW s, s = Job1(w).from
    PROVE  /\ s \in Session /\ Cur(s) \in [t \in Session |-> Asked(t)][s]
           /\ Cur(s).op = Job1(w).op /\ Cur(s).room = wroom[w] /\ Cur(s).cred = Job1(w).cred
<1>1. s \in Session /\ 1 \in 1..Len(workers[w]) /\ workers[w][1] = Job1(w)
  BY HeadJob DEF Runs, IInv, Job
<1>2. QueueOK(w, 1) BY <1>1 DEF IInv, QueueInv
<1>3. /\ phase[s] = "await" /\ target[s] = w
      /\ Cur(s).op = Job1(w).op /\ Cur(s).cred = Job1(w).cred
  BY <1>1, <1>2 DEF QueueOK, Runs, Answered
<1>4. todo[s] # <<>> /\ wroom[w] = Cur(s).room BY <1>1, <1>3 DEF IInv, CallInv, CallOK
<1>5. Asked(s) = {Cur(s)} BY <1>3, <1>4 DEF Asked, Asks, Runs
<1> QED BY <1>1, <1>3, <1>4, <1>5

\* A job is a step of the directory, or none.
LEMMA JobSimulates ==
    ASSUME IInv, NEW w \in Worker, RunJob(w)
    PROVE  [Directory!Next]_Directory!vars
<1> PICK r, s : r = wroom[w] /\ s = Job1(w).from OBVIOUS
<1>1. wstate[w] = "running" /\ UNCHANGED managerVars /\ workers[w] # <<>>
  BY DEF RunJob, RunJoin, RunLeave, RunUpdate, RunUsers, RunBroadcast, Runs
<1>2. /\ r \in OpenRooms /\ r \in Room
      /\ MembersOf(r) = users[w] /\ PINOf(r) = credentials[w]
  BY <1>1, RunningFacts DEF OpenRooms
<1>3. s \in Session BY <1>1, HeadJob DEF IInv, Job
<1>4. /\ users \in [Worker -> SUBSET Session]
      /\ credentials \in [Worker -> PIN \cup {NoCredentials}]
  BY DEF IInv, TypeOK
<1>11. todo' = todo
  BY DEF RunJob, RunJoin, RunLeave, RunUpdate, RunUsers, RunBroadcast
<1>12. [t \in Session |-> Asked(t)]' = [t \in Session |-> Asked(t)]
  BY <1>11 DEF Asked, Asks, Cur
<1>5. CASE UNCHANGED workerVars
  BY <1>1, <1>5, <1>11, DirectoryStutter
  DEF managerVars, workerVars, OpenRooms, MembersOf, PINOf
<1>6. ASSUME NEW us, users' = [users EXCEPT ![w] = us], UNCHANGED credentials
      PROVE  /\ OpenRooms' = OpenRooms
             /\ [x \in Room |-> MembersOf(x)]' = [[x \in Room |-> MembersOf(x)] EXCEPT ![r] = us]
             /\ [x \in Room |-> PINOf(x)]' = [x \in Room |-> PINOf(x)]
  <2>1. /\ users'[w] = us
        /\ \A v \in Worker : v # w => users'[v] = users[v] /\ credentials'[v] = credentials[v]
    BY <1>4, <1>6
  <2>2. /\ OpenRooms' = OpenRooms
        /\ MembersOf(r)' = us /\ PINOf(r)' = PINOf(r)
        /\ \A x \in Room : x # r => MembersOf(x)' = MembersOf(x) /\ PINOf(x)' = PINOf(x)
    BY <1>1, <1>2, <1>6, <2>1, JobFrame
  <2> QED BY <1>2, <2>2
<1>7. CASE RunJoin(w) /\ ~UNCHANGED workerVars
  <2>1. /\ users' = [users EXCEPT ![w] = users[w] \cup {s}] /\ UNCHANGED credentials
        /\ Job1(w).cred = credentials[w] /\ Runs(w, {"join"})
    BY <1>7 DEF RunJoin, Accepts, workerVars
  <2> PICK q : q = Cur(s) OBVIOUS
  <2>2. /\ q \in [t \in Session |-> Asked(t)][s]
        /\ q.op = "join" /\ q.room = r /\ q.cred = credentials[w]
    <3>1. Runs(w, {"join", "update"}) /\ Job1(w).op = "join" BY <2>1 DEF Runs
    <3> QED BY <2>1, <3>1, HeadRequest
  <2>3. q.cred = [x \in Room |-> PINOf(x)][r] BY <1>2, <2>2
  <2>4. /\ OpenRooms' = OpenRooms
        /\ [x \in Room |-> MembersOf(x)]' =
              [[x \in Room |-> MembersOf(x)] EXCEPT ![q.room] = @ \cup {s}]
        /\ [x \in Room |-> PINOf(x)]' = [x \in Room |-> PINOf(x)]
    BY <1>2, <1>6, <2>1, <2>2
  <2>5. Directory!Join(s, q)
    BY <1>2, <1>12, <2>2, <2>3, <2>4, Zenon DEF Directory!Join, MembersOf, PINOf, Asked
  <2>6. Directory!Next BY <1>3, <2>2, <2>5, Zenon DEF Directory!Next, Asked
  <2> QED BY <2>6
<1>8. CASE RunLeave(w)
  <2>1. users' = [users EXCEPT ![w] = users[w] \ {s}] /\ UNCHANGED credentials
    BY <1>8 DEF RunLeave
  <2>2. /\ OpenRooms' = OpenRooms
        /\ [x \in Room |-> MembersOf(x)]' =
              [[x \in Room |-> MembersOf(x)] EXCEPT ![r] = @ \ {s}]
        /\ [x \in Room |-> PINOf(x)]' = [x \in Room |-> PINOf(x)]
    BY <1>2, <1>6, <2>1
  <2>3. Directory!Leave(s, r)
    BY <1>2, <1>12, <2>2, Zenon DEF Directory!Leave, MembersOf, PINOf, Asked
  <2>4. Directory!Next BY <1>2, <1>3, <2>3, Zenon DEF Directory!Next
  <2> QED BY <2>4
<1>9. CASE RunUpdate(w) /\ ~UNCHANGED workerVars
  <2> PICK p : p = RequiredPIN(Job1(w).cred) OBVIOUS
  <2>1. credentials' = [credentials EXCEPT ![w] = p] /\ UNCHANGED users /\ Runs(w, {"update"})
    BY <1>9 DEF RunUpdate, workerVars
  <2> PICK q : q = Cur(s) OBVIOUS
  <2>2. /\ q \in [t \in Session |-> Asked(t)][s]
        /\ q.op = "update" /\ q.room = r /\ q.cred # NoCredentials
        /\ p = Directory!Required(q.cred)
    <3>1. Runs(w, {"join", "update"}) /\ Job1(w).op = "update" BY <2>1 DEF Runs
    <3>2. Job1(w).cred # NoCredentials BY <1>9 DEF RunUpdate, workerVars
    <3>3. /\ q \in [t \in Session |-> Asked(t)][s]
          /\ q.op = "update" /\ q.room = r /\ q.cred = Job1(w).cred
      BY <3>1, HeadRequest
    <3> QED BY <3>2, <3>3 DEF Directory!Required, RequiredPIN
  <2>3. s \in users[w] BY <2>1, UpdateByMember
  <2>4. /\ credentials'[w] = p
        /\ \A v \in Worker : v # w => users'[v] = users[v] /\ credentials'[v] = credentials[v]
    BY <1>4, <2>1
  <2>5. /\ OpenRooms' = OpenRooms
        /\ MembersOf(r)' = MembersOf(r) /\ PINOf(r)' = p
        /\ \A x \in Room : x # r => MembersOf(x)' = MembersOf(x) /\ PINOf(x)' = PINOf(x)
    BY <1>1, <1>2, <2>1, <2>4, JobFrame
  <2>6. [x \in Room |-> MembersOf(x)]' = [x \in Room |-> MembersOf(x)] BY <1>2, <2>5
  <2>7. [x \in Room |-> PINOf(x)]' = [[x \in Room |-> PINOf(x)] EXCEPT ![r] = p] BY <1>2, <2>5
  <2>8. s \in [x \in Room |-> MembersOf(x)][r] BY <1>2, <2>3
  <2>9. Directory!SetPIN(s, q)
    BY <1>2, <1>12, <2>2, <2>5, <2>6, <2>7, <2>8, Zenon
    DEF Directory!SetPIN, MembersOf, PINOf, Asked
  <2>10. Directory!Next BY <1>3, <2>2, <2>9, Zenon DEF Directory!Next, Asked
  <2> QED BY <2>10
<1>10. CASE RunUsers(w) \/ RunBroadcast(w)
  BY <1>5, <1>10 DEF RunUsers, RunBroadcast
<1> QED BY <1>5, <1>7, <1>8, <1>9, <1>10 DEF RunJob

\* The timer gives up an empty room; the rest of the worker's end is invisible.
LEMMA EndSimulates ==
    ASSUME IInv, IInv', NEW w \in Worker, Expire(w) \/ CloseWorkers(w) \/ Cleanup(w)
    PROVE  [Directory!Next]_Directory!vars
<1>1. TypeOK /\ TableInv BY DEF IInv
<1>2. CASE Expire(w)
  <2> PICK r : r = wroom[w] OBVIOUS
  <2>1. /\ wstate[w] = "running" /\ users[w] = {} /\ wstate' = [wstate EXCEPT ![w] = "stopping"]
        /\ UNCHANGED <<roomTable, wroom, users, credentials, todo>>
    BY <1>2 DEF Expire, NotInUse, workerVars
  <2>2. /\ r \in OpenRooms /\ roomTable[r] = w /\ MembersOf(r) = {}
        /\ \A x \in Room : x # r => roomTable[x] # w
    BY <2>1, RunningFacts
  <2>3. r \in Room BY <2>2 DEF OpenRooms
  <2>4. wstate'[w] = "stopping" /\ \A v \in Worker : v # w => wstate'[v] = wstate[v]
    BY <1>1, <2>1 DEF TypeOK
  <2>5. \A x \in Room : roomTable[x] # NoWorker => roomTable[x] \in Worker BY <1>1 DEF TypeOK
  <2>6. OpenRooms' = OpenRooms \ {r}
    BY <2>1, <2>2, <2>4, <2>5 DEF OpenRooms
  <2>7. ASSUME NEW x \in Room
        PROVE  /\ MembersOf(x)' = MembersOf(x)
               /\ PINOf(x)' = IF x = r THEN NoCredentials ELSE PINOf(x)
    BY <2>1, <2>2, <2>6 DEF MembersOf, PINOf
  <2>8. [x \in Room |-> MembersOf(x)]' = [x \in Room |-> MembersOf(x)] BY <2>7
  <2>9. [x \in Room |-> PINOf(x)]' = [[x \in Room |-> PINOf(x)] EXCEPT ![r] = NoCredentials]
    BY <2>3, <2>7
  <2>10. [x \in Room |-> MembersOf(x)][r] = {} BY <2>2, <2>3
  <2>11. [t \in Session |-> Asked(t)]' = [t \in Session |-> Asked(t)]
    BY <2>1 DEF Asked, Asks, Cur
  <2>12. Directory!Reclaim(r)
    BY <2>2, <2>6, <2>8, <2>9, <2>10, <2>11, Zenon
    DEF Directory!Reclaim, MembersOf, PINOf, Asked
  <2>13. Directory!Next BY <2>3, <2>12, Zenon DEF Directory!Next
  <2> QED BY <2>13
<1>3. CASE CloseWorkers(w) \/ Cleanup(w)
  <2>1. /\ wstate[w] \in {"stopping", "closed"} /\ UNCHANGED <<users, credentials, todo>>
        /\ \E x \in {"closed", "gone"} : wstate' = [wstate EXCEPT ![w] = x]
        /\ roomTable' = roomTable \/ roomTable' = [roomTable EXCEPT ![wroom[w]] = NoWorker]
    BY <1>3 DEF CloseWorkers, Cleanup, workerVars
  <2>2. wroom[w] \in Room /\ roomTable[wroom[w]] = w BY <1>1, <2>1 DEF TableInv, Alive
  <2>3. /\ wstate'[w] # "running"
        /\ \A v \in Worker : v # w => wstate'[v] = wstate[v]
        /\ \A x \in Room : x # wroom[w] => roomTable'[x] = roomTable[x]
        /\ roomTable'[wroom[w]] \in {w, NoWorker}
    BY <1>1, <2>1, <2>2 DEF TypeOK
  <2>4. ASSUME NEW x \in Room
        PROVE  /\ x \in OpenRooms' <=> x \in OpenRooms
               /\ x \in OpenRooms => roomTable'[x] = roomTable[x]
    <3>1. CASE x = wroom[w] BY <2>1, <2>2, <2>3, <3>1 DEF OpenRooms
    <3>2. CASE x # wroom[w]
      <4>1. roomTable'[x] = roomTable[x] /\ roomTable[x] # w
        BY <1>1, <2>3, <3>2, ConstantsAssumption DEF TableInv
      <4>2. roomTable[x] # NoWorker => wstate'[roomTable[x]] = wstate[roomTable[x]]
        BY <1>1, <2>3, <4>1 DEF TypeOK
      <4> QED BY <4>1, <4>2 DEF OpenRooms
    <3> QED BY <3>1, <3>2
  <2>5. OpenRooms' = OpenRooms BY <2>4 DEF OpenRooms
  <2>6. \A x \in Room : MembersOf(x)' = MembersOf(x) /\ PINOf(x)' = PINOf(x)
    BY <2>1, <2>4, <2>5 DEF MembersOf, PINOf
  <2> QED BY <2>1, <2>5, <2>6, DirectoryStutter
<1> QED BY <1>2, <1>3

\* For any number of connections, rooms and workers the room manager and its
\* workers implement the directory: JoinRoom, UpdateRoom, LeaveRoom, the expiry.
THEOREM Refinement == Spec => ImplementsDirectory
<1>1. Init => Directory!Init
  BY ConstantsAssumption DEF Init, Directory!Init, OpenRooms, Asks
<1>2. IInv /\ IInv' /\ [Next]_vars => [Directory!Next]_Directory!vars
  <2> SUFFICES ASSUME IInv, IInv', [Next]_vars PROVE [Directory!Next]_Directory!vars
    OBVIOUS
  <2>1. ASSUME NEW s \in Session, Message(s) \/ (CallStep(s) /\ ~Create(s))
        PROVE  [Directory!Next]_Directory!vars
    <3>1. CASE Message(s)
      <4>1. UNCHANGED <<managerVars, workerVars>>
        BY <3>1
        DEF Message, HandleHello, HandleLeave, HandleUsers, HandleRoom, HandleChat, Close,
            Receive, Begin
      <4>2. \A t \in Session : t # s => todo'[t] = todo[t]
        BY <3>1, MessageOthers
      <4> QED BY <4>1, <4>2, HandlerAsks
    <3>2. CASE CallStep(s) /\ ~Create(s)
      <4>1. UNCHANGED <<managerVars, workerVars>>
        BY <3>2
        DEF CallStep, GetFound, GetMissing, GetRefused, GetForCreate, Send, SendPanics, Await
      <4>2. \A t \in Session : t # s => todo'[t] = todo[t]
        BY <3>2, CallOthers
      <4> QED BY <4>1, <4>2, HandlerAsks
    <3> QED BY <2>1, <3>1, <3>2
  <2>2. CASE UNCHANGED vars
    BY <2>2, DirectoryStutter
    DEF vars, managerVars, workerVars, OpenRooms, MembersOf, PINOf
  <2> QED
    BY <2>1, <2>2, CreateOpens, JobSimulates, EndSimulates DEF Next, WorkerStep
<1> QED BY <1>1, <1>2, Invariance, PTL DEF Spec, ImplementsDirectory, Directory!Spec

-----------------------------------------------------------------------------
(* Who is in a room and who is shown there: nobody gets in that may not,   *)
(* nobody stays that has left, and nobody in the room is missing from the  *)
(* list of the others.  First the inductive invariant behind AccessControl. *)

\* A join that has got past its lookup may be made.
Checked(s) ==
    phase[s] \in {"create", "send", "await"} /\ Cur(s).op = "join" => MayJoin(s, Cur(s).room)

\* Who joins has sent a message.
HasSent(s) == (\E i \in 1..Len(todo[s]) : todo[s][i].op = "join") => sent[s] > 0

\* The members may be there.
MembersMay == \A w \in Worker : \A s \in users[w] : MayJoin(s, wroom[w])

\* Rooms are made by accounts, where that is asked for.
MadeByAccount ==
    AuthorizeRoomCreation /\ (\A s \in Account : sent[s] = 0) =>
        \A r \in Room : roomTable[r] = NoWorker

AccessInv == /\ \A s \in Session : Checked(s) /\ HasSent(s)
             /\ MembersMay /\ MadeByAccount

-----------------------------------------------------------------------------
(* The inductive invariant behind NoGhosts. *)

\* No channel is full: no job is dropped by Run.
NoneFull == \A w \in Worker : Len(workers[w]) < roomMaxWorkers

\* The calls around a join: the session is in no room by then, the Left of the room
\* before is the last thing it did, and Joined and welcome are all that follows.
JoinShape(s) == \A i \in 1..Len(todo[s]) :
    /\ todo[s][i].op = "join" =>
           /\ ~disconnected[s]
           /\ IF i = 1 THEN ~Hello[s] ELSE todo[s][i - 1].op = "Left"
           /\ \A k \in 1..Len(todo[s]) : k > i =>
                  todo[s][k].op \in {"Joined", "welcome"} /\ todo[s][k].room = todo[s][i].room
    /\ todo[s][i].op = "welcome" => i = Len(todo[s])

Stays(s, w) == Hello[s] /\ Roomid[s] = wroom[w] /\ ~disconnected[s] /\ ~Leaving(s)

ToLeave(s, w) == \E i \in 1..Len(todo[s]) :
    todo[s][i].op = "leave" /\ todo[s][i].room = wroom[w]

JustIn(s, w) ==
    /\ phase[s] = "await" /\ Cur(s).op = "join" /\ target[s] = w
    /\ reply[s] # NoReply /\ reply[s].ok

\* Every member is about to get in, in, or about to get out.
MembersAccounted == \A w \in Worker : \A s \in users[w] :
    Stays(s, w) \/ LeaveQueued(s, w) \/ ToLeave(s, w) \/ JustIn(s, w)

GhostInv == (\A s \in Session : JoinShape(s)) /\ MembersAccounted

-----------------------------------------------------------------------------
(* The inductive invariant behind BuddiesComplete. *)

\* s is in the first room of its connection.
InFirst(s) == Hello[s] /\ ~disconnected[s] /\ sent[s] = 1

\* It was in none before and has left none, has shown none before the Welcome, and
\* has only to tell the others and to ask who they are.
FirstShape(s) ==
    /\ sent[s] = 0 => todo[s] = <<>> /\ ~Hello[s] /\ ~inRoom[s]
    /\ sent[s] = 1 /\ (\E i \in 1..Len(todo[s]) : todo[s][i].op = "welcome") => ~inRoom[s]
    /\ sent[s] = 1 /\ ~disconnected[s] => \A i \in 1..Len(todo[s]) :
           todo[s][i].op \in {"join", "Joined", "welcome"}
    /\ sent[s] <= 1 /\ ~disconnected[s] => \A w \in Worker : ~LeaveQueued(s, w)
    /\ InFirst(s) => \A i \in 1..Len(todo[s]) :
           todo[s][i].op \in {"Joined", "welcome"} /\ todo[s][i].room = Roomid[s]

\* Who joins has still to tell the others, and to ask who they are.
TellsAll(s) == \A i \in 1..Len(todo[s]) : todo[s][i].op = "join" =>
    \E k, l \in 1..Len(todo[s]) :
        k > i /\ l > i /\ todo[s][k].op = "Joined" /\ todo[s][l].op = "welcome"

Going(u, w) == LeaveQueued(u, w) \/ ToLeave(u, w)

\* A Left on the channel is of somebody who has gone or is going.
LeftInv == \A w \in Worker : \A i \in 1..Len(workers[w]) :
    workers[w][i].op = "Left" /\ workers[w][i].from \in users[w] =>
        Going(workers[w][i].from, w)

\* The Joined of u is still to be broadcast.
JoinedComing(u, w) ==
    \/ \E i \in 1..Len(workers[w]) : workers[w][i].op = "Joined" /\ workers[w][i].from = u
    \/ \E i \in 1..Len(todo[u]) : todo[u][i].op = "Joined" /\ todo[u][i].room = wroom[w]

\* The Welcome of s is still to come, and may have u in it.
WelcomeComing(s, u) == \E i \in 1..Len(todo[s]) :
    /\ todo[s][i].op = "welcome"
    /\ i = 1 /\ phase[s] = "await" /\ reply[s] # NoReply => u \in reply[s].users

\* s shows u, will, or u is about to go.
Shows(s, u, w) == \/ u \in buddies[s] \/ WelcomeComing(s, u)
                  \/ JoinedComing(u, w) \/ Going(u, w)

ShownInv == \A s \in Session : InFirst(s) =>
    LET w == roomTable[Roomid[s]] IN \A u \in users[w] : u # s => Shows(s, u, w)

BuddyInv == (\A s \in Session : FirstShape(s) /\ TellsAll(s)) /\ LeftInv /\ ShownInv

-----------------------------------------------------------------------------
(* Nobody is in a room it may not be in. *)

\* What the steps of a call leave of the calls of s.
LEMMA CallsLeft ==
    ASSUME IInv, NEW s \in Session, CallStep(s)
    PROVE  /\ todo[s] # <<>> /\ todo[s] \in Seq(Call)
           /\ \A t \in Session : t # s => todo'[t] = todo[t] /\ phase'[t] = phase[t]
           /\ \/ todo'[s] = todo[s]
              \/ todo'[s] = Tail(todo[s]) /\ phase'[s] \in {"idle", "get"}
              \/ todo'[s] = <<>> /\ phase'[s] = "idle" /\ Cur(s).op = "join"
           /\ users' = users /\ sent' = sent /\ disconnected' = disconnected
<1>1. todo[s] # <<>> /\ todo[s] \in Seq(Call)
  BY DEF IInv, TypeOK, CallStep, GetFound, GetMissing, GetRefused, GetForCreate, Create, Send,
         SendPanics, Await, At
<1>2. users' = users /\ sent' = sent /\ disconnected' = disconnected
  BY DEF CallStep, GetFound, GetMissing, GetRefused, GetForCreate, Create, Send, SendPanics,
         Await, Answer, AdvancePlain, JoinFailed, workerVars, sessionVars
<1>3. CASE JoinFailed(s) /\ Cur(s).op = "join"
  BY <1>1, <1>2, <1>3 DEF IInv, JoinFailed, TypeOK
<1>4. CASE Advance(s)
  BY <1>1, <1>2, <1>4 DEF IInv, Advance, TypeOK
<1>5. CASE todo' = todo /\ \E p : phase' = [phase EXCEPT ![s] = p]
  BY <1>1, <1>2, <1>5 DEF IInv, TypeOK
<1>6. CallOK(s) /\ TypeOK BY DEF IInv, CallInv
<1>7. \/ JoinFailed(s) /\ Cur(s).op = "join"
      \/ Advance(s)
      \/ todo' = todo /\ \E p : phase' = [phase EXCEPT ![s] = p]
      \/ phase[s] = "create" /\ JoinFailed(s)
  BY DEF CallStep, GetFound, GetMissing, GetRefused, GetForCreate, Create, Send, SendPanics,
         Await, Answer, AdvancePlain, At
<1>8. phase[s] = "create" => Cur(s).op = "join" BY <1>6 DEF CallOK
<1> QED BY <1>3, <1>4, <1>5, <1>7, <1>8

\* A handler goes on to calls it had already.
LEMMA CallsKept ==
    ASSUME IInv, NEW s \in Session, CallStep(s), NEW t \in Session
    PROVE  /\ Len(todo[t]) \in Nat /\ Len(todo'[t]) \in Nat
           /\ \A i \in 1..Len(todo'[t]) : \E j \in 1..Len(todo[t]) :
                  /\ todo'[t][i] = todo[t][j]
                  /\ j = IF todo'[t] = todo[t] THEN i ELSE i + 1
<1>1. todo[t] \in Seq(Call) BY DEF IInv, TypeOK
<1>2. CASE todo'[t] = todo[t] BY <1>1, <1>2
<1>3. CASE todo'[t] = Tail(todo[t]) /\ todo[t] # <<>> /\ todo'[t] # todo[t]
  BY <1>1, <1>3, TailFacts
<1>4. CASE todo'[t] = <<>> BY <1>1, <1>4
<1> QED BY <1>2, <1>3, <1>4, CallsLeft

\* What the others wait for is not touched.
LEMMA OthersWait ==
    ASSUME IInv, NEW s \in Session, CallStep(s)
    PROVE  \A t \in Session : t # s => target'[t] = target[t] /\ reply'[t] = reply[t]
<1>1. /\ target' = target \/ \E x : target' = [target EXCEPT ![s] = x]
      /\ reply' = reply \/ reply' = [reply EXCEPT ![s] = NoReply]
  BY DEF CallStep, GetFound, GetMissing, GetRefused, GetForCreate, Create, Send, SendPanics,
         Await, Answer, Advance, AdvancePlain, JoinFailed
<1> QED BY <1>1 DEF IInv, TypeOK

\* The calls of the sessions that do nothing, and their Checked and HasSent.
LEMMA AccessFrame ==
    ASSUME AccessInv, NEW t \in Session, todo'[t] = todo[t], phase'[t] = phase[t],
           sent'[t] = sent[t]
    PROVE  Checked(t)' /\ HasSent(t)'
BY DEF AccessInv, Checked, HasSent, Cur, MayJoin

\* What is left of the calls of a handler holds no new join.
LEMMA HasSentKept ==
    ASSUME IInv, AccessInv, NEW s \in Session, CallStep(s), NEW t \in Session
    PROVE  HasSent(t)'
<1>1. sent' = sent BY CallsLeft
<1>2. HasSent(t) BY DEF AccessInv
<1>3. \A i \in 1..Len(todo'[t]) : \E j \in 1..Len(todo[t]) : todo'[t][i] = todo[t][j]
  BY CallsKept
<1> QED BY <1>1, <1>2, <1>3 DEF HasSent

\* The join of a handler is checked before it gets past the lookup (JoinRoom,
\* GetOrCreate).
LEMMA CheckedKept ==
    ASSUME IInv, AccessInv, NEW s \in Session, CallStep(s)
    PROVE  Checked(s)'
<1>1. Checked(s) /\ CallOK(s) /\ TypeOK BY DEF AccessInv, IInv, CallInv
<1>2. phase \in [Session -> {"idle", "get", "create", "send", "await", "panicked"}]
  BY <1>1 DEF TypeOK
<1>3. CASE phase'[s] \in {"idle", "get"} BY <1>3 DEF Checked
<1>4. CASE ~(phase'[s] \in {"idle", "get"}) /\ todo' = todo
  <2>1. Cur(s)' = Cur(s) BY <1>4 DEF Cur
  <2>2. CASE phase[s] \in {"create", "send"}
    BY <1>1, <2>1, <2>2 DEF Checked, MayJoin
  <2>3. CASE phase[s] = "get"
    <3>1. ASSUME Cur(s).op = "join" PROVE MayJoin(s, Cur(s).room)
      <4>1. CASE GetFound(s) \/ GetForCreate(s)
        BY <3>1, <4>1 DEF GetFound, GetForCreate
      <4>2. CASE GetRefused(s)
        BY <1>2, <1>4, <4>2 DEF GetRefused, JoinFailed
      <4> QED
        BY <2>3, <3>1, <4>1, <4>2
        DEF CallStep, GetMissing, Create, Send, SendPanics, Await, At
    <3>2. CASE Cur(s).op = "join" BY <2>1, <3>1, <3>2 DEF Checked, MayJoin
    <3>3. CASE Cur(s).op # "join" BY <2>1, <3>3 DEF Checked
    <3> QED BY <3>2, <3>3
  <2>4. CASE phase[s] = "await"
    BY <1>1, <2>1, <2>4 DEF Checked, MayJoin
  <2> QED BY <2>2, <2>3, <2>4
          DEF CallStep, GetFound, GetMissing, GetRefused, GetForCreate, Create, Send,
              SendPanics, Await, At
<1>5. CASE ~(phase'[s] \in {"idle", "get"}) /\ todo' # todo
  <2>1. todo'[s] = todo[s] /\ \A t \in Session : todo'[t] = todo[t]
    BY <1>5, CallsLeft
  <2>2. TypeOK' BY <1>1, CallStepTypes
  <2>3. todo' \in [Session -> Seq(Call)] /\ todo \in [Session -> Seq(Call)]
    BY <1>1, <2>2 DEF TypeOK
  <2> QED BY <1>5, <2>1, <2>3
<1> QED BY <1>3, <1>4, <1>5

\* The worker that GetOrCreate makes is new: it is nobody's room yet.
LEMMA NewWorker ==
    ASSUME IInv, NEW s \in Session, CallStep(s)
    PROVE  \/ UNCHANGED <<roomTable, wstate, wroom>>
           \/ \E w \in Worker :
                  /\ wstate[w] = "unborn" /\ users[w] = {} /\ workers[w] = <<>>
                  /\ phase[s] = "create" /\ MayCreate(s)
                  /\ Cur(s).room \in Room /\ roomTable[Cur(s).room] = NoWorker
                  /\ roomTable' = [roomTable EXCEPT ![Cur(s).room] = w]
                  /\ wstate' = [wstate EXCEPT ![w] = "running"]
                  /\ wroom' = [wroom EXCEPT ![w] = Cur(s).room]
                  /\ UNCHANGED <<users, workers, todo, reply, sessionVars, clientVars>>
                  /\ phase' = [phase EXCEPT ![s] = "send"]
                  /\ target' = [target EXCEPT ![s] = w]
<1>1. CASE UNCHANGED managerVars BY <1>1 DEF managerVars
<1>2. CASE ~UNCHANGED managerVars
  <2>1. Create(s)
    BY <1>2 DEF CallStep, GetFound, GetMissing, GetRefused, GetForCreate, Send, SendPanics, Await
  <2> PICK w, r : r = Cur(s).room /\ w = CHOOSE v \in Worker : wstate[v] = "unborn"
    OBVIOUS
  <2>2. /\ roomTable[r] = NoWorker /\ Unborn # {} /\ MayCreate(s) /\ phase[s] = "create"
        /\ roomTable' = [roomTable EXCEPT ![r] = w]
        /\ wstate' = [wstate EXCEPT ![w] = "running"]
        /\ wroom' = [wroom EXCEPT ![w] = r]
        /\ phase' = [phase EXCEPT ![s] = "send"]
        /\ target' = [target EXCEPT ![s] = w]
        /\ UNCHANGED <<users, workers, todo, reply, sessionVars, clientVars>>
    BY <1>2, <2>1 DEF Create, Recheck, At
  <2>3. w \in Worker /\ wstate[w] = "unborn" BY <2>2 DEF Unborn
  <2>4. users[w] = {} /\ workers[w] = <<>> BY <2>3 DEF IInv, TableInv
  <2>5. r \in Room BY <2>1, CurFacts DEF Create, At, IInv, Call
  <2> QED BY <2>2, <2>3, <2>4, <2>5
<1> QED BY <1>1, <1>2

\* A call keeps AccessInv: who creates a room for the first time is an account that
\* has said Hello (GetOrCreate, under the write lock).
LEMMA AccessCall ==
    ASSUME IInv, AccessInv, NEW s \in Session, CallStep(s)
    PROVE  AccessInv'
<1>1. ASSUME NEW t \in Session PROVE Checked(t)' /\ HasSent(t)'
  <2>1. HasSent(t)' BY HasSentKept
  <2>2. CASE t = s BY <2>1, <2>2, CheckedKept
  <2>3. CASE t # s BY <2>1, <2>3, CallsLeft, AccessFrame
  <2> QED BY <2>2, <2>3
<1>2. users' = users /\ sent' = sent BY CallsLeft
<1>3. MembersMay /\ MadeByAccount BY DEF AccessInv
<1>4. CASE UNCHANGED <<roomTable, wstate, wroom>>
  <2>1. MembersMay' BY <1>2, <1>3, <1>4 DEF MembersMay, MayJoin
  <2>2. MadeByAccount' BY <1>2, <1>3, <1>4 DEF MadeByAccount
  <2> QED BY <1>1, <2>1, <2>2 DEF AccessInv
<1>5. ASSUME NEW w \in Worker, wstate[w] = "unborn", users[w] = {}, MayCreate(s),
             phase[s] = "create", wroom' = [wroom EXCEPT ![w] = Cur(s).room]
      PROVE  AccessInv'
  <2>1. wroom \in [Worker -> Room \cup {NoRoom}] /\ sent \in [Session -> Nat] /\ CallOK(s)
    BY DEF IInv, TypeOK, CallInv
  <2>2. MembersMay'
    <3> SUFFICES ASSUME NEW v \in Worker, NEW t \in users[v] PROVE MayJoin(t, wroom'[v])
      BY <1>2 DEF MembersMay, MayJoin
    <3>1. v # w BY <1>5
    <3> QED BY <1>3, <1>5, <2>1, <3>1 DEF MembersMay
  <2>3. MadeByAccount'
    <3>1. Cur(s).op = "join" /\ todo[s] # <<>> BY <1>5, <2>1 DEF CallOK
    <3>2. Cur(s) = todo[s][1] /\ 1 \in 1..Len(todo[s]) BY <3>1, CurFacts DEF IInv
    <3>3. sent[s] > 0 BY <3>1, <3>2 DEF AccessInv, HasSent
    <3> QED BY <1>2, <1>5, <2>1, <3>3 DEF MadeByAccount, MayCreate
  <2> QED BY <1>1, <2>2, <2>3 DEF AccessInv
<1> QED BY <1>4, <1>5, NewWorker

\* A message of s begins a handler, or ends the connection of one that is in no room.
LEMMA MessageFacts ==
    ASSUME IInv, NEW s \in Session, Message(s)
    PROVE  /\ phase[s] = "idle" /\ todo[s] = <<>> /\ ~disconnected[s]
           /\ UNCHANGED <<managerVars, workerVars, workers, target, reply, Hello, Roomid>>
           /\ \A t \in Session : t # s =>
                  /\ todo'[t] = todo[t] /\ phase'[t] = phase[t] /\ sent'[t] = sent[t]
                  /\ disconnected'[t] = disconnected[t]
                  /\ buddies'[t] = buddies[t] /\ inRoom'[t] = inRoom[t]
           /\ \/ /\ sent'[s] = sent[s] + 1 /\ phase'[s] = "get"
                 /\ UNCHANGED <<disconnected, clientVars>>
              \/ /\ sent' = sent /\ disconnected'[s] /\ Hello[s]
                 /\ todo'[s] = CloseCalls(s) /\ phase'[s] = "get"
              \/ /\ sent' = sent /\ disconnected'[s] /\ ~Hello[s]
                 /\ todo' = todo /\ phase' = phase
<1>1. TypeOK /\ CallOK(s) BY DEF IInv, CallInv
<1>2. CASE Close(s)
  BY <1>1, <1>2 DEF Close, Reads, Begin, CallOK, TypeOK, managerVars, workerVars
<1>3. CASE ~Close(s)
  <2>1. PICK cs : Receive(s, cs)
    BY <1>3 DEF Message, HandleHello, HandleLeave, HandleUsers, HandleRoom, HandleChat
  <2> QED BY <1>1, <2>1 DEF Receive, Reads, Begin, CallOK, TypeOK, clientVars
<1> QED BY <1>2, <1>3

LEMMA AccessMessage ==
    ASSUME IInv, AccessInv, NEW s \in Session, Message(s)
    PROVE  AccessInv'
<1>1. users' = users /\ wroom' = wroom /\ roomTable' = roomTable
  BY MessageFacts DEF managerVars, workerVars
<1>2. sent \in [Session -> Nat] BY DEF IInv, TypeOK
<1>3. ASSUME NEW t \in Session PROVE Checked(t)' /\ HasSent(t)'
  <2>1. CASE t # s BY <2>1, MessageFacts, AccessFrame
  <2>2. CASE t = s
    <3>1. todo[s] = <<>> /\ phase[s] = "idle" BY MessageFacts
    <3>2. Checked(s)'
      <4>1. phase'[s] \in {"idle", "get"} BY <3>1, MessageFacts
      <4> QED BY <4>1 DEF Checked
    <3>3. CASE sent'[s] = sent[s] + 1
      <4>1. sent'[s] > 0 BY <1>2, <3>3
      <4> QED BY <2>2, <3>2, <4>1 DEF HasSent
    <3>4. CASE todo'[s] = CloseCalls(s)
      <4>1. Len(CloseCalls(s)) = 2 /\ CloseCalls(s)[1].op # "join" /\ CloseCalls(s)[2].op # "join"
        BY DEF CloseCalls, Plain, NewCall
      <4>2. ASSUME NEW i \in 1..Len(todo'[s]) PROVE todo'[s][i].op # "join"
        <5>1. i = 1 \/ i = 2 BY <3>4, <4>1
        <5> QED BY <3>4, <4>1, <5>1
      <4> QED BY <2>2, <3>2, <4>2 DEF HasSent
    <3>5. CASE todo' = todo
      <4>1. todo'[s] = <<>> BY <3>1, <3>5
      <4> QED BY <2>2, <3>2, <4>1 DEF HasSent
    <3> QED BY <3>3, <3>4, <3>5, MessageFacts
  <2> QED BY <2>1, <2>2
<1>4. \A t \in Session : sent'[t] = 0 => sent[t] = 0
  BY <1>2, MessageFacts
<1>5. MembersMay' BY <1>1 DEF AccessInv, MembersMay, MayJoin
<1>6. MadeByAccount'
  BY <1>1, <1>4, ConstantsAssumption DEF AccessInv, MadeByAccount
<1> QED BY <1>3, <1>5, <1>6 DEF AccessInv

\* The job a worker runs, if somebody waits for it, is the call its sender has got to.
LEMMA RunsFor ==
    ASSUME IInv, NEW w \in Worker, wstate[w] = "running", workers[w] # <<>>,
           Job1(w).op \in Answered
    PROVE  LET s == Job1(w).from IN
           /\ s \in Session /\ phase[s] = "await" /\ target[s] = w /\ reply[s] = NoReply
           /\ Cur(s).op = Job1(w).op /\ Cur(s).room = wroom[w]
           /\ \A k \in 1..Len(workers[w]) : k > 1 => workers[w][k].from # s
<1>1. Job1(w) = workers[w][1] /\ 1 \in 1..Len(workers[w]) /\ Job1(w).from \in Session
  BY HeadJob DEF IInv, Job
<1>2. QueueOK(w, 1) /\ CallOK(Job1(w).from) BY <1>1 DEF IInv, QueueInv, CallInv
<1> QED BY <1>1, <1>2 DEF QueueOK, CallOK

\* What a worker does leaves the handlers alone, but for the answer to one; members
\* come by a join and go by a leave only.
LEMMA WorkerFacts ==
    ASSUME IInv, NEW w \in Worker, WorkerStep(w)
    PROVE  /\ UNCHANGED <<wroom, todo, phase, target, sessionVars, inRoom>>
           /\ \A r \in Room : roomTable'[r] \in {roomTable[r], NoWorker}
           /\ \A v \in Worker : users'[v] \subseteq
                  users[v] \cup (IF v = w /\ RunJoin(w) THEN {Job1(w).from} ELSE {})
<1>1. TypeOK BY DEF IInv
<1>2. CASE RunJoin(w)
  BY <1>1, <1>2 DEF RunJoin, Runs, TypeOK, managerVars, clientVars
<1>3. CASE RunLeave(w)
  BY <1>1, <1>3 DEF RunLeave, TypeOK, managerVars, clientVars
<1>4. CASE RunUpdate(w) \/ RunUsers(w) \/ RunBroadcast(w)
  BY <1>1, <1>4
  DEF RunUpdate, RunUsers, RunBroadcast, TypeOK, managerVars, workerVars, clientVars
<1>5. CASE Expire(w) \/ CloseWorkers(w) \/ Cleanup(w)
  BY <1>1, <1>5 DEF Expire, CloseWorkers, Cleanup, TypeOK, workerVars, clientVars
<1> QED BY <1>2, <1>3, <1>4, <1>5 DEF WorkerStep, RunJob

\* Whom a worker lets in has been checked (Join, after JoinRoom).
LEMMA AccessWorker ==
    ASSUME IInv, AccessInv, NEW w \in Worker, WorkerStep(w)
    PROVE  AccessInv'
<1>1. UNCHANGED <<wroom, todo, phase, sent>> BY WorkerFacts DEF sessionVars
<1>2. \A t \in Session : Checked(t)' /\ HasSent(t)'
  BY <1>1, AccessFrame
<1>3. MembersMay'
  <2> SUFFICES ASSUME NEW v \in Worker, NEW t \in users'[v] PROVE MayJoin(t, wroom[v])
    BY <1>1 DEF MembersMay, MayJoin
  <2>1. CASE t \in users[v] BY <2>1 DEF AccessInv, MembersMay
  <2>2. CASE v = w /\ RunJoin(w) /\ t = Job1(w).from
    <3>1. wstate[w] = "running" /\ workers[w] # <<>> /\ Job1(w).op = "join"
      BY <2>2 DEF RunJoin, Runs
    <3>2. t \in Session /\ phase[t] = "await" /\ Cur(t).op = "join" /\ Cur(t).room = wroom[w]
      BY <2>2, <3>1, RunsFor DEF Answered
    <3> QED BY <2>2, <3>2 DEF AccessInv, Checked
  <2> QED BY <2>1, <2>2, WorkerFacts
<1>4. MadeByAccount' BY <1>1, WorkerFacts DEF AccessInv, MadeByAccount
<1> QED BY <1>2, <1>3, <1>4 DEF AccessInv

\* JoinRoom and GetOrCreate check before they look up and before they create: nobody
\* gets round that by what others do in between (room_manager.go, roomworker.go).
THEOREM Access == Spec => []AccessControl
<1>1. Init => AccessInv
  BY DEF Init, AccessInv, Checked, HasSent, MembersMay, MadeByAccount
<1>2. IInv /\ AccessInv /\ [Next]_vars => AccessInv'
  <2> SUFFICES ASSUME IInv, AccessInv, [Next]_vars PROVE AccessInv'
    OBVIOUS
  <2>1. CASE UNCHANGED vars
    <3>1. \A t \in Session : Checked(t)' /\ HasSent(t)' BY <2>1, AccessFrame DEF vars
    <3> QED BY <2>1, <3>1 DEF vars, AccessInv, MembersMay, MadeByAccount, MayJoin
  <2>2. ASSUME NEW s \in Session, Message(s) \/ CallStep(s) PROVE AccessInv'
    BY <2>2, AccessMessage, AccessCall
  <2>3. ASSUME NEW w \in Worker, WorkerStep(w) PROVE AccessInv'
    BY <2>3, AccessWorker
  <2> QED BY <2>1, <2>2, <2>3 DEF Next
<1>3. AccessInv => AccessControl
  BY DEF AccessInv, MembersMay, MadeByAccount, MayJoin, AccessControl
<1> QED BY <1>1, <1>2, <1>3, Invariance, PTL DEF Spec


-----------------------------------------------------------------------------
(* Nobody stays that has left. *)

\* A call adds one job to one channel at most: its own.
LEMMA CallQueues ==
    ASSUME IInv, NEW s \in Session, CallStep(s), NEW w \in Worker
    PROVE  /\ workers[w] \in Seq(Job) /\ Len(workers[w]) \in Nat
           /\ \A i \in 1..Len(workers[w]) :
                  i \in 1..Len(workers'[w]) /\ workers'[w][i] = workers[w][i]
           /\ \A i \in 1..Len(workers'[w]) :
                  \/ i \in 1..Len(workers[w])
                  \/ /\ workers'[w][i].op = Cur(s).op /\ workers'[w][i].from = s
                     /\ Send(s) /\ target[s] = w
<1> DEFINE job == [op |-> Cur(s).op, from |-> s, cred |-> Cur(s).cred]
<1>1. workers \in [Worker -> Seq(Job)] /\ workers[w] \in Seq(Job) /\ Len(workers[w]) \in Nat
  BY DEF IInv, TypeOK
<1>2. CASE workers'[w] = workers[w] BY <1>1, <1>2
<1>3. CASE workers'[w] # workers[w]
  <2>1. Send(s)
    BY <1>3
    DEF CallStep, GetFound, GetMissing, GetRefused, GetForCreate, Create, SendPanics, Await
  <2>2. workers' = [workers EXCEPT ![target[s]] = Append(@, job)]
    BY <1>3, <2>1 DEF Send
  <2>3. job \in Job /\ job.op = Cur(s).op /\ job.from = s
    BY <2>1, CurFacts DEF Send, At, IInv, Call, Job
  <2> HIDE DEF job
  <2>4. target[s] = w /\ workers'[w] = Append(workers[w], job) BY <1>1, <1>3, <2>2
  <2> QED BY <1>1, <2>1, <2>3, <2>4, AppendFacts
<1> QED BY <1>2, <1>3

\* The worker of a room with members is the one the table has, and the one a call to
\* that room finds.
LEMMA FindsMembers ==
    ASSUME IInv, NEW s \in Session, todo[s] # <<>>, NEW w \in Worker, users[w] # {},
           Cur(s).room = wroom[w]
    PROVE  /\ wstate[w] = "running" /\ wroom[w] \in Room
           /\ roomTable[wroom[w]] = w /\ w # NoWorker
           /\ phase[s] = "send" /\ Open(target[s]) => target[s] = w
<1>1. TableInv /\ CallOK(s) BY DEF IInv, CallInv
<1>2. wstate[w] = "running" /\ wroom[w] \in Room /\ roomTable[wroom[w]] = w
  BY <1>1 DEF TableInv, Alive
<1>3. phase[s] = "send" /\ Open(target[s]) =>
          roomTable[wroom[target[s]]] = target[s] /\ wroom[target[s]] = wroom[w]
  BY <1>1 DEF CallOK, TableInv, Alive, Open
<1> QED BY <1>2, <1>3, ConstantsAssumption

\* A call that needs no answer, to a room with members, is over when its job is on
\* the channel: Run does not drop it.
LEMMA CallDone ==
    ASSUME IInv, NoneFull, NEW s \in Session, CallStep(s), todo'[s] # todo[s],
           Cur(s).op \notin Answered,
           NEW w \in Worker, users[w] # {}, Cur(s).room = wroom[w]
    PROVE  \E i \in 1..Len(workers'[w]) :
               workers'[w][i].op = Cur(s).op /\ workers'[w][i].from = s
<1> DEFINE job == [op |-> Cur(s).op, from |-> s, cred |-> Cur(s).cred]
<1>1. todo[s] # <<>> /\ todo[s] \in Seq(Call) /\ CallOK(s)
  BY CallsLeft DEF IInv, CallInv
<1>2. roomTable[Cur(s).room] # NoWorker BY <1>1, FindsMembers
<1>3. Send(s)
  BY <1>1, <1>2
  DEF CallStep, CallOK, GetFound, GetMissing, GetRefused, GetForCreate, Create, SendPanics,
      Await, At, Answered
<1>4. target[s] = w BY <1>1, <1>3, FindsMembers DEF Send, At
<1>5. workers' = [workers EXCEPT ![w] = Append(@, job)]
  BY <1>3, <1>4 DEF Send, NoneFull
<1>6. job \in Job /\ job.op = Cur(s).op /\ job.from = s
  BY <1>1, CurFacts DEF IInv, Call, Job
<1> HIDE DEF job
<1>7. workers \in [Worker -> Seq(Job)] /\ workers[w] \in Seq(Job) BY DEF IInv, TypeOK
<1>8. workers'[w] = Append(workers[w], job) BY <1>5, <1>7
<1>9. Len(workers[w]) + 1 \in 1..Len(workers'[w]) BY <1>6, <1>7, <1>8, AppendFacts
<1> QED BY <1>6, <1>7, <1>8, <1>9, AppendFacts

\* Where there are members nothing changes but members.
LEMMA RoomKept ==
    ASSUME IInv, NEW s \in Session, CallStep(s), NEW w \in Worker, users[w] # {}
    PROVE  wroom'[w] = wroom[w] /\ wstate'[w] = wstate[w] /\ users'[w] = users[w]
<1>1. wstate \in [Worker -> {"unborn", "running", "stopping", "closed", "gone"}]
      /\ wroom \in [Worker -> Room \cup {NoRoom}]
  BY DEF IInv, TypeOK
<1>2. users' = users BY CallsLeft
<1>3. CASE UNCHANGED <<roomTable, wstate, wroom>> BY <1>2, <1>3
<1>4. ASSUME NEW v \in Worker, users[v] = {}, wstate' = [wstate EXCEPT ![v] = "running"],
             wroom' = [wroom EXCEPT ![v] = Cur(s).room]
      PROVE  wroom'[w] = wroom[w] /\ wstate'[w] = wstate[w] /\ users'[w] = users[w]
  <2>1. v # w BY <1>4
  <2> QED BY <1>1, <1>2, <1>4, <2>1
<1> QED BY <1>3, <1>4, NewWorker

\* Who is going is still going after any call of anybody.
LEMMA GoingKept ==
    ASSUME IInv, NoneFull, NEW s \in Session, JoinShape(s), CallStep(s),
           NEW u \in Session, NEW w \in Worker, users[w] # {}, Going(u, w)
    PROVE  Going(u, w)'
<1>1. wroom'[w] = wroom[w] BY RoomKept
<1>2. CASE LeaveQueued(u, w) BY <1>2, CallQueues DEF Going, LeaveQueued
<1>3. CASE ToLeave(u, w)
  <2>1. PICK i \in 1..Len(todo[u]) : todo[u][i].op = "leave" /\ todo[u][i].room = wroom[w]
    BY <1>3 DEF ToLeave
  <2>2. CASE todo'[u] = todo[u] BY <1>1, <2>1, <2>2 DEF Going, ToLeave
  <2>3. CASE todo'[u] # todo[u]
    <3>1. u = s /\ todo[s] # <<>> /\ todo[s] \in Seq(Call) BY <2>3, CallsLeft
    <3>2. Cur(s) = todo[s][1] /\ 1 \in 1..Len(todo[s]) BY <3>1, CurFacts DEF IInv
    <3>3. CASE i = 1
      <4>1. Cur(s).op = "leave" /\ Cur(s).room = wroom[w] BY <2>1, <3>1, <3>2, <3>3
      <4>2. LeaveQueued(s, w)'
        BY <2>3, <3>1, <4>1, CallDone DEF Answered, LeaveQueued
      <4> QED BY <3>1, <4>2 DEF Going
    <3>4. CASE i # 1
      <4>1. Cur(s).op # "join" BY <2>1, <3>1, <3>2, <3>4 DEF JoinShape
      <4>2. todo'[s] = Tail(todo[s]) BY <2>3, <3>1, <4>1, CallsLeft
      <4>3. i - 1 \in 1..Len(todo'[s]) /\ todo'[s][i - 1] = todo[s][i]
        BY <2>1, <3>1, <3>4, <4>2, TailFacts
      <4> QED BY <1>1, <2>1, <3>1, <4>3 DEF Going, ToLeave
    <3> QED BY <3>3, <3>4
  <2> QED BY <2>2, <2>3
<1> QED BY <1>2, <1>3 DEF Going

\* JoinShape is about the calls and whether the session is in a room.
LEMMA ShapeFrame ==
    ASSUME NEW t \in Session, JoinShape(t), todo'[t] = todo[t],
           disconnected'[t] = disconnected[t], Hello'[t] = Hello[t]
    PROVE  JoinShape(t)'
BY DEF JoinShape

\* A session changes room only with its own calls, and only at the end of one.
LEMMA HelloKept ==
    ASSUME IInv, NEW s \in Session, CallStep(s)
    PROVE  /\ \A t \in Session : t # s => Hello'[t] = Hello[t] /\ Roomid'[t] = Roomid[t]
           /\ todo'[s] = todo[s] => Hello'[s] = Hello[s] /\ Roomid'[s] = Roomid[s]
           /\ todo'[s] # todo[s] =>
                \/ /\ Advance(s) /\ Roomid'[s] = Roomid[s] /\ Cur(s).op # "join"
                   /\ Hello'[s] = (Hello[s] /\ (Cur(s).op # "Left" \/ disconnected[s]))
                \/ /\ Cur(s).op = "join" /\ JoinFailed(s)
                \/ /\ Cur(s).op = "join" /\ phase[s] = "await" /\ Advance(s)
                   /\ reply[s] # NoReply /\ reply[s].ok
                   /\ Hello'[s] /\ Roomid'[s] = Cur(s).room
<1>1. TypeOK /\ CallOK(s) BY DEF IInv, CallInv
<1>2. Hello \in [Session -> BOOLEAN] /\ Roomid \in [Session -> Room \cup {NoRoom}]
      /\ todo \in [Session -> Seq(Call)] /\ todo[s] \in Seq(Call) /\ todo[s] # <<>>
  BY <1>1, CallsLeft DEF TypeOK
<1>3. Len(Tail(todo[s])) = Len(todo[s]) - 1 /\ Len(todo[s]) \in Nat BY <1>2, TailFacts
<1>4. Tail(todo[s]) # todo[s]
  <2> SUFFICES ASSUME Tail(todo[s]) = todo[s] PROVE FALSE
    OBVIOUS
  <2>1. Len(Tail(todo[s])) = Len(todo[s]) BY Zenon
  <2> QED BY <1>3, <2>1
<1>5. CASE Advance(s) /\ Cur(s).op \notin {"join", "Left"} /\ UNCHANGED <<Hello, Roomid>>
  BY <1>2, <1>5
<1>6. CASE AdvancePlain(s) /\ Cur(s).op # "join"
  BY <1>2, <1>4, <1>6 DEF AdvancePlain, Advance
<1>7. CASE JoinFailed(s) /\ Cur(s).op = "join"
  BY <1>2, <1>7 DEF JoinFailed
<1>8. CASE /\ Cur(s).op = "join" /\ phase[s] = "await" /\ Advance(s)
           /\ reply[s] # NoReply /\ reply[s].ok
           /\ Hello'  = [Hello EXCEPT ![s] = TRUE]
           /\ Roomid' = [Roomid EXCEPT ![s] = Cur(s).room]
  BY <1>2, <1>4, <1>8 DEF Advance
<1>9. CASE UNCHANGED <<todo, Hello, Roomid>> BY <1>9
<1>10. CASE Await(s)
  BY <1>5, <1>7, <1>8, <1>10 DEF Await, At, Answer, sessionVars
<1>11. CASE GetMissing(s)
  BY <1>5, <1>6, <1>7, <1>11 DEF GetMissing, Answer, Answered, sessionVars
<1>12. CASE Create(s)
  BY <1>1, <1>7, <1>9, <1>12 DEF Create, At, CallOK, sessionVars
<1>13. CASE Send(s)
  BY <1>6, <1>9, <1>13 DEF Send, Answered, sessionVars
<1>14. CASE GetRefused(s) BY <1>7, <1>14 DEF GetRefused
<1>15. CASE GetFound(s) \/ GetForCreate(s) \/ SendPanics(s)
  BY <1>9, <1>15 DEF GetFound, GetForCreate, SendPanics, sessionVars
<1> QED BY <1>10, <1>11, <1>12, <1>13, <1>14, <1>15 DEF CallStep

\* When the join of a handler comes first, the session is in no room: the Left
\* before it cleared Hello (doLeaveRoom).
LEMMA ShapeCall ==
    ASSUME IInv, NEW s \in Session, JoinShape(s), CallStep(s)
    PROVE  JoinShape(s)'
<1>1. /\ todo[s] \in Seq(Call) /\ todo[s] # <<>> /\ disconnected' = disconnected
      /\ Cur(s) = todo[s][1] /\ 1 \in 1..Len(todo[s]) /\ Len(todo[s]) \in Nat
      /\ TypeOK /\ TypeOK'
  BY CallsLeft, CurFacts, CallStepTypes DEF IInv
<1>2. CASE todo'[s] = todo[s] BY <1>1, <1>2, HelloKept, ShapeFrame
<1>3. CASE todo'[s] = <<>> BY <1>3 DEF JoinShape
<1>4. CASE todo'[s] = Tail(todo[s]) /\ todo'[s] # todo[s]
  <2> DEFINE q == todo[s]  p == todo'[s]
  <2>1. /\ Len(p) \in Nat /\ Len(p) = Len(q) - 1
        /\ \A i \in 1..Len(p) : i + 1 \in 1..Len(q) /\ p[i] = q[i + 1]
    BY <1>1, <1>4, TailFacts
  <2>2. \A i \in 1..Len(p) : i > 1 => i - 1 \in 1..Len(p) /\ p[i - 1] = q[i]
    <3> TAKE i \in 1..Len(p)
    <3> HAVE i > 1
    <3>1. i - 1 \in 1..Len(p) /\ (i - 1) + 1 = i BY <2>1
    <3> QED BY <2>1, <3>1
  <2>3. \A i \in 1..Len(p), k \in 1..Len(p) : k > i => k + 1 > i + 1
    BY <2>1
  <2> HIDE DEF p, q
  <2> SUFFICES ASSUME NEW i \in 1..Len(p)
               PROVE  /\ p[i].op = "join" =>
                           /\ ~disconnected'[s]
                           /\ IF i = 1 THEN ~Hello'[s] ELSE p[i - 1].op = "Left"
                           /\ \A k \in 1..Len(p) : k > i =>
                                p[k].op \in {"Joined", "welcome"} /\ p[k].room = p[i].room
                      /\ p[i].op = "welcome" => i = Len(p)
    BY DEF JoinShape, p
  <2>4. i + 1 \in 1..Len(q) /\ p[i] = q[i + 1] /\ i + 1 # 1 /\ (i + 1) - 1 = i BY <2>1
  <2>5. /\ q[i + 1].op = "join" =>
             /\ ~disconnected[s] /\ q[i].op = "Left"
             /\ \A k \in 1..Len(q) : k > i + 1 =>
                  q[k].op \in {"Joined", "welcome"} /\ q[k].room = q[i + 1].room
        /\ q[i + 1].op = "welcome" => i + 1 = Len(q)
    BY <2>4 DEF JoinShape, q
  <2>6. p[i].op = "welcome" => i = Len(p) BY <2>1, <2>4, <2>5
  <2>7. ASSUME p[i].op = "join" PROVE ~disconnected'[s] BY <1>1, <2>4, <2>5, <2>7
  <2>8. ASSUME p[i].op = "join", NEW k \in 1..Len(p), k > i
        PROVE  p[k].op \in {"Joined", "welcome"} /\ p[k].room = p[i].room
    <3>1. k + 1 \in 1..Len(q) /\ p[k] = q[k + 1] /\ k + 1 > i + 1 BY <2>1, <2>3, <2>8
    <3> QED BY <2>4, <2>5, <2>8, <3>1
  <2>9. ASSUME p[i].op = "join" PROVE IF i = 1 THEN ~Hello'[s] ELSE p[i - 1].op = "Left"
    <3>1. ~disconnected[s] /\ q[i].op = "Left" BY <2>4, <2>5, <2>9
    <3>2. CASE i = 1
      <4>1. Cur(s).op = "Left" BY <1>1, <3>1, <3>2 DEF q
      <4>2. ~Hello'[s] BY <1>4, <3>1, <4>1, HelloKept
      <4> QED BY <3>2, <4>2
    <3>3. CASE i # 1
      <4>1. i > 1 BY <3>3
      <4> QED BY <2>2, <3>1, <3>3, <4>1
    <3> QED BY <3>2, <3>3
  <2> QED BY <2>6, <2>7, <2>8, <2>9
<1> QED BY <1>2, <1>3, <1>4, CallsLeft

\* What the handler of a message is to do: HandleHello without and with a room to
\* leave, HandleLeave, those that only speak to the room, and Close.
LEMMA MessageKinds ==
    ASSUME IInv, ~Rehello, NEW s \in Session, Message(s)
    PROVE  LET q == todo'[s] IN
           \/ \E r \in Room, c \in Credentials :
                  /\ ~Hello[s] /\ sent'[s] = sent[s] + 1 /\ disconnected' = disconnected
                  /\ Len(q) = 3 /\ q[1] = NewCall("join", r, c)
                  /\ q[2] = Plain("Joined", r) /\ q[3] = Plain("welcome", r)
           \/ \E r \in Room, c \in Credentials :
                  /\ Hello[s] /\ sent'[s] = sent[s] + 1 /\ disconnected' = disconnected
                  /\ Len(q) = 5 /\ q[1] = Plain("leave", Roomid[s])
                  /\ q[2] = Plain("Left", Roomid[s]) /\ q[3] = NewCall("join", r, c)
                  /\ q[4] = Plain("Joined", r) /\ q[5] = Plain("welcome", r)
           \/ /\ Hello[s] /\ sent'[s] = sent[s] + 1 /\ disconnected' = disconnected
              /\ Len(q) = 2 /\ q[1] = Plain("leave", Roomid[s]) /\ q[2] = Plain("Left", Roomid[s])
           \/ /\ Hello[s] /\ sent'[s] = sent[s] + 1 /\ disconnected' = disconnected
              /\ Len(q) \in 1..2 /\ \A i \in 1..Len(q) : q[i].op \in {"users", "update", "Notify"}
           \/ /\ Hello[s] /\ disconnected'[s] /\ Len(q) = 2
              /\ q[1] = Plain("Left", Roomid[s]) /\ q[2] = Plain("leave", Roomid[s])
           \/ ~Hello[s] /\ disconnected'[s] /\ q = <<>>
<1>1. TypeOK /\ todo \in [Session -> Seq(Call)] /\ phase[s] = "idle" /\ todo[s] = <<>>
  BY MessageFacts DEF IInv, TypeOK
<1>2. sent \in [Session -> Nat] /\ disconnected \in [Session -> BOOLEAN] BY <1>1 DEF TypeOK
<1>3. ASSUME NEW cs, Receive(s, cs)
      PROVE  todo'[s] = cs /\ sent'[s] = sent[s] + 1 /\ disconnected' = disconnected
  BY <1>1, <1>2, <1>3 DEF Receive, Begin
<1>4. ASSUME NEW r \in Room, NEW c \in Credentials, HandleHello(s, r, c), ~Hello[s]
      PROVE  Receive(s, JoinCalls(r, c))
  <2>1. JoinCalls(r, c) \in Seq(Call) BY <1>1, CallTypes
  <2>2. <<>> \o JoinCalls(r, c) = JoinCalls(r, c) BY <2>1
  <2> QED BY <1>4, <2>2 DEF HandleHello, LeavesFirst
<1>5. ASSUME NEW r \in Room, NEW c \in Credentials, HandleHello(s, r, c), Hello[s]
      PROVE  LET q == todo'[s] IN
             /\ sent'[s] = sent[s] + 1 /\ disconnected' = disconnected
             /\ Len(q) = 5 /\ q[1] = Plain("leave", Roomid[s])
             /\ q[2] = Plain("Left", Roomid[s]) /\ q[3] = NewCall("join", r, c)
             /\ q[4] = Plain("Joined", r) /\ q[5] = Plain("welcome", r)
  <2> DEFINE j == JoinCalls(r, c)
             l == LeaveCalls(s)
  <2>1. j \in Seq(Call) /\ l \in Seq(Call) BY <1>1, <1>5, CallTypes
  <2>2. /\ Len(j) = 3 /\ j[1] = NewCall("join", r, c) /\ j[2] = Plain("Joined", r)
        /\ j[3] = Plain("welcome", r)
    BY DEF JoinCalls
  <2>3. Len(l) = 2 /\ l[1] = Plain("leave", Roomid[s]) /\ l[2] = Plain("Left", Roomid[s])
    BY DEF LeaveCalls
  <2>4. Receive(s, l \o j) BY <1>5 DEF HandleHello, LeavesFirst
  <2> HIDE DEF j, l
  <2>5. Len(l) = 2 /\ Len(j) = 3 =>
            /\ l \o j \in Seq(Call) /\ Len(l \o j) = 5
            /\ (l \o j)[1] = l[1] /\ (l \o j)[2] = l[2]
            /\ (l \o j)[3] = j[1] /\ (l \o j)[4] = j[2] /\ (l \o j)[5] = j[3]
    BY <2>1, ConcatFacts
  <2>6. todo'[s] = l \o j /\ sent'[s] = sent[s] + 1 /\ disconnected' = disconnected
    BY <1>3, <2>4
  <2> QED BY <2>2, <2>3, <2>5, <2>6, Zenon
<1>6. ASSUME NEW r \in Room, NEW c \in Credentials, HandleHello(s, r, c), ~Hello[s]
      PROVE  LET q == todo'[s] IN
             /\ sent'[s] = sent[s] + 1 /\ disconnected' = disconnected
             /\ Len(q) = 3 /\ q[1] = NewCall("join", r, c)
             /\ q[2] = Plain("Joined", r) /\ q[3] = Plain("welcome", r)
  <2>1. /\ todo'[s] = JoinCalls(r, c) /\ sent'[s] = sent[s] + 1
        /\ disconnected' = disconnected
    BY <1>3, <1>4, <1>6
  <2> QED BY <2>1 DEF JoinCalls
<1>7. ASSUME HandleLeave(s)
      PROVE  LET q == todo'[s] IN
             /\ Hello[s] /\ sent'[s] = sent[s] + 1 /\ disconnected' = disconnected
             /\ Len(q) = 2 /\ q[1] = Plain("leave", Roomid[s]) /\ q[2] = Plain("Left", Roomid[s])
  <2>1. Hello[s] /\ Receive(s, LeaveCalls(s)) BY <1>7 DEF HandleLeave
  <2>2. /\ todo'[s] = LeaveCalls(s) /\ sent'[s] = sent[s] + 1
        /\ disconnected' = disconnected
    BY <1>3, <2>1
  <2> QED BY <2>1, <2>2 DEF LeaveCalls
<1>8. ASSUME \/ HandleUsers(s) \/ HandleChat(s)
             \/ \E c \in Credentials : HandleRoom(s, c)
      PROVE  LET q == todo'[s] IN
             /\ Hello[s] /\ sent'[s] = sent[s] + 1 /\ disconnected' = disconnected
             /\ Len(q) \in 1..2 /\ \A i \in 1..Len(q) : q[i].op \in {"users", "update", "Notify"}
  <2>1. PICK cs : /\ Receive(s, cs) /\ Hello[s]
                  /\ \/ cs = <<Plain("users", Roomid[s])>>
                     \/ cs = <<Plain("Notify", Roomid[s])>>
                     \/ \E c \in Credentials :
                          cs = <<NewCall("update", Roomid[s], c), Plain("Notify", Roomid[s])>>
    BY <1>8 DEF HandleUsers, HandleChat, HandleRoom, MayUpdate
  <2>2. todo'[s] = cs /\ sent'[s] = sent[s] + 1 /\ disconnected' = disconnected
    BY <1>3, <2>1
  <2>3. CASE cs = <<Plain("users", Roomid[s])>> \/ cs = <<Plain("Notify", Roomid[s])>>
    BY <2>1, <2>2, <2>3 DEF Plain, NewCall
  <2>4. ASSUME NEW c, cs = <<NewCall("update", Roomid[s], c), Plain("Notify", Roomid[s])>>
        PROVE  Len(cs) = 2 /\ cs[1].op = "update" /\ cs[2].op = "Notify"
    BY <2>4 DEF Plain, NewCall
  <2>5. CASE Len(cs) = 2 /\ cs[1].op = "update" /\ cs[2].op = "Notify"
    <3>1. \A i \in 1..Len(cs) : i = 1 \/ i = 2 BY <2>5
    <3>2. Len(cs) \in 1..2 BY <2>5
    <3> QED BY <2>1, <2>2, <2>5, <3>1, <3>2
  <2> QED BY <2>1, <2>3, <2>4, <2>5
<1>9. ASSUME Close(s), Hello[s]
      PROVE  LET q == todo'[s] IN
             /\ disconnected'[s] /\ Len(q) = 2
             /\ q[1] = Plain("Left", Roomid[s]) /\ q[2] = Plain("leave", Roomid[s])
  <2>1. todo'[s] = CloseCalls(s) /\ disconnected'[s]
    BY <1>1, <1>2, <1>9 DEF Close, Begin
  <2> QED BY <2>1 DEF CloseCalls
<1>10. ASSUME Close(s), ~Hello[s] PROVE disconnected'[s] /\ todo'[s] = <<>>
  BY <1>1, <1>2, <1>10 DEF Close
<1> QED BY <1>5, <1>6, <1>7, <1>8, <1>9, <1>10 DEF Message

\* Who is in a room is idle there or on its way out; the message it sends next has
\* it leave that room before anything else, if it has it leave at all.
LEMMA GhostMessage ==
    ASSUME IInv, ~Rehello, GhostInv, NEW s \in Session, Message(s)
    PROVE  GhostInv'
<1> DEFINE q == todo'[s]
<1>1. /\ UNCHANGED <<users, wroom, workers, target, reply, Hello, Roomid>>
      /\ todo[s] = <<>> /\ phase[s] = "idle" /\ phase'[s] \in {"idle", "get"}
      /\ \A t \in Session : t # s =>
             /\ todo'[t] = todo[t] /\ phase'[t] = phase[t] /\ disconnected'[t] = disconnected[t]
  BY MessageFacts DEF managerVars, workerVars
<1>2. q = <<>> => Len(q) = 0 OBVIOUS
<1>3. \A op, r, c : NewCall(op, r, c).op = op /\ NewCall(op, r, c).room = r
  BY DEF NewCall
<1>4. \A op, r : Plain(op, r).op = op /\ Plain(op, r).room = r
  BY <1>3 DEF Plain
<1>5. JoinShape(s)'
  <2>1. ASSUME NEW r, NEW c, ~Hello[s], disconnected' = disconnected,
               Len(q) = 3, q[1] = NewCall("join", r, c),
               q[2] = Plain("Joined", r), q[3] = Plain("welcome", r)
        PROVE  JoinShape(s)'
    <3>1. ~disconnected[s] BY MessageFacts
    <3>2. /\ q[1].op = "join" /\ q[1].room = r /\ q[2].op = "Joined" /\ q[2].room = r
          /\ q[3].op = "welcome" /\ q[3].room = r
      BY <1>3, <1>4, <2>1
    <3>3. \A i \in 1..Len(q) : i = 1 \/ i = 2 \/ i = 3 BY <2>1
    <3> HIDE DEF q
    <3>4. \A i \in 1..Len(q) :
            /\ q[i].op = "join" =>
                /\ i = 1
                /\ \A k \in 1..Len(q) : k > i =>
                     q[k].op \in {"Joined", "welcome"} /\ q[k].room = q[i].room
            /\ q[i].op = "welcome" => i = Len(q)
      BY <2>1, <3>2, <3>3
    <3> QED BY <1>1, <2>1, <3>1, <3>4 DEF JoinShape, q
  <2>2. ASSUME NEW r, NEW c, disconnected' = disconnected,
               Len(q) = 5, q[1] = Plain("leave", Roomid[s]),
               q[2] = Plain("Left", Roomid[s]), q[3] = NewCall("join", r, c),
               q[4] = Plain("Joined", r), q[5] = Plain("welcome", r)
        PROVE  JoinShape(s)'
    <3>1. ~disconnected[s] BY MessageFacts
    <3>2. /\ q[1].op = "leave" /\ q[2].op = "Left"
          /\ q[3].op = "join" /\ q[3].room = r /\ q[4].op = "Joined" /\ q[4].room = r
          /\ q[5].op = "welcome" /\ q[5].room = r
      BY <1>3, <1>4, <2>2
    <3>3. \A i \in 1..Len(q) : i = 1 \/ i = 2 \/ i = 3 \/ i = 4 \/ i = 5 BY <2>2
    <3> HIDE DEF q
    <3>4. \A i \in 1..Len(q) :
            /\ q[i].op = "join" =>
                /\ i # 1 /\ q[i - 1].op = "Left"
                /\ \A k \in 1..Len(q) : k > i =>
                     q[k].op \in {"Joined", "welcome"} /\ q[k].room = q[i].room
            /\ q[i].op = "welcome" => i = Len(q)
      <4> TAKE i \in 1..Len(q)
      <4>1. q[i].op = "join" => i = 3 BY <3>2, <3>3
      <4>2. q[i].op = "welcome" => i = 5 BY <3>2, <3>3
      <4>3. q[3 - 1].op = "Left" BY <3>2
      <4>4. \A k \in 1..Len(q) : k > 3 =>
                q[k].op \in {"Joined", "welcome"} /\ q[k].room = q[3].room
        BY <3>2, <3>3
      <4> QED BY <2>2, <4>1, <4>2, <4>3, <4>4
    <3> QED BY <1>1, <2>2, <3>1, <3>4 DEF JoinShape, q
  <2>3. ASSUME \A i \in 1..Len(q) : q[i].op # "join" /\ q[i].op # "welcome"
        PROVE  JoinShape(s)'
    BY <2>3 DEF JoinShape
  <2>4. ASSUME Len(q) = 2, q[1].op \in {"leave", "Left"}, q[2].op \in {"leave", "Left"}
        PROVE  \A i \in 1..Len(q) : q[i].op # "join" /\ q[i].op # "welcome"
    <3>1. \A i \in 1..Len(q) : i = 1 \/ i = 2 BY <2>4
    <3> QED BY <2>4, <3>1
  <2> HIDE DEF q
  <2>5. \A i \in 1..0 : FALSE OBVIOUS
  <2> QED BY <1>2, <1>4, <2>1, <2>2, <2>3, <2>4, <2>5, MessageKinds DEF q
<1>6. \A t \in Session : JoinShape(t)'
  BY <1>1, <1>5, ShapeFrame DEF GhostInv
<1>7. MembersAccounted'
  <2> SUFFICES ASSUME NEW w \in Worker, NEW t \in users[w]
               PROVE  (Stays(t, w) \/ LeaveQueued(t, w) \/ ToLeave(t, w) \/ JustIn(t, w))'
    BY <1>1 DEF MembersAccounted
  <2>1. t \in Session BY DEF IInv, TypeOK
  <2>2. Stays(t, w) \/ LeaveQueued(t, w) \/ ToLeave(t, w) \/ JustIn(t, w)
    BY DEF GhostInv, MembersAccounted
  <2>3. LeaveQueued(t, w) => LeaveQueued(t, w)' BY <1>1 DEF LeaveQueued
  <2>4. CASE t # s
    BY <1>1, <2>1, <2>2, <2>3, <2>4 DEF Stays, Leaving, ToLeave, JustIn, Cur
  <2>5. CASE t = s /\ ~LeaveQueued(s, w)
    <3>1. Hello[s] /\ Roomid[s] = wroom[w]
      BY <1>1, <2>2, <2>5 DEF Stays, ToLeave, JustIn
    <3>2. ASSUME NEW i \in 1..Len(q), q[i] = Plain("leave", Roomid[s]) PROVE ToLeave(s, w)'
      BY <1>1, <1>4, <3>1, <3>2 DEF ToLeave
    <3>3. ASSUME disconnected' = disconnected,
                 \A i \in 1..Len(q) : q[i].op \in {"users", "update", "Notify"}
          PROVE  Stays(s, w)'
      BY <1>1, <3>1, <3>3, MessageFacts DEF Stays, Leaving
    <3> HIDE DEF q
    <3>4. \A n : n = 2 \/ n = 5 => 1 \in 1..n /\ 2 \in 1..n OBVIOUS
    <3> QED BY <2>5, <3>1, <3>2, <3>3, <3>4, MessageKinds DEF q
  <2> QED BY <2>3, <2>4, <2>5
<1> QED BY <1>6, <1>7 DEF GhostInv

\* A call leaves everybody accounted for: whoever is told to have joined is in, and
\* whose leave is made has it on the channel.
LEMMA GhostCall ==
    ASSUME IInv, NoneFull, GhostInv, NEW s \in Session, CallStep(s)
    PROVE  GhostInv'
<1>1. JoinShape(s) /\ MembersAccounted BY DEF GhostInv
<1>2. \A t \in Session : JoinShape(t)'
  <2> TAKE t \in Session
  <2>1. CASE t = s BY <1>1, <2>1, ShapeCall
  <2>2. CASE t # s BY <2>2, CallsLeft, HelloKept, ShapeFrame DEF GhostInv
  <2> QED BY <2>1, <2>2
<1>3. MembersAccounted'
  <2> SUFFICES ASSUME NEW w \in Worker, NEW t \in users'[w]
               PROVE  (Stays(t, w) \/ LeaveQueued(t, w) \/ ToLeave(t, w) \/ JustIn(t, w))'
    BY DEF MembersAccounted
  <2>1. t \in users[w] /\ t \in Session /\ users' = users /\ disconnected' = disconnected
    BY CallsLeft DEF IInv, TypeOK
  <2>2. Stays(t, w) \/ LeaveQueued(t, w) \/ ToLeave(t, w) \/ JustIn(t, w)
    BY <1>1, <2>1 DEF MembersAccounted
  <2>3. wroom'[w] = wroom[w] BY <2>1, RoomKept
  <2>4. CASE Going(t, w)
    BY <1>1, <2>1, <2>4, GoingKept DEF Going
  <2>5. CASE Stays(t, w)
    <3>1. ~Leaving(t)'
      BY <2>1, <2>5, CallsKept DEF Stays, Leaving
    <3>2. Hello'[t] /\ Roomid'[t] = Roomid[t]
      <4>1. CASE todo'[t] = todo[t] BY <2>1, <2>5, <4>1, HelloKept DEF Stays
      <4>2. CASE todo'[t] # todo[t]
        <5>1. t = s /\ todo[s] # <<>> BY <2>1, <4>2, CallsLeft
        <5>2. Cur(s) = todo[s][1] /\ 1 \in 1..Len(todo[s]) BY <5>1, CurFacts DEF IInv
        <5>3. Cur(s).op # "join" BY <1>1, <2>5, <5>1, <5>2 DEF JoinShape, Stays
        <5>4. Cur(s).op # "Left" BY <2>5, <5>1, <5>2 DEF Stays, Leaving
        <5> QED BY <2>5, <4>2, <5>1, <5>3, <5>4, HelloKept DEF Stays
      <4> QED BY <4>1, <4>2
    <3> QED BY <2>1, <2>3, <2>5, <3>1, <3>2 DEF Stays
  <2>6. CASE JustIn(t, w)
    <3>1. CASE t = s
      <4>1. phase[s] = "await" /\ todo[s] # <<>> /\ Cur(s).op = "join" /\ wroom[w] = Cur(s).room
        BY <2>6, <3>1, CallsLeft DEF JustIn, IInv, CallInv, CallOK
      <4>2. Cur(s) = todo[s][1] /\ 1 \in 1..Len(todo[s]) /\ todo[s] \in Seq(Call)
        BY <4>1, CurFacts DEF IInv
      <4>3. Await(s)
        BY <4>1
        DEF CallStep, GetFound, GetMissing, GetRefused, GetForCreate, Create, Send, SendPanics,
            At
      <4>4. Advance(s)
        BY <2>6, <3>1, <4>1, <4>3 DEF Await, Answer, JustIn
      <4>5. todo'[s] = Tail(todo[s]) BY <4>4 DEF Advance, IInv, TypeOK
      <4>6. ~disconnected[s] BY <1>1, <4>1, <4>2 DEF JoinShape
      <4>7. ~Leaving(s)'
        <5> SUFFICES ASSUME NEW i \in 1..Len(todo'[s]) PROVE todo'[s][i].op # "Left"
          BY DEF Leaving
        <5>1. i + 1 \in 1..Len(todo[s]) /\ i + 1 > 1 /\ todo'[s][i] = todo[s][i + 1]
          BY <4>1, <4>2, <4>5, TailFacts
        <5>2. todo[s][i + 1].op \in {"Joined", "welcome"}
          BY <1>1, <4>1, <4>2, <5>1 DEF JoinShape
        <5> QED BY <5>1, <5>2
      <4>8. Hello'[s] /\ Roomid'[s] = Cur(s).room
        BY <2>6, <3>1, <4>1, <4>3 DEF Await, Answer, JustIn, IInv, TypeOK
      <4> QED BY <2>1, <2>3, <3>1, <4>1, <4>6, <4>7, <4>8 DEF Stays
    <3>2. CASE t # s
      <4>1. target'[t] = target[t] /\ reply'[t] = reply[t] BY <2>1, <3>2, OthersWait
      <4>2. todo'[t] = todo[t] /\ phase'[t] = phase[t] BY <2>1, <3>2, CallsLeft
      <4> QED BY <2>6, <4>1, <4>2 DEF JustIn, Cur
    <3> QED BY <3>1, <3>2
  <2> QED BY <2>2, <2>4, <2>5, <2>6 DEF Going
<1> QED BY <1>2, <1>3 DEF GhostInv

\* A worker takes its first job off its channel and touches no other.
LEMMA WorkerQueues ==
    ASSUME IInv, NEW w \in Worker, WorkerStep(w), NEW v \in Worker
    PROVE  /\ workers[v] \in Seq(Job) /\ Len(workers[v]) \in Nat /\ Len(workers'[v]) \in Nat
           /\ \A i \in 1..Len(workers'[v]) : \E j \in 1..Len(workers[v]) :
                  workers'[v][i] = workers[v][j] /\ (v = w /\ RunJob(w) => j = i + 1)
           /\ \A j \in 1..Len(workers[v]) :
                  \/ v = w /\ RunJob(w) /\ j = 1
                  \/ \E i \in 1..Len(workers'[v]) : workers'[v][i] = workers[v][j]
<1>1. workers \in [Worker -> Seq(Job)] /\ workers[v] \in Seq(Job) /\ Len(workers[v]) \in Nat
  BY DEF IInv, TypeOK
<1>2. CASE workers'[v] = workers[v] /\ ~(v = w /\ RunJob(w))
  BY <1>1, <1>2
<1>3. CASE RunJob(w)
  <2>1. workers[w] # <<>> /\ Finish(w)
    BY <1>3 DEF RunJob, RunJoin, RunLeave, RunUpdate, RunUsers, RunBroadcast, Runs
  <2>2. CASE v # w BY <1>1, <1>2, <2>1, <2>2 DEF Finish
  <2>3. CASE v = w
    <3> DEFINE q == workers[w]  p == workers'[w]
    <3>1. q \in Seq(Job) /\ q # <<>> /\ p = Tail(q) BY <1>1, <2>1, <2>3 DEF Finish
    <3>2. /\ Len(q) \in Nat /\ Len(p) = Len(q) - 1 /\ Len(q) >= 1
          /\ \A i \in 1..Len(p) : i + 1 \in 1..Len(q) /\ p[i] = q[i + 1]
      BY <3>1, TailFacts
    <3> HIDE DEF q, p
    <3>3. \A j \in 1..Len(q) : j # 1 => j - 1 \in 1..Len(p) /\ p[j - 1] = q[j]
      <4> TAKE j \in 1..Len(q)
      <4> HAVE j # 1
      <4>1. j - 1 \in 1..Len(p) /\ (j - 1) + 1 = j BY <3>2
      <4> QED BY <3>2, <4>1
    <3>4. Len(p) \in Nat BY <3>2
    <3>5. \A i \in 1..Len(p) : \E j \in 1..Len(q) : p[i] = q[j] /\ j = i + 1 BY <3>2
    <3>6. \A j \in 1..Len(q) : j = 1 \/ \E i \in 1..Len(p) : p[i] = q[j] BY <3>3
    <3> QED BY <1>1, <1>3, <2>3, <3>2, <3>4, <3>5, <3>6 DEF p, q
  <2> QED BY <2>2, <2>3
<1>4. CASE ~RunJob(w)
  <2>1. workers' = workers
    BY <1>4 DEF WorkerStep, Expire, CloseWorkers, Cleanup
  <2> QED BY <1>2, <1>4, <2>1
<1> QED BY <1>3, <1>4

\* Whoever is still a member after its worker's step has its leave still to come.
LEMMA GoingOn ==
    ASSUME IInv, NEW w \in Worker, WorkerStep(w), NEW v \in Worker, NEW t \in users'[v],
           Going(t, v)
    PROVE  Going(t, v)'
<1>1. UNCHANGED <<wroom, todo>> BY WorkerFacts
<1>2. CASE ToLeave(t, v) BY <1>1, <1>2 DEF Going, ToLeave
<1>3. CASE LeaveQueued(t, v)
  <2>1. PICK j \in 1..Len(workers[v]) : workers[v][j].op = "leave" /\ workers[v][j].from = t
    BY <1>3 DEF LeaveQueued
  <2>2. ~(v = w /\ RunJob(w) /\ j = 1)
    <3> SUFFICES ASSUME v = w, RunJob(w), j = 1 PROVE FALSE
      OBVIOUS
    <3>1. workers[w] # <<>>
      BY DEF RunJob, RunJoin, RunLeave, RunUpdate, RunUsers, RunBroadcast, Runs
    <3>2. Job1(w).op = "leave" /\ Job1(w).from = t BY <2>1, <3>1, HeadJob DEF IInv
    <3>3. RunLeave(w)
      BY <3>2 DEF RunJob, RunJoin, RunUpdate, RunUsers, RunBroadcast, Runs, Broadcasts
    <3> QED BY <3>2, <3>3 DEF RunLeave, IInv, TypeOK
  <2>3. PICK i \in 1..Len(workers'[v]) : workers'[v][i] = workers[v][j]
    BY <2>2, WorkerQueues
  <2>4. LeaveQueued(t, v)' BY <2>1, <2>3 DEF LeaveQueued
  <2> QED BY <2>4 DEF Going
<1> QED BY <1>2, <1>3 DEF Going

\* Who waits for an answer other than the one given still waits for it.
LEMMA RepliesKept ==
    ASSUME IInv, NEW w \in Worker, WorkerStep(w), NEW t \in Session, reply[t] # NoReply
    PROVE  reply'[t] = reply[t]
<1>1. CASE reply' = reply BY <1>1
<1>2. CASE reply' # reply
  <2>1. PICK ok, us : Result(w, ok, us)
    BY <1>2
    DEF WorkerStep, RunJob, RunJoin, RunLeave, RunUpdate, RunUsers, RunBroadcast, Expire,
        CloseWorkers, Cleanup
  <2>2. wstate[w] = "running" /\ workers[w] # <<>> /\ Job1(w).op \in Answered
    BY <1>2
    DEF WorkerStep, RunJob, RunJoin, RunLeave, RunUpdate, RunUsers, RunBroadcast, Expire,
        CloseWorkers, Cleanup, Runs, Answered
  <2>3. reply[Job1(w).from] = NoReply BY <2>2, RunsFor
  <2> QED BY <2>1, <2>3 DEF Result, IInv, TypeOK
<1> QED BY <1>1, <1>2

\* What a worker does leaves everybody accounted for.
LEMMA GhostWorker ==
    ASSUME IInv, GhostInv, NEW w \in Worker, WorkerStep(w)
    PROVE  GhostInv'
<1>1. UNCHANGED <<wroom, todo, phase, target, Hello, Roomid, disconnected>>
  BY WorkerFacts DEF sessionVars
<1>2. \A t \in Session : JoinShape(t)' BY <1>1, ShapeFrame DEF GhostInv
<1>3. MembersAccounted'
  <2> SUFFICES ASSUME NEW v \in Worker, NEW t \in users'[v]
               PROVE  (Stays(t, v) \/ LeaveQueued(t, v) \/ ToLeave(t, v) \/ JustIn(t, v))'
    BY DEF MembersAccounted
  <2>1. CASE t \in users[v]
    <3>1. t \in Session BY <2>1 DEF IInv, TypeOK
    <3>2. Stays(t, v) \/ Going(t, v) \/ JustIn(t, v)
      BY <2>1 DEF GhostInv, MembersAccounted, Going
    <3>3. CASE Stays(t, v) BY <1>1, <3>3 DEF Stays, Leaving
    <3>4. CASE Going(t, v) BY <3>4, GoingOn DEF Going
    <3>5. CASE JustIn(t, v)
      <4>1. reply'[t] = reply[t] BY <3>1, <3>5, RepliesKept DEF JustIn
      <4> QED BY <1>1, <3>5, <4>1 DEF JustIn, Cur
    <3> QED BY <3>2, <3>3, <3>4, <3>5
  <2>2. CASE t \notin users[v]
    <3>1. v = w /\ RunJoin(w) /\ t = Job1(w).from BY <2>2, WorkerFacts
    <3>2. wstate[w] = "running" /\ workers[w] # <<>> /\ Job1(w).op = "join"
      BY <3>1 DEF RunJoin, Runs
    <3>3. t \in Session /\ phase[t] = "await" /\ Cur(t).op = "join" /\ target[t] = w
      BY <3>1, <3>2, RunsFor DEF Answered
    <3>4. reply'[t] = [ok |-> TRUE, users |-> {}]
      <4>1. Accepts(w, Job1(w).cred) BY <2>2, <3>1 DEF RunJoin
      <4>2. Accepts(w, Job1(w).cred) = TRUE BY <4>1 DEF Accepts
      <4> QED BY <3>1, <3>3, <4>2 DEF RunJoin, Result, IInv, TypeOK
    <3>5. reply'[t] # NoReply
      <4>1. [ok |-> TRUE, users |-> {}] \in Reply BY DEF Reply
      <4> QED BY <3>4, <4>1, ReplyAssumption
    <3> QED BY <1>1, <3>1, <3>3, <3>4, <3>5 DEF JustIn, Cur
  <2> QED BY <2>1, <2>2
<1> QED BY <1>2, <1>3 DEF GhostInv

\* Every member is accounted for as long as no channel is full and no client says
\* Hello to the room it is in.
LEMMA Accounted ==
    ASSUME ~Rehello
    PROVE  Spec /\ []NoneFull => []GhostInv
<1>1. Init => GhostInv
  <2> SUFFICES ASSUME Init PROVE GhostInv
    OBVIOUS
  <2>1. \A s \in Session : JoinShape(s) BY DEF Init, JoinShape
  <2>2. MembersAccounted BY DEF Init, MembersAccounted
  <2> QED BY <2>1, <2>2 DEF GhostInv
<1>2. IInv /\ NoneFull /\ GhostInv /\ [Next]_vars => GhostInv'
  <2> SUFFICES ASSUME IInv, NoneFull, GhostInv, [Next]_vars PROVE GhostInv'
    OBVIOUS
  <2>1. CASE UNCHANGED vars
    <3>1. \A s \in Session : JoinShape(s)' BY <2>1, ShapeFrame DEF vars, GhostInv
    <3>2. MembersAccounted'
      BY <2>1
      DEF vars, GhostInv, MembersAccounted, Stays, Leaving, LeaveQueued, ToLeave, JustIn, Cur
    <3> QED BY <3>1, <3>2 DEF GhostInv
  <2>2. ASSUME NEW s \in Session, Message(s) \/ CallStep(s) PROVE GhostInv'
    BY <2>2, GhostMessage, GhostCall
  <2>3. ASSUME NEW w \in Worker, WorkerStep(w) PROVE GhostInv'
    BY <2>3, GhostWorker
  <2> QED BY <2>1, <2>2, <2>3 DEF Next
<1> QED BY <1>1, <1>2, Invariance, PTL DEF Spec

\* No worker keeps a session that left, was refused or disconnected, as long as no
\* channel is full (Run drops the leave that finds it so) and no client says Hello to
\* the room it is in (JoinRoom then refuses it without leaving): session.go.
THEOREM GhostsExcluded ==
    ASSUME ~Rehello
    PROVE  Spec /\ []NoneFull => []NoGhosts
<1>1. IInv /\ GhostInv => NoGhosts
  <2> SUFFICES ASSUME IInv, GhostInv, NEW w \in Worker, NEW s \in users[w],
                      JustIn(s, w) \/ ToLeave(s, w)
               PROVE  Concerns(s, w)
    BY DEF GhostInv, MembersAccounted, NoGhosts, Ghost, Stays
  <2>1. CASE ToLeave(s, w) BY <2>1 DEF ToLeave, Concerns
  <2>2. CASE JustIn(s, w)
    <3>1. s \in Session BY DEF IInv, TypeOK
    <3>2. CallOK(s) BY <3>1 DEF IInv, CallInv
    <3>3. todo[s] # <<>> /\ Cur(s).op = "join" /\ Cur(s).room = wroom[w]
      BY <2>2, <3>2 DEF JustIn, CallOK
    <3>4. Cur(s) = todo[s][1] /\ 1 \in 1..Len(todo[s])
      BY <3>1, <3>3, CurFacts DEF IInv
    <3> QED BY <3>3, <3>4 DEF Concerns
  <2> QED BY <2>1, <2>2
<1> QED BY <1>1, Accounted, Invariance, PTL


-----------------------------------------------------------------------------
(* Everybody in the room is shown. *)

\* The parts of BuddyInv that are about one session's own state.
LEMMA FirstFrame ==
    ASSUME NEW t \in Session, FirstShape(t), TellsAll(t), todo'[t] = todo[t],
           sent'[t] = sent[t], disconnected'[t] = disconnected[t], Hello'[t] = Hello[t],
           Roomid'[t] = Roomid[t], inRoom'[t] = inRoom[t],
           \A w \in Worker : LeaveQueued(t, w)' => LeaveQueued(t, w)
    PROVE  FirstShape(t)' /\ TellsAll(t)'
<1>1. TellsAll(t)' BY DEF TellsAll
<1>2. FirstShape(t)' BY DEF FirstShape, InFirst
<1> QED BY <1>1, <1>2

\* A session in its first room is a member of the worker the table has for it.
LEMMA FirstIsMember ==
    ASSUME IInv, NEW s \in Session, FirstShape(s), InFirst(s)
    PROVE  LET w == roomTable[Roomid[s]] IN
           /\ Roomid[s] \in Room /\ w \in Worker /\ w # NoWorker /\ wroom[w] = Roomid[s]
           /\ wstate[w] = "running" /\ s \in users[w] /\ ~Leaving(s)
<1>1. ~Leaving(s) BY DEF FirstShape, Leaving
<1>2. HelloOK(s) /\ TableInv BY DEF IInv, HelloInv
<1> QED BY <1>1, <1>2, ConstantsAssumption DEF HelloOK, Member, InFirst, TableInv

\* It is in no other room.
LEMMA OnlyThere ==
    ASSUME IInv, GhostInv, NEW s \in Session, FirstShape(s), InFirst(s),
           NEW v \in Worker, s \in users[v]
    PROVE  v = roomTable[Roomid[s]]
<1>1. CallOK(s) /\ TableInv BY DEF IInv, CallInv
<1>2. ~JustIn(s, v) /\ ~ToLeave(s, v)
  <2>1. ASSUME JustIn(s, v) PROVE FALSE
    <3>1. todo[s] # <<>> /\ Cur(s).op = "join" BY <1>1, <2>1 DEF JustIn, CallOK
    <3>2. Cur(s) = todo[s][1] /\ 1 \in 1..Len(todo[s]) BY <3>1, CurFacts DEF IInv
    <3> QED BY <3>1, <3>2 DEF FirstShape
  <2>2. ASSUME ToLeave(s, v) PROVE FALSE BY <2>2 DEF ToLeave, FirstShape
  <2> QED BY <2>1, <2>2
<1>3. ~LeaveQueued(s, v) BY DEF FirstShape, InFirst, IInv, TypeOK
<1>4. Stays(s, v) BY <1>2, <1>3 DEF GhostInv, MembersAccounted
<1>5. wstate[v] = "running" BY <1>1 DEF TableInv
<1> QED BY <1>1, <1>4, <1>5 DEF Stays, TableInv, Alive

\* A message concerns nobody else, and its sender is in no first room after it.
LEMMA BuddyMessage ==
    ASSUME IInv, ~Rehello, GhostInv, BuddyInv, NEW s \in Session, Message(s)
    PROVE  BuddyInv'
<1> DEFINE q == todo'[s]
<1>1. /\ UNCHANGED <<roomTable, users, wroom, workers, target, reply, Hello, Roomid>>
      /\ todo[s] = <<>> /\ ~disconnected[s]
      /\ \A t \in Session : t # s =>
             /\ todo'[t] = todo[t] /\ phase'[t] = phase[t] /\ disconnected'[t] = disconnected[t]
             /\ sent'[t] = sent[t] /\ buddies'[t] = buddies[t] /\ inRoom'[t] = inRoom[t]
  BY MessageFacts DEF managerVars, workerVars
<1>2. FirstShape(s) /\ TellsAll(s) /\ sent \in [Session -> Nat] /\ sent[s] \in Nat
  BY DEF BuddyInv, IInv, TypeOK
<1>3. \A w \in Worker, t \in Session : LeaveQueued(t, w)' <=> LeaveQueued(t, w)
  BY <1>1 DEF LeaveQueued
<1>4. disconnected'[s] \/ (disconnected' = disconnected /\ sent'[s] = sent[s] + 1)
  BY MessageKinds
<1>5. \A op, r, c : NewCall(op, r, c).op = op /\ Plain(op, r).op = op
  BY DEF NewCall, Plain
<1>6. TellsAll(s)'
  <2>1. ASSUME NEW r, NEW c, Len(q) = 3, q[1] = NewCall("join", r, c),
               q[2] = Plain("Joined", r), q[3] = Plain("welcome", r)
        PROVE  TellsAll(s)'
    <3>1. /\ q[1].op = "join" /\ q[2].op = "Joined" /\ q[3].op = "welcome"
          /\ \A i \in 1..Len(q) : i = 1 \/ i = 2 \/ i = 3
          /\ 2 \in 1..Len(q) /\ 3 \in 1..Len(q)
      BY <1>5, <2>1
    <3> HIDE DEF q
    <3>2. \A i \in 1..Len(q) : q[i].op = "join" => i = 1 BY <3>1
    <3> QED BY <3>1, <3>2 DEF TellsAll, q
  <2>2. ASSUME NEW r, NEW c, Len(q) = 5, q[1] = Plain("leave", Roomid[s]),
               q[2] = Plain("Left", Roomid[s]), q[3] = NewCall("join", r, c),
               q[4] = Plain("Joined", r), q[5] = Plain("welcome", r)
        PROVE  TellsAll(s)'
    <3>1. /\ q[1].op = "leave" /\ q[2].op = "Left" /\ q[3].op = "join" /\ q[4].op = "Joined"
          /\ q[5].op = "welcome"
          /\ \A i \in 1..Len(q) : i = 1 \/ i = 2 \/ i = 3 \/ i = 4 \/ i = 5
          /\ 4 \in 1..Len(q) /\ 5 \in 1..Len(q)
      BY <1>5, <2>2
    <3> HIDE DEF q
    <3>2. \A i \in 1..Len(q) : q[i].op = "join" => i = 3 BY <3>1
    <3> QED BY <3>1, <3>2 DEF TellsAll, q
  <2>3. ASSUME \A i \in 1..Len(q) : q[i].op # "join" PROVE TellsAll(s)'
    BY <2>3 DEF TellsAll
  <2>4. ASSUME Len(q) = 2, q[1].op \in {"leave", "Left"}, q[2].op \in {"leave", "Left"}
        PROVE  \A i \in 1..Len(q) : q[i].op # "join"
    <3>1. \A i \in 1..Len(q) : i = 1 \/ i = 2 BY <2>4
    <3> QED BY <2>4, <3>1
  <2>5. q = <<>> => \A i \in 1..Len(q) : FALSE
    <3>1. q = <<>> => Len(q) = 0 OBVIOUS
    <3> QED BY <3>1
  <2> HIDE DEF q
  <2> QED BY <1>5, <2>1, <2>2, <2>3, <2>4, <2>5, MessageKinds DEF q
<1>7. FirstShape(s)'
  <2>1. CASE disconnected'[s]
    <3>1. inRoom'[s] = FALSE
      <4>1. Close(s)
        <5> SUFFICES ASSUME ~Close(s) PROVE FALSE
          OBVIOUS
        <5>1. PICK cs : Receive(s, cs)
          BY DEF Message, HandleHello, HandleLeave, HandleUsers, HandleRoom, HandleChat
        <5> QED BY <1>1, <2>1, <5>1 DEF Receive
      <4> QED BY <4>1 DEF Close, IInv, TypeOK
    <3>2. ASSUME sent'[s] = 0 PROVE q = <<>> /\ ~Hello[s]
      <4>1. sent[s] = 0 BY <1>2, <3>2, MessageFacts
      <4>2. ~Hello[s] BY <1>2, <4>1 DEF FirstShape
      <4>3. sent'[s] # sent[s] + 1 BY <1>2, <3>2
      <4>4. q = <<>> BY <4>2, <4>3, MessageKinds
      <4> QED BY <4>2, <4>4
    <3> HIDE DEF q
    <3> QED BY <1>1, <2>1, <3>1, <3>2 DEF FirstShape, InFirst, q
  <2>2. CASE ~disconnected'[s] /\ sent'[s] = 1
    <3>1. sent[s] = 0 /\ ~Hello[s] /\ ~inRoom[s] BY <1>2, <1>4, <2>2 DEF FirstShape
    <3>2. inRoom' = inRoom
      BY <1>1, <1>2, <2>2, <3>1, MessageFacts DEF clientVars
    <3>3. \A i \in 1..Len(q) : q[i].op \in {"join", "Joined", "welcome"}
      <4>1. PICK r \in Room, c \in Credentials :
                /\ Len(q) = 3 /\ q[1] = NewCall("join", r, c)
                /\ q[2] = Plain("Joined", r) /\ q[3] = Plain("welcome", r)
        BY <2>2, <3>1, MessageKinds
      <4>2. /\ \A i \in 1..Len(q) : i = 1 \/ i = 2 \/ i = 3
            /\ q[1].op = "join" /\ q[2].op = "Joined" /\ q[3].op = "welcome"
        BY <1>5, <4>1
      <4> HIDE DEF q
      <4> QED BY <4>2
    <3>4. \A w \in Worker : ~LeaveQueued(s, w)'
      BY <1>1, <1>2, <1>3, <3>1 DEF FirstShape
    <3> QED BY <1>1, <2>2, <3>1, <3>2, <3>3, <3>4 DEF FirstShape, InFirst
  <2>3. CASE ~disconnected'[s] /\ sent'[s] # 1
    <3>1. sent'[s] > 1 /\ sent'[s] \in Nat BY <1>2, <1>4, <2>3
    <3>2. sent'[s] # 0 /\ sent'[s] # 1 /\ ~(sent'[s] <= 1) BY <3>1
    <3> QED BY <3>2 DEF FirstShape, InFirst
  <2> QED BY <2>1, <2>2, <2>3
<1>8. \A t \in Session : FirstShape(t)' /\ TellsAll(t)'
  <2> TAKE t \in Session
  <2>1. CASE t = s BY <1>6, <1>7, <2>1
  <2>2. CASE t # s BY <1>1, <1>3, <2>2, FirstFrame DEF BuddyInv
  <2> QED BY <2>1, <2>2
<1>9. \A u \in Session, w \in Worker : Going(u, w) => Going(u, w)'
  <2> SUFFICES ASSUME NEW u \in Session, NEW w \in Worker, ToLeave(u, w) PROVE ToLeave(u, w)'
    BY <1>3 DEF Going
  <2>1. u # s BY <1>1 DEF ToLeave
  <2> QED BY <1>1, <2>1 DEF ToLeave
<1>10. LeftInv'
  <2> SUFFICES ASSUME NEW w \in Worker, NEW i \in 1..Len(workers[w]),
                      NEW u \in users[w], u = workers[w][i].from, workers[w][i].op = "Left"
               PROVE  Going(u, w)'
    BY <1>1 DEF LeftInv, Going, LeaveQueued, ToLeave
  <2>1. u \in Session BY DEF IInv, TypeOK
  <2> QED BY <1>9, <2>1 DEF BuddyInv, LeftInv
<1>11. ShownInv'
  <2> SUFFICES ASSUME NEW t \in Session, InFirst(t)', NEW u \in users[roomTable[Roomid[t]]], u # t
               PROVE  Shows(t, u, roomTable[Roomid[t]])'
    BY <1>1 DEF ShownInv, Shows, WelcomeComing, JoinedComing, Going, LeaveQueued, ToLeave
  <2>1. t # s
    <3> SUFFICES ASSUME t = s PROVE FALSE
      OBVIOUS
    <3>1. sent[s] = 0 BY <1>2, <1>4 DEF InFirst
    <3> QED BY <1>1, <1>2, <3>1 DEF FirstShape, InFirst
  <2>2. InFirst(t) BY <1>1, <2>1 DEF InFirst
  <2>3. PICK w \in Worker : w = roomTable[Roomid[t]]
    BY <2>2, FirstIsMember DEF BuddyInv
  <2>4. u \in Session /\ u \in users[w] BY <2>3 DEF IInv, TypeOK
  <2>5. Shows(t, u, w) BY <2>2, <2>3, <2>4 DEF BuddyInv, ShownInv
  <2>6. u \in buddies[t] => u \in buddies'[t] BY <1>1, <2>1
  <2>7. WelcomeComing(t, u) => WelcomeComing(t, u)' BY <1>1, <2>1 DEF WelcomeComing
  <2>8. JoinedComing(u, w) => JoinedComing(u, w)'
    <3>1. CASE u # s BY <1>1, <2>4, <3>1 DEF JoinedComing
    <3>2. CASE u = s
      <4>1. ~\E i \in 1..Len(todo[s]) : TRUE
        <5>1. Len(todo[s]) = 0 BY <1>1
        <5> QED BY <5>1
      <4> QED BY <1>1, <3>2, <4>1 DEF JoinedComing
    <3> QED BY <3>1, <3>2
  <2>9. Going(u, w) => Going(u, w)' BY <1>9, <2>4
  <2>10. Shows(t, u, w)' BY <2>5, <2>6, <2>7, <2>8, <2>9 DEF Shows
  <2> QED BY <1>1, <2>3, <2>10
<1> QED BY <1>8, <1>10, <1>11 DEF BuddyInv

\* The step at which a join gets its answer ends it as the answer says.
LEMMA JoinAnswered ==
    ASSUME IInv, NEW s \in Session, CallStep(s), phase[s] = "await", Cur(s).op = "join",
           reply[s].ok
    PROVE  Advance(s) /\ Hello'[s] /\ Roomid'[s] = Cur(s).room
<1>1. Await(s)
  BY CallsLeft
  DEF CallStep, GetFound, GetMissing, GetRefused, GetForCreate, Create, Send, SendPanics, At
<1> QED BY <1>1 DEF Await, Answer, IInv, TypeOK

\* The Joined of a member is made and broadcast, unless the member is going.
LEMMA JoinedKept ==
    ASSUME IInv, NoneFull, GhostInv, NEW s \in Session, CallStep(s),
           NEW w \in Worker, NEW u \in users[w], JoinedComing(u, w)
    PROVE  JoinedComing(u, w)' \/ Going(u, w)'
<1>1. u \in Session /\ wroom'[w] = wroom[w] BY RoomKept DEF IInv, TypeOK
<1>2. CASE \E i \in 1..Len(workers[w]) :
               workers[w][i].op = "Joined" /\ workers[w][i].from = u
  BY <1>2, CallQueues DEF JoinedComing
<1>3. ASSUME NEW i \in 1..Len(todo[u]), todo[u][i].op = "Joined", todo[u][i].room = wroom[w]
      PROVE  JoinedComing(u, w)' \/ Going(u, w)'
  <2>1. CASE todo'[u] = todo[u] BY <1>1, <1>3, <2>1 DEF JoinedComing
  <2>2. CASE todo'[u] # todo[u]
    <3>1. u = s /\ todo[s] # <<>> /\ todo[s] \in Seq(Call) BY <1>1, <2>2, CallsLeft
    <3>2. Cur(s) = todo[s][1] /\ 1 \in 1..Len(todo[s]) BY <3>1, CurFacts DEF IInv
    <3>3. CASE Advance(s)
      <4>1. todo'[s] = Tail(todo[s]) BY <3>3 DEF Advance, IInv, TypeOK
      <4>2. CASE i = 1
        <5>1. Cur(s).op = "Joined" /\ Cur(s).room = wroom[w] BY <1>3, <3>1, <3>2, <4>2
        <5> QED BY <2>2, <3>1, <5>1, CallDone DEF Answered, JoinedComing
      <4>3. CASE i # 1
        <5>1. i - 1 \in 1..Len(todo'[s]) /\ todo'[s][i - 1] = todo[s][i]
          BY <1>3, <3>1, <4>1, <4>3, TailFacts
        <5> QED BY <1>1, <1>3, <3>1, <5>1 DEF JoinedComing
      <4> QED BY <4>2, <4>3
    <3>4. CASE Cur(s).op = "join" /\ JoinFailed(s)
      <4>1. JoinShape(s) BY DEF GhostInv
      <4>2. ~Stays(s, w) BY <3>2, <3>4, <4>1 DEF JoinShape, Stays
      <4>3. ~JustIn(s, w)
        <5>1. ~Hello'[s] BY <3>4 DEF JoinFailed, IInv, TypeOK
        <5> QED BY <5>1, JoinAnswered DEF JustIn
      <4>4. Going(s, w) BY <3>1, <4>2, <4>3 DEF GhostInv, MembersAccounted, Going
      <4> QED BY <3>1, <4>1, <4>4, GoingKept
    <3> QED BY <2>2, <3>1, <3>3, <3>4, HelloKept
  <2> QED BY <2>1, <2>2
<1> QED BY <1>2, <1>3 DEF JoinedComing

\* A client changes what it shows only at the end of a call of its own session:
\* with the users of an answer, or with a join that failed.
LEMMA ClientKept ==
    ASSUME IInv, NEW s \in Session, CallStep(s)
    PROVE  /\ \A t \in Session : t # s => buddies'[t] = buddies[t] /\ inRoom'[t] = inRoom[t]
           /\ todo'[s] = todo[s] => UNCHANGED clientVars
           /\ todo'[s] # todo[s] =>
                \/ Advance(s) /\ Cur(s).op \notin {"welcome", "users"} /\ UNCHANGED clientVars
                \/ Cur(s).op = "join" /\ JoinFailed(s)
                \/ /\ Advance(s) /\ Cur(s).op \in {"welcome", "users"}
                   /\ \E us : /\ ShowUsers(s, us, Cur(s).op = "welcome")
                              /\ \/ reply[s] # NoReply /\ us = reply[s].users
                                 \/ phase[s] = "get" /\ roomTable[Cur(s).room] = NoWorker
<1>1. TypeOK /\ CallOK(s) BY DEF IInv, CallInv
<1>2. buddies \in [Session -> SUBSET Session] /\ inRoom \in [Session -> BOOLEAN]
      /\ todo \in [Session -> Seq(Call)] /\ todo[s] \in Seq(Call) /\ todo[s] # <<>>
  BY <1>1, CallsLeft DEF TypeOK
<1>3. Len(Tail(todo[s])) = Len(todo[s]) - 1 /\ Len(todo[s]) \in Nat BY <1>2, TailFacts
<1>4. Tail(todo[s]) # todo[s] /\ <<>> # todo[s]
  <2>1. ASSUME Tail(todo[s]) = todo[s] PROVE FALSE
    <3>1. Len(Tail(todo[s])) = Len(todo[s]) BY <2>1, Zenon
    <3> QED BY <1>3, <3>1
  <2> QED BY <1>2, <2>1
<1>5. Advance(s) => todo'[s] = Tail(todo[s]) BY <1>2 DEF Advance
<1>6. JoinFailed(s) => todo'[s] = <<>> BY <1>2 DEF JoinFailed
<1>7. CASE Advance(s) /\ Cur(s).op \notin {"welcome", "users"} /\ UNCHANGED clientVars
  BY <1>4, <1>5, <1>7 DEF clientVars
<1>8. CASE JoinFailed(s) /\ Cur(s).op = "join"
  <2>1. \A t \in Session : t # s => buddies'[t] = buddies[t] /\ inRoom'[t] = inRoom[t]
    BY <1>2, <1>8 DEF JoinFailed
  <2> QED BY <1>4, <1>6, <1>8, <2>1
<1>9. ASSUME Advance(s), Cur(s).op \in {"welcome", "users"},
             NEW us, ShowUsers(s, us, Cur(s).op = "welcome"),
             \/ reply[s] # NoReply /\ us = reply[s].users
             \/ phase[s] = "get" /\ roomTable[Cur(s).room] = NoWorker
      PROVE  /\ \A t \in Session : t # s => buddies'[t] = buddies[t] /\ inRoom'[t] = inRoom[t]
             /\ todo'[s] # todo[s]
  BY <1>2, <1>4, <1>5, <1>9 DEF ShowUsers
<1>10. CASE todo' = todo /\ UNCHANGED clientVars BY <1>10 DEF clientVars
<1>11. CASE Await(s)
  <2>1. CASE Cur(s).op \in {"welcome", "users"}
    <3>1. Advance(s) /\ reply[s] # NoReply
          /\ ShowUsers(s, reply[s].users, Cur(s).op = "welcome")
      BY <1>11, <2>1 DEF Await, Answer
    <3> QED BY <1>9, <2>1, <3>1
  <2>2. CASE Cur(s).op \notin {"welcome", "users"}
    BY <1>7, <1>8, <1>11, <2>2 DEF Await, Answer
  <2> QED BY <2>1, <2>2
<1>12. CASE GetMissing(s)
  <2>1. CASE Cur(s).op \in {"welcome", "users"}
    <3>1. Advance(s) /\ phase[s] = "get" /\ roomTable[Cur(s).room] = NoWorker
          /\ ShowUsers(s, Ok.users, Cur(s).op = "welcome")
      BY <1>12, <2>1 DEF GetMissing, Answer, Answered, At
    <3> QED BY <1>9, <2>1, <3>1
  <2>2. CASE Cur(s).op \notin {"welcome", "users"}
    BY <1>7, <1>8, <1>12, <2>2 DEF GetMissing, Answer, AdvancePlain
  <2> QED BY <2>1, <2>2
<1>13. CASE Create(s)
  BY <1>1, <1>8, <1>10, <1>13 DEF Create, At, CallOK
<1>14. CASE Send(s)
  BY <1>7, <1>10, <1>14 DEF Send, Answered, AdvancePlain
<1>15. CASE GetRefused(s) BY <1>8, <1>15 DEF GetRefused
<1>16. CASE GetFound(s) \/ GetForCreate(s) \/ SendPanics(s)
  BY <1>10, <1>16 DEF GetFound, GetForCreate, SendPanics
<1> QED BY <1>11, <1>12, <1>13, <1>14, <1>15, <1>16 DEF CallStep

\* A call keeps what is said of the session that makes it.
LEMMA FirstCall ==
    ASSUME IInv, NEW s \in Session, JoinShape(s), FirstShape(s), TellsAll(s), CallStep(s)
    PROVE  FirstShape(s)' /\ TellsAll(s)'
<1>1. /\ todo[s] \in Seq(Call) /\ todo[s] # <<>> /\ sent' = sent /\ disconnected' = disconnected
      /\ Cur(s) = todo[s][1] /\ 1 \in 1..Len(todo[s]) /\ Len(todo[s]) \in Nat
      /\ Hello \in [Session -> BOOLEAN] /\ inRoom \in [Session -> BOOLEAN] /\ sent[s] \in Nat
      /\ Hello' \in [Session -> BOOLEAN]
  <2>1. todo[s] \in Seq(Call) /\ todo[s] # <<>> /\ sent' = sent /\ disconnected' = disconnected
    BY CallsLeft
  <2>2. Cur(s) = todo[s][1] /\ 1 \in 1..Len(todo[s]) BY <2>1, CurFacts DEF IInv
  <2>3. /\ Hello \in [Session -> BOOLEAN] /\ inRoom \in [Session -> BOOLEAN]
        /\ sent \in [Session -> Nat]
    BY DEF IInv, TypeOK
  <2>4. TypeOK' BY CallStepTypes DEF IInv
  <2>5. Hello' \in [Session -> BOOLEAN] BY <2>4 DEF TypeOK
  <2> QED BY <2>1, <2>2, <2>3, <2>5
<1>2. \A i \in 1..Len(todo'[s]) : \E j \in 1..Len(todo[s]) :
          todo'[s][i] = todo[s][j] /\ j = IF todo'[s] = todo[s] THEN i ELSE i + 1
  BY CallsKept
<1>3. sent[s] # 0 BY <1>1 DEF FirstShape
<1>4. TellsAll(s)'
  <2>1. CASE todo'[s] = todo[s] BY <2>1 DEF TellsAll
  <2>2. CASE todo'[s] = <<>> BY <2>2 DEF TellsAll
  <2>3. CASE todo'[s] = Tail(todo[s]) /\ todo'[s] # todo[s]
    <3> DEFINE q == todo[s]  p == todo'[s]
    <3>1. /\ Len(p) \in Nat /\ Len(p) = Len(q) - 1
          /\ \A i \in 1..Len(p) : i + 1 \in 1..Len(q) /\ p[i] = q[i + 1]
      BY <1>1, <2>3, TailFacts
    <3> HIDE DEF p, q
    <3>2. ASSUME NEW i \in 1..Len(p), p[i].op = "join"
          PROVE  \E k, l \in 1..Len(p) :
                     k > i /\ l > i /\ p[k].op = "Joined" /\ p[l].op = "welcome"
      <4>1. i + 1 \in 1..Len(q) /\ q[i + 1].op = "join" BY <3>1, <3>2
      <4>2. PICK k \in 1..Len(q), l \in 1..Len(q) :
                k > i + 1 /\ l > i + 1 /\ q[k].op = "Joined" /\ q[l].op = "welcome"
        BY <4>1 DEF TellsAll, q
      <4>3. /\ k - 1 \in 1..Len(p) /\ (k - 1) + 1 = k /\ k - 1 > i
            /\ l - 1 \in 1..Len(p) /\ (l - 1) + 1 = l /\ l - 1 > i
        BY <3>1, <4>2
      <4>4. p[k - 1] = q[k] /\ p[l - 1] = q[l] BY <3>1, <4>3
      <4> QED BY <4>2, <4>3, <4>4
    <3> QED BY <3>2 DEF TellsAll, p
  <2> QED BY <2>1, <2>2, <2>3, CallsLeft
<1>5. ASSUME sent[s] = 1, NEW i \in 1..Len(todo'[s]), todo'[s][i].op = "welcome"
      PROVE  ~inRoom'[s]
  <2>1. PICK j \in 1..Len(todo[s]) :
            todo'[s][i] = todo[s][j] /\ j = IF todo'[s] = todo[s] THEN i ELSE i + 1
    BY <1>2
  <2>2. ~inRoom[s] BY <1>5, <2>1 DEF FirstShape
  <2>3. CASE UNCHANGED clientVars BY <2>2, <2>3 DEF clientVars
  <2>4. CASE Cur(s).op = "join" /\ JoinFailed(s) BY <1>1, <2>4 DEF JoinFailed
  <2>5. ASSUME Cur(s).op \in {"welcome", "users"}, todo'[s] # todo[s],
               NEW us, ShowUsers(s, us, Cur(s).op = "welcome")
        PROVE  ~inRoom'[s]
    <3>1. Cur(s).op # "welcome"
      <4>1. j > 1 BY <2>1, <2>5
      <4>2. 1 # Len(todo[s]) BY <1>1, <2>1, <4>1
      <4> QED BY <1>1, <4>2 DEF JoinShape
    <3> QED BY <1>1, <2>2, <2>5, <3>1 DEF ShowUsers
  <2> QED BY <2>3, <2>4, <2>5, ClientKept
<1>6. ASSUME sent[s] = 1, ~disconnected[s], NEW i \in 1..Len(todo'[s])
      PROVE  todo'[s][i].op \in {"join", "Joined", "welcome"}
  BY <1>2, <1>6 DEF FirstShape
<1>7. ASSUME sent[s] <= 1, ~disconnected[s], NEW w \in Worker PROVE ~LeaveQueued(s, w)'
  <2>1. sent[s] = 1 BY <1>1, <1>3, <1>7
  <2>2. Cur(s).op # "leave" BY <1>1, <1>7, <2>1 DEF FirstShape
  <2>3. ~LeaveQueued(s, w) BY <1>7 DEF FirstShape
  <2> QED BY <2>2, <2>3, CallQueues DEF LeaveQueued
<1>8. ASSUME InFirst(s)', NEW i \in 1..Len(todo'[s])
      PROVE  todo'[s][i].op \in {"Joined", "welcome"} /\ todo'[s][i].room = Roomid'[s]
  <2>1. CASE Hello[s] /\ Roomid'[s] = Roomid[s]
    BY <1>1, <1>2, <1>8, <2>1 DEF FirstShape, InFirst
  <2>2. CASE JoinFailed(s) BY <1>1, <1>8, <2>2 DEF JoinFailed, InFirst
  <2>3. CASE Cur(s).op = "join" /\ Roomid'[s] = Cur(s).room /\ todo'[s] # todo[s]
    <3>1. PICK j \in 1..Len(todo[s]) : todo'[s][i] = todo[s][j] /\ j = i + 1
      BY <1>2, <2>3
    <3>2. j > 1 BY <3>1
    <3> QED BY <1>1, <2>3, <3>1, <3>2 DEF JoinShape
  <2> QED BY <1>1, <1>8, <2>1, <2>2, <2>3, HelloKept DEF InFirst
<1>9. FirstShape(s)' BY <1>1, <1>3, <1>5, <1>6, <1>7, <1>8 DEF FirstShape
<1> QED BY <1>4, <1>9

\* A Left is put on the channel when the leave is already there, or is next.
LEMMA LeftCall ==
    ASSUME IInv, NoneFull, GhostInv, LeftInv, NEW s \in Session, CallStep(s)
    PROVE  LeftInv'
<1> SUFFICES ASSUME NEW w \in Worker, NEW i \in 1..Len(workers'[w]), NEW u \in users'[w],
                    workers'[w][i].op = "Left", u = workers'[w][i].from
             PROVE  Going(u, w)'
  BY DEF LeftInv
<1>1. u \in users[w] /\ u \in Session BY CallsLeft DEF IInv, TypeOK
<1>2. JoinShape(s) BY DEF GhostInv
<1>3. CASE i \in 1..Len(workers[w])
  <2>1. workers[w][i].op = "Left" /\ workers[w][i].from = u BY <1>3, CallQueues
  <2> QED BY <1>1, <1>2, <1>3, <2>1, GoingKept DEF LeftInv
<1>4. CASE i \notin 1..Len(workers[w])
  <2>1. Cur(s).op = "Left" /\ u = s BY <1>4, CallQueues
  <2>2. Cur(s) = todo[s][1] /\ 1 \in 1..Len(todo[s]) BY CallsLeft, CurFacts DEF IInv
  <2>3. ~Stays(s, w) /\ ~JustIn(s, w) BY <2>1, <2>2 DEF Stays, Leaving, JustIn
  <2>4. Going(s, w) BY <1>1, <2>1, <2>3 DEF GhostInv, MembersAccounted, Going
  <2> QED BY <1>1, <1>2, <2>1, <2>4, GoingKept
<1> QED BY <1>3, <1>4

\* Somebody in the first room of a connection: whoever it shows or will show stays so
\* through the calls of another.
LEMMA ShownOthers ==
    ASSUME IInv, NoneFull, GhostInv, NEW s \in Session, CallStep(s),
           NEW t \in Session, t # s, NEW w \in Worker, NEW u \in users[w], Shows(t, u, w)
    PROVE  Shows(t, u, w)'
<1>1. u \in Session /\ users[w] # {} /\ JoinShape(s) BY DEF IInv, TypeOK, GhostInv
<1>2. todo'[t] = todo[t] /\ phase'[t] = phase[t] BY CallsLeft
<1>3. reply'[t] = reply[t] BY OthersWait
<1>4. buddies'[t] = buddies[t] BY ClientKept
<1>5. WelcomeComing(t, u) => WelcomeComing(t, u)' BY <1>2, <1>3 DEF WelcomeComing
<1>6. JoinedComing(u, w) => JoinedComing(u, w)' \/ Going(u, w)' BY JoinedKept
<1>7. Going(u, w) => Going(u, w)' BY <1>1, GoingKept
<1> QED BY <1>4, <1>5, <1>6, <1>7 DEF Shows

\* The answer with the users of the room, or the step before it, loses nobody.
LEMMA WelcomeKept ==
    ASSUME IInv, NEW s \in Session, JoinShape(s), FirstShape(s), InFirst(s), CallStep(s),
           NEW u \in Session, u # s, u \in buddies[s] \/ WelcomeComing(s, u)
    PROVE  u \in buddies'[s] \/ WelcomeComing(s, u)'
<1>1. /\ todo[s] \in Seq(Call) /\ todo[s] # <<>>
      /\ Cur(s) = todo[s][1] /\ 1 \in 1..Len(todo[s]) /\ Len(todo[s]) \in Nat
      /\ buddies \in [Session -> SUBSET Session] /\ inRoom \in [Session -> BOOLEAN]
  BY CallsLeft, CurFacts DEF IInv, TypeOK
<1>2. CASE todo'[s] = todo[s]
  <2>1. buddies'[s] = buddies[s] BY <1>2, ClientKept DEF clientVars
  <2>2. reply'[s] \in {reply[s], NoReply}
    BY DEF CallStep, GetFound, GetMissing, GetRefused, GetForCreate, Create, Send, SendPanics,
           Await, Answer, Advance, AdvancePlain, JoinFailed, IInv, TypeOK
  <2>3. reply[s] # NoReply => phase[s] = "await" BY DEF IInv, CallInv, CallOK
  <2> QED BY <1>2, <2>1, <2>2, <2>3 DEF WelcomeComing
<1>3. CASE todo'[s] # todo[s] /\ Cur(s).op = "Joined"
  <2>1. Advance(s) /\ UNCHANGED clientVars BY <1>3, ClientKept
  <2>2. todo'[s] = Tail(todo[s]) /\ phase'[s] \in {"idle", "get"}
    BY <2>1 DEF Advance, IInv, TypeOK
  <2>3. CASE u \in buddies[s] BY <2>1, <2>3 DEF clientVars
  <2>4. CASE WelcomeComing(s, u)
    <3>1. PICK i \in 1..Len(todo[s]) : todo[s][i].op = "welcome"
      BY <2>4 DEF WelcomeComing
    <3>2. i # 1 BY <1>1, <1>3, <3>1
    <3>3. i - 1 \in 1..Len(todo'[s]) /\ todo'[s][i - 1] = todo[s][i]
      BY <1>1, <2>2, <3>1, <3>2, TailFacts
    <3> QED BY <2>2, <3>1, <3>3 DEF WelcomeComing
  <2> QED BY <2>3, <2>4
<1>4. CASE todo'[s] # todo[s] /\ Cur(s).op = "welcome"
  <2>1. PICK us : /\ ShowUsers(s, us, TRUE)
                  /\ \/ reply[s] # NoReply /\ us = reply[s].users
                     \/ phase[s] = "get" /\ roomTable[Cur(s).room] = NoWorker
    BY <1>4, ClientKept
  <2>2. ~inRoom[s] BY <1>1, <1>4 DEF FirstShape, InFirst
  <2>3. buddies'[s] = buddies[s] \cup (us \ {s}) BY <1>1, <2>1, <2>2 DEF ShowUsers
  <2>4. roomTable[Cur(s).room] # NoWorker
    <3>1. Cur(s).room = Roomid[s] BY <1>1 DEF FirstShape
    <3> QED BY <3>1, FirstIsMember
  <2>5. reply[s] # NoReply /\ us = reply[s].users BY <2>1, <2>4
  <2>6. phase[s] = "await" BY <2>5 DEF IInv, CallInv, CallOK
  <2>7. WelcomeComing(s, u) => u \in us
    <3> SUFFICES ASSUME NEW i \in 1..Len(todo[s]), todo[s][i].op = "welcome",
                        i = 1 => u \in reply[s].users
                 PROVE  u \in us
      BY <2>5, <2>6 DEF WelcomeComing
    <3>1. i = Len(todo[s]) /\ 1 = Len(todo[s]) BY <1>1, <1>4 DEF JoinShape
    <3> QED BY <2>5, <3>1
  <2> QED BY <2>3, <2>7
<1>5. Cur(s).op \in {"Joined", "welcome"} BY <1>1 DEF FirstShape
<1> QED BY <1>2, <1>3, <1>4, <1>5

\* Where a session finds itself after a call in its first room, it was before, or it
\* has just got in and is about to ask who is there.
LEMMA ShownCall ==
    ASSUME IInv, NoneFull, GhostInv, BuddyInv, NEW s \in Session, CallStep(s)
    PROVE  ShownInv'
<1> SUFFICES ASSUME NEW t \in Session, InFirst(t)',
                    NEW u \in users'[roomTable'[Roomid'[t]]], u # t
             PROVE  Shows(t, u, roomTable[Roomid[t]])'
  BY DEF ShownInv
<1>1. JoinShape(s) /\ FirstShape(s) /\ FirstShape(t) /\ TellsAll(s) BY DEF GhostInv, BuddyInv
<1>2. users' = users /\ sent' = sent /\ disconnected' = disconnected BY CallsLeft
<1>3. ASSUME InFirst(t), Roomid'[t] = Roomid[t]
      PROVE  /\ roomTable[Roomid[t]] \in Worker /\ u \in users[roomTable[Roomid[t]]]
             /\ roomTable'[Roomid'[t]] = roomTable[Roomid[t]]
             /\ Shows(t, u, roomTable[Roomid[t]])
  <2>1. roomTable \in [Room -> Worker \cup {NoWorker}] BY DEF IInv, TypeOK
  <2>2. roomTable[Roomid[t]] \in Worker /\ roomTable[Roomid[t]] # NoWorker /\ Roomid[t] \in Room
    BY <1>1, <1>3, FirstIsMember
  <2>3. roomTable'[Roomid[t]] = roomTable[Roomid[t]] BY <2>1, <2>2, NewWorker
  <2>4. u \in users[roomTable[Roomid[t]]] BY <1>2, <1>3, <2>3
  <2> QED BY <1>3, <2>2, <2>3, <2>4 DEF BuddyInv, ShownInv
<1>4. ASSUME NEW w \in Worker, InFirst(t), roomTable'[Roomid'[t]] = w, Shows(t, u, w)'
      PROVE  Shows(t, u, roomTable[Roomid[t]])'
  BY <1>4
<1>5. CASE InFirst(t) /\ Roomid'[t] = Roomid[t]
  <2>1. PICK w \in Worker : w = roomTable[Roomid[t]] BY <1>3, <1>5
  <2>2. /\ u \in users[w] /\ roomTable'[Roomid'[t]] = w /\ Shows(t, u, w)
    BY <1>3, <1>5, <2>1
  <2>3. u \in Session BY <2>2 DEF IInv, TypeOK
  <2>4. Shows(t, u, w)'
    <3>1. CASE t # s BY <2>2, <3>1, ShownOthers
    <3>2. CASE t = s /\ (u \in buddies[s] \/ WelcomeComing(s, u))
      <4>1. u \in buddies'[s] \/ WelcomeComing(s, u)'
        BY <1>1, <1>5, <2>3, <3>2, WelcomeKept
      <4> QED BY <3>2, <4>1 DEF Shows
    <3>3. JoinedComing(u, w) => JoinedComing(u, w)' \/ Going(u, w)' BY <2>2, JoinedKept
    <3>4. Going(u, w) => Going(u, w)' BY <1>1, <2>2, <2>3, GoingKept
    <3> QED BY <2>2, <3>1, <3>2, <3>3, <3>4 DEF Shows
  <2> QED BY <1>4, <1>5, <2>2, <2>4
<1>6. CASE ~(InFirst(t) /\ Roomid'[t] = Roomid[t])
  <2>1. t = s /\ todo'[s] # todo[s] BY <1>2, <1>6, HelloKept DEF InFirst
  <2>2. Cur(s).op = "join" /\ Advance(s)
    <3>1. ~JoinFailed(s) BY <2>1 DEF JoinFailed, InFirst, IInv, TypeOK
    <3> QED BY <1>2, <1>6, <2>1, <3>1, HelloKept DEF InFirst
  <2>3. /\ Cur(s) = todo[s][1] /\ 1 \in 1..Len(todo[s]) /\ todo[s] # <<>>
        /\ todo[s] \in Seq(Call)
    BY CallsLeft, CurFacts DEF IInv
  <2>4. PICK l \in 1..Len(todo[s]) : l > 1 /\ todo[s][l].op = "welcome"
    BY <1>1, <2>2, <2>3 DEF TellsAll
  <2>5. todo'[s] = Tail(todo[s]) /\ phase'[s] \in {"idle", "get"}
    BY <2>2 DEF Advance, IInv, TypeOK
  <2>6. l - 1 \in 1..Len(todo'[s]) /\ todo'[s][l - 1] = todo[s][l]
    BY <2>3, <2>4, <2>5, TailFacts
  <2>7. WelcomeComing(s, u)' BY <2>4, <2>5, <2>6 DEF WelcomeComing
  <2> QED BY <2>1, <2>7 DEF Shows
<1> QED BY <1>5, <1>6

\* A call keeps BuddyInv.
LEMMA BuddyCall ==
    ASSUME IInv, NoneFull, GhostInv, BuddyInv, NEW s \in Session, CallStep(s)
    PROVE  BuddyInv'
<1>1. ASSUME NEW t \in Session PROVE FirstShape(t)' /\ TellsAll(t)'
  <2>1. CASE t = s BY <2>1, FirstCall DEF GhostInv, BuddyInv
  <2>2. CASE t # s
    <3>1. \A w \in Worker : LeaveQueued(t, w)' => LeaveQueued(t, w)
      BY <2>2, CallQueues DEF LeaveQueued
    <3> QED BY <2>2, <3>1, CallsLeft, HelloKept, ClientKept, FirstFrame DEF BuddyInv
  <2> QED BY <2>1, <2>2
<1> QED BY <1>1, LeftCall, ShownCall DEF BuddyInv

\* The room of somebody who is in it is not taken off the table.
LEMMA FirstRoomKept ==
    ASSUME IInv, NEW w \in Worker, WorkerStep(w), NEW s \in Session, FirstShape(s), InFirst(s)
    PROVE  roomTable'[Roomid[s]] = roomTable[Roomid[s]]
<1>1. CASE Cleanup(w)
  <2>1. /\ roomTable \in [Room -> Worker \cup {NoWorker}] /\ wroom[w] \in Room
        /\ roomTable[wroom[w]] = w /\ wstate[w] = "closed"
    BY <1>1 DEF Cleanup, IInv, TypeOK, TableInv, Alive
  <2>2. Roomid[s] \in Room /\ wstate[roomTable[Roomid[s]]] = "running" BY FirstIsMember
  <2>3. Roomid[s] # wroom[w] BY <2>1, <2>2
  <2> QED BY <1>1, <2>1, <2>2, <2>3 DEF Cleanup
<1>2. CASE ~Cleanup(w)
  <2>1. roomTable' = roomTable
    BY <1>2
    DEF WorkerStep, RunJob, RunJoin, RunLeave, RunUpdate, RunUsers, RunBroadcast, Expire,
        CloseWorkers, managerVars
  <2> QED BY <2>1
<1> QED BY <1>1, <1>2

\* Whom a worker lets in sends no Left before it hears of it.
LEMMA LeftWorker ==
    ASSUME IInv, LeftInv, NEW w \in Worker, WorkerStep(w)
    PROVE  LeftInv'
<1> SUFFICES ASSUME NEW v \in Worker, NEW i \in 1..Len(workers'[v]), NEW u \in users'[v],
                    workers'[v][i].op = "Left", u = workers'[v][i].from
             PROVE  Going(u, v)'
  BY DEF LeftInv
<1>1. PICK j \in 1..Len(workers[v]) :
          workers'[v][i] = workers[v][j] /\ (v = w /\ RunJob(w) => j = i + 1)
  BY WorkerQueues
<1>2. CASE u \in users[v]
  <2>1. Going(u, v) BY <1>1, <1>2 DEF LeftInv
  <2> QED BY <2>1, GoingOn
<1>3. CASE u \notin users[v]
  <2>1. v = w /\ RunJoin(w) /\ u = Job1(w).from BY <1>3, WorkerFacts
  <2>2. wstate[w] = "running" /\ workers[w] # <<>> /\ Job1(w).op = "join"
    BY <2>1 DEF RunJoin, Runs
  <2>3. j > 1 BY <1>1, <2>1 DEF RunJob
  <2>4. workers[w][j].from # u BY <1>1, <2>1, <2>2, <2>3, RunsFor DEF Answered
  <2> QED BY <1>1, <2>1, <2>4
<1> QED BY <1>2, <1>3

\* The newcomer's Joined is still to come when its worker lets it in.
LEMMA NewcomerTells ==
    ASSUME IInv, GhostInv, BuddyInv, NEW w \in Worker, RunJoin(w), WorkerStep(w),
           NEW s, s = Job1(w).from
    PROVE  JoinedComing(s, w)'
<1>1. wstate[w] = "running" /\ workers[w] # <<>> /\ Job1(w).op = "join"
  BY DEF RunJoin, Runs
<1>2. /\ s \in Session /\ phase[s] = "await" /\ Cur(s).op = "join" /\ Cur(s).room = wroom[w]
      /\ UNCHANGED <<todo, wroom>>
  BY <1>1, RunsFor, WorkerFacts DEF Answered
<1>3. todo[s] # <<>> BY <1>2 DEF IInv, CallInv, CallOK
<1>4. Cur(s) = todo[s][1] /\ 1 \in 1..Len(todo[s]) BY <1>2, <1>3, CurFacts DEF IInv
<1>5. TellsAll(s) /\ JoinShape(s) BY <1>2 DEF BuddyInv, GhostInv
<1>6. PICK k \in 1..Len(todo[s]) : k > 1 /\ todo[s][k].op = "Joined"
  BY <1>2, <1>4, <1>5 DEF TellsAll
<1>7. todo[s][k].room = wroom[w] BY <1>2, <1>4, <1>5, <1>6 DEF JoinShape
<1> QED BY <1>2, <1>6, <1>7 DEF JoinedComing

\* Who is shown stays so until the Left, which is of somebody going; the Joined adds
\* its sender; the answer to the Welcome has the members of the moment in it.
LEMMA ShownWorker ==
    ASSUME IInv, GhostInv, BuddyInv, NEW w \in Worker, WorkerStep(w),
           NEW t \in Session, InFirst(t), NEW v \in Worker, v = roomTable[Roomid[t]],
           NEW u \in users'[v], u \in users[v], u # t
    PROVE  Shows(t, u, v)'
<1>1. /\ UNCHANGED <<wroom, todo, phase, target, sessionVars, inRoom>>
      /\ t \in users[v] /\ wstate[v] = "running" /\ FirstShape(t)
      /\ u \in Session /\ Shows(t, u, v)
  BY WorkerFacts, FirstIsMember DEF BuddyInv, ShownInv, IInv, TypeOK
<1>2. CASE Going(u, v)
  <2>1. Going(u, v)' BY <1>2, GoingOn
  <2> QED BY <2>1 DEF Shows
<1>3. CASE JoinedComing(u, v)
  <2>1. CASE \E i \in 1..Len(todo[u]) : todo[u][i].op = "Joined" /\ todo[u][i].room = wroom[v]
    BY <1>1, <2>1 DEF JoinedComing, Shows
  <2>2. ASSUME NEW j \in 1..Len(workers[v]), workers[v][j].op = "Joined", workers[v][j].from = u
        PROVE  Shows(t, u, v)'
    <3>1. CASE \E i \in 1..Len(workers'[v]) : workers'[v][i] = workers[v][j]
      BY <2>2, <3>1 DEF JoinedComing, Shows
    <3>2. CASE v = w /\ RunJob(w) /\ j = 1
      <4>1. workers[w] # <<>>
        BY <3>2 DEF RunJob, RunJoin, RunLeave, RunUpdate, RunUsers, RunBroadcast, Runs
      <4>2. Job1(w).op = "Joined" /\ Job1(w).from = u BY <2>2, <3>2, <4>1, HeadJob DEF IInv
      <4>3. RunBroadcast(w)
        BY <3>2, <4>2 DEF RunJob, RunJoin, RunLeave, RunUpdate, RunUsers, Runs
      <4>4. u \in buddies'[t] BY <1>1, <3>2, <4>2, <4>3 DEF RunBroadcast
      <4> QED BY <4>4 DEF Shows
    <3> QED BY <3>1, <3>2, WorkerQueues
  <2> QED BY <1>3, <2>1, <2>2 DEF JoinedComing
<1>4. CASE u \in buddies[t]
  <2>1. CASE u \in buddies'[t] BY <2>1 DEF Shows
  <2>2. CASE u \notin buddies'[t]
    <3>1. RunBroadcast(w)
      BY <1>4, <2>2
      DEF WorkerStep, RunJob, RunJoin, RunLeave, RunUpdate, RunUsers, Expire, CloseWorkers,
          Cleanup, clientVars
    <3>2. t \in users[w] /\ Job1(w).op = "Left" /\ Job1(w).from = u
      BY <1>4, <2>2, <3>1 DEF RunBroadcast
    <3>3. v = w BY <1>1, <3>2, OnlyThere
    <3>4. Job1(w) = workers[w][1] /\ 1 \in 1..Len(workers[w])
      BY <3>1, HeadJob DEF IInv, RunBroadcast, Runs
    <3>5. Going(u, v) BY <3>2, <3>3, <3>4 DEF BuddyInv, LeftInv
    <3> QED BY <1>2, <3>5
  <2> QED BY <2>1, <2>2
<1>5. CASE WelcomeComing(t, u)
  <2>1. PICK i \in 1..Len(todo[t]) :
            /\ todo[t][i].op = "welcome"
            /\ i = 1 /\ phase[t] = "await" /\ reply[t] # NoReply => u \in reply[t].users
    BY <1>5 DEF WelcomeComing
  <2>2. ASSUME i = 1, phase[t] = "await", reply'[t] # NoReply PROVE u \in reply'[t].users
    <3>1. CASE reply[t] # NoReply BY <2>1, <2>2, <3>1, RepliesKept
    <3>2. CASE reply[t] = NoReply
      <4>1. Cur(t) = todo[t][1] /\ Cur(t).op = "welcome" /\ Cur(t).room = Roomid[t]
        <5>1. todo[t] # <<>> BY <2>2 DEF IInv, CallInv, CallOK
        <5>2. Cur(t) = todo[t][1] BY <5>1, CurFacts DEF IInv
        <5> QED BY <1>1, <2>1, <2>2, <5>2 DEF FirstShape
      <4>2. PICK ok, us : Result(w, ok, us)
        BY <2>2, <3>2
        DEF WorkerStep, RunJob, RunJoin, RunLeave, RunUpdate, RunUsers, RunBroadcast, Expire,
            CloseWorkers, Cleanup
      <4>3. t = Job1(w).from
        BY <2>2, <3>2, <4>2 DEF Result, IInv, TypeOK
      <4>4. wstate[w] = "running" /\ workers[w] # <<>> /\ Job1(w).op \in Answered
        BY <2>2, <3>2
        DEF WorkerStep, RunJob, RunJoin, RunLeave, RunUpdate, RunUsers, RunBroadcast, Expire,
            CloseWorkers, Cleanup, Runs, Answered
      <4>5. Job1(w).op = "welcome" /\ wroom[w] = Roomid[t] BY <4>1, <4>3, <4>4, RunsFor
      <4>6. RunUsers(w)
        <5>1. RunJob(w)
          BY <2>2, <3>2 DEF WorkerStep, Expire, CloseWorkers, Cleanup
        <5> QED BY <4>5, <5>1
                DEF RunJob, RunJoin, RunLeave, RunUpdate, RunBroadcast, Runs, Broadcasts
      <4>7. w = v BY <4>4, <4>5 DEF IInv, TableInv, Alive
      <4>8. reply'[t] = [ok |-> TRUE, users |-> users[w]]
        BY <4>3, <4>6 DEF RunUsers, Result, IInv, TypeOK
      <4> QED BY <4>7, <4>8
    <3> QED BY <3>1, <3>2
  <2>3. WelcomeComing(t, u)' BY <1>1, <2>1, <2>2 DEF WelcomeComing
  <2> QED BY <2>3 DEF Shows
<1> QED BY <1>1, <1>2, <1>3, <1>4, <1>5 DEF Shows

\* What a worker does keeps BuddyInv.
LEMMA BuddyWorker ==
    ASSUME IInv, GhostInv, BuddyInv, NEW w \in Worker, WorkerStep(w)
    PROVE  BuddyInv'
<1>1. UNCHANGED <<wroom, todo, phase, target, sessionVars, inRoom>> BY WorkerFacts
<1>2. ASSUME NEW t \in Session PROVE FirstShape(t)' /\ TellsAll(t)'
  <2>1. \A v \in Worker : LeaveQueued(t, v)' => LeaveQueued(t, v)
    BY WorkerQueues DEF LeaveQueued
  <2> QED BY <1>1, <2>1, FirstFrame DEF BuddyInv, sessionVars
<1>3. LeftInv' BY LeftWorker DEF BuddyInv
<1>4. ShownInv'
  <2> SUFFICES ASSUME NEW t \in Session, InFirst(t)',
                      NEW u \in users'[roomTable'[Roomid'[t]]], u # t
               PROVE  Shows(t, u, roomTable[Roomid[t]])'
    BY DEF ShownInv
  <2>1. InFirst(t) /\ Roomid'[t] = Roomid[t] BY <1>1 DEF InFirst, sessionVars
  <2>2. PICK v \in Worker : v = roomTable[Roomid[t]] BY <2>1, FirstIsMember DEF BuddyInv
  <2>3. v = roomTable'[Roomid'[t]] BY <2>1, <2>2, FirstRoomKept DEF BuddyInv
  <2>4. u \in users'[v] BY <2>3
  <2>5. Shows(t, u, v)'
    <3>1. CASE u \in users[v] BY <2>1, <2>2, <2>4, <3>1, ShownWorker
    <3>2. CASE u \notin users[v]
      <4>1. v = w /\ RunJoin(w) /\ u = Job1(w).from BY <2>4, <3>2, WorkerFacts
      <4>2. JoinedComing(u, w)' BY <4>1, NewcomerTells
      <4> QED BY <4>1, <4>2 DEF Shows
    <3> QED BY <3>1, <3>2
  <2> QED BY <2>3, <2>5
<1> QED BY <1>2, <1>3, <1>4 DEF BuddyInv

\* The Welcome "contains all data needed to set up the initial room connection"
\* (CHANNELING-API.md), and Joined and Left the rest: in the first room of a connection
\* nobody is missing from the list when everything is delivered, under the hypotheses
\* of GhostsExcluded (JoinRoom, roomworker.go, rooms.js).
THEOREM BuddiesShown ==
    ASSUME ~Rehello
    PROVE  Spec /\ []NoneFull => []BuddiesComplete
<1>1. Init => BuddyInv
  <2> SUFFICES ASSUME Init PROVE BuddyInv
    OBVIOUS
  <2>1. ASSUME NEW s \in Session PROVE FirstShape(s) /\ TellsAll(s)
    <3>1. todo[s] = <<>> /\ Len(todo[s]) = 0 BY DEF Init
    <3>2. \A w \in Worker : Len(workers[w]) = 0 BY DEF Init
    <3>3. \A w \in Worker : ~LeaveQueued(s, w) BY <3>2 DEF LeaveQueued
    <3>4. TellsAll(s) BY <3>1 DEF TellsAll
    <3> QED BY <3>1, <3>3, <3>4 DEF Init, FirstShape, InFirst
  <2>2. LeftInv BY DEF Init, LeftInv
  <2>3. ShownInv BY DEF Init, ShownInv, InFirst
  <2> QED BY <2>1, <2>2, <2>3 DEF BuddyInv
<1>2. IInv /\ NoneFull /\ GhostInv /\ BuddyInv /\ [Next]_vars => BuddyInv'
  <2> SUFFICES ASSUME IInv, NoneFull, GhostInv, BuddyInv, [Next]_vars PROVE BuddyInv'
    OBVIOUS
  <2>1. CASE UNCHANGED vars
    <3>1. \A t \in Session : FirstShape(t)' /\ TellsAll(t)'
      BY <2>1, FirstFrame DEF vars, BuddyInv, LeaveQueued
    <3>2. \A u \in Session, w \in Worker : Going(u, w) => Going(u, w)'
      BY <2>1 DEF vars, Going, LeaveQueued, ToLeave
    <3>3. LeftInv'
      <4> SUFFICES ASSUME NEW w \in Worker, NEW i \in 1..Len(workers[w]),
                          NEW u \in users[w], u = workers[w][i].from, workers[w][i].op = "Left"
                   PROVE  Going(u, w)'
        BY <2>1 DEF vars, LeftInv, Going, LeaveQueued, ToLeave
      <4>1. Going(u, w) BY DEF BuddyInv, LeftInv
      <4> QED BY <3>2, <4>1 DEF IInv, TypeOK
    <3>4. ShownInv'
      BY <2>1
      DEF vars, BuddyInv, ShownInv, InFirst, Shows, WelcomeComing, JoinedComing, Going,
          LeaveQueued, ToLeave
    <3> QED BY <3>1, <3>3, <3>4 DEF BuddyInv
  <2>2. ASSUME NEW s \in Session, Message(s) \/ CallStep(s) PROVE BuddyInv'
    BY <2>2, BuddyMessage, BuddyCall
  <2>3. ASSUME NEW w \in Worker, WorkerStep(w) PROVE BuddyInv'
    BY <2>3, BuddyWorker
  <2> QED BY <2>1, <2>2, <2>3 DEF Next
<1>3. IInv /\ GhostInv /\ BuddyInv => BuddiesComplete
  <2> SUFFICES ASSUME IInv, BuddyInv, Quiet, NEW s \in Session, InFirst(s),
                      NEW u \in users[roomTable[Roomid[s]]], u # s
               PROVE  u \in buddies[s]
    BY DEF BuddiesComplete, ShowsEverybody, InFirst
  <2>1. PICK w \in Worker : w = roomTable[Roomid[s]] /\ wstate[w] = "running"
    BY FirstIsMember DEF BuddyInv
  <2>2. Shows(s, u, w) /\ u \in Session BY <2>1 DEF BuddyInv, ShownInv, IInv, TypeOK
  <2>3. \A t \in Session : Len(todo[t]) = 0
    BY DEF Quiet, IInv, CallInv, CallOK
  <2>4. Len(workers[w]) = 0 BY <2>1 DEF Quiet
  <2> QED
    BY <2>2, <2>3, <2>4
    DEF Shows, WelcomeComing, JoinedComing, Going, LeaveQueued, ToLeave
<1> QED BY <1>1, <1>2, <1>3, Accounted, Invariance, PTL DEF Spec
=============================================================================
