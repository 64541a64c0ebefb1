---------------------------- MODULE PipelineProofs ----------------------------
(***************************************************************************)
(* What holds of the pipelines for any number of callers, bus sessions,    *)
(* faked sessions and documents.                                           *)
(***************************************************************************)
EXTENDS Pipeline, TLAPS

-----------------------------------------------------------------------------
(* The invariant. *)

HasPipe(g) == pc[g] \in {"refresh", "unicast", "find", "bind", "add", "write", "close"}
Adding(g)  == pc[g] \in {"unicast", "find", "bind", "add", "write"}

\* What the tables name is there, under its own id; only sessions of the bus have sinks.
Tables ==
    /\ \A id \in Session \X Session : pipelineTable[id] # None =>
          pipelineTable[id] \in DOMAIN pipe /\ pipe[pipelineTable[id]].id = id
    /\ \A s \in Session : sinkTable[s] # None => s \in BusSession

\* A goroutine has a document while it handles one, and from GetPipeline on
\* the pipeline of that document.
Local(g) ==
    /\ Handling(g) => doc[g] \in Doc
    /\ HasPipe(g) => cur[g] \in DOMAIN pipe /\ pipe[cur[g]].id = <<doc[g].from, doc[g].to>>
    /\ ~HasPipe(g) => cur[g] = None
    /\ pc[g] = "bind" => sinkVar[g] # None /\ pipe[cur[g]].to # None
    /\ pc[g] = "write" => sinkVar[g] # None

\* Documents from a caller are handled by its own ReadPump only; no handler panics.
Own(g) ==
    /\ Handling(g) /\ (doc[g].from \in Caller \/ g \in Caller) => doc[g].from = g
    /\ pc[g] # "panicked"

\* A pipeline has a session before anything can come in for it.
Sessions ==
    /\ \A k \in Sink : bound[k] # None => bound[k] \in DOMAIN pipe /\ pipe[bound[k]].to # None
    /\ \A p \in DOMAIN pipe : pipe[p].queue # <<>> => pipe[p].to # None

\* The clean-up has the manager's lock, and what it goes through is in the table.
CleaningUp ==
    /\ looking # None \/ cleaning # {} => plmLock = Cleaner
    /\ found => looking # None
    /\ looking \notin cleaning
    /\ \A p \in cleaning \cup ({looking} \ {None}) : p \in DOMAIN pipe /\ pipelineTable[pipe[p].id] = p

\* The pipeline a caller adds to stays in the table, and is not about to go.
Kept(g) ==
    /\ pc[g] = "refresh" => plmLock = g
    /\ g \in Caller /\ (pc[g] = "refresh" \/ Adding(g)) => pipelineTable[<<doc[g].from, doc[g].to>>] = cur[g]
    /\ g \in Caller /\ Adding(g) => pipe[cur[g]].expires = "later" /\ ~(found /\ looking = cur[g])

IInv ==
    /\ TypeOK /\ Tables /\ Sessions /\ CleaningUp
    /\ \A g \in Goroutine : Local(g) /\ Own(g) /\ Kept(g)

-----------------------------------------------------------------------------
(* Types. *)

LEMMA IsRecord ==
    ASSUME TypeOK, NEW p \in DOMAIN pipe
    PROVE  pipe[p] \in PipelineRecord
BY DEF TypeOK

\* One pipeline is changed.
LEMMA UpdateFacts ==
    ASSUME TypeOK, NEW p \in DOMAIN pipe, NEW P \in PipelineRecord, Update(p, P)
    PROVE  /\ pipe' \in Seq(PipelineRecord) /\ DOMAIN pipe' = DOMAIN pipe
           /\ pipe'[p] = P /\ \A q \in DOMAIN pipe \ {p} : pipe'[q] = pipe[q]
BY DEF TypeOK, Update

\* A pipeline is made.
LEMMA NewFacts ==
    ASSUME TypeOK, NEW P \in PipelineRecord, pipe' = Append(pipe, P)
    PROVE  /\ pipe' \in Seq(PipelineRecord) /\ DOMAIN pipe' = DOMAIN pipe \cup {Len(pipe) + 1}
           /\ Len(pipe') = Len(pipe) + 1 /\ Len(pipe) \in Nat /\ Len(pipe) + 1 \notin DOMAIN pipe
           /\ pipe'[Len(pipe) + 1] = P /\ \A q \in DOMAIN pipe : pipe'[q] = pipe[q]
BY DEF TypeOK

\* The handler is done with its document.
LEMMA DoneTypes ==
    ASSUME TypeOK, NEW g \in Goroutine, Done(g)
    PROVE  /\ pc' \in [Goroutine -> {"idle", "get", "refresh", "unicast", "find", "bind", "add",
                                     "write", "close", "panicked", "ended"}]
           /\ doc' \in [Goroutine -> Doc \cup {None}] /\ cur' \in [Goroutine -> Pipe \cup {None}]
           /\ sinkVar' \in [Goroutine -> Sink \cup {None}] /\ place' \in [Goroutine -> Nat]
<1>1. pc' = [pc EXCEPT ![g] = "idle"] /\ doc' = [doc EXCEPT ![g] = None] /\ cur' = [cur EXCEPT ![g] = None]
  BY DEF Done
<1>2. sinkVar' = [sinkVar EXCEPT ![g] = None] /\ place' = [place EXCEPT ![g] = 0]
  BY DEF Done
<1>3. place' \in [Goroutine -> Nat]
  BY <1>2 DEF TypeOK
<1>4. doc' \in [Goroutine -> Doc \cup {None}] /\ cur' \in [Goroutine -> Pipe \cup {None}]
  BY <1>1 DEF TypeOK
<1> QED BY <1>1, <1>2, <1>3, <1>4 DEF TypeOK

\* A document has been passed on: the handler goes on to Close, or is done.
LEMMA PassedTypes ==
    ASSUME TypeOK, NEW g \in Goroutine, Passed(g)
    PROVE  /\ pc' \in [Goroutine -> {"idle", "get", "refresh", "unicast", "find", "bind", "add",
                                     "write", "close", "panicked", "ended"}]
           /\ doc' \in [Goroutine -> Doc \cup {None}] /\ cur' \in [Goroutine -> Pipe \cup {None}]
           /\ sinkVar' \in [Goroutine -> Sink \cup {None}] /\ place' \in [Goroutine -> Nat]
<1>1. CASE doc[g].type = "bye"
  BY <1>1 DEF TypeOK, Passed, Goto
<1>2. CASE doc[g].type # "bye"
  BY <1>2, DoneTypes DEF Passed
<1> QED BY <1>1, <1>2

\* A sink is found for sessions of the bus and faked ones only.
LEMMA FindSinkFacts ==
    ASSUME TypeOK, Tables, NEW to \in Session
    PROVE  /\ FindSink(to) \in Sink \cup {None}
           /\ FindSink(to) # None => to \in Callee
BY DEF TypeOK, Tables, FindSink, Callee, Session

\* Find changes the pipeline of the document, gives its lock back and goes on.
LEMMA FindFacts ==
    ASSUME IInv, NEW g \in Goroutine, pc[g] \in {"unicast", "find"}, Find(g)
    PROVE  /\ cur[g] \in DOMAIN pipe
           /\ \E P \in PipelineRecord :
                 /\ Update(cur[g], P)
                 /\ P.id = pipe[cur[g]].id /\ P.expires = pipe[cur[g]].expires
                 /\ P.queue = pipe[cur[g]].queue
                 /\ pipe[cur[g]].to # None => P.to # None
                 /\ pc'[g] = "bind" => P.to # None /\ sinkVar'[g] # None
           /\ sinkVar' \in [Goroutine -> Sink \cup {None}]
           /\ Goto(g, "add") \/ Goto(g, "bind")
           /\ \A h \in Goroutine \ {g} : sinkVar'[h] = sinkVar[h]
<1> DEFINE p == cur[g]
           k == FindSink(doc[g].to)
           P == [pipe[p] EXCEPT !.lock = None]
           Q == [P EXCEPT !.to = doc[g].to]
           R == [Q EXCEPT !.sink = k, !.since = P.data + 1]
<1>1. p \in DOMAIN pipe /\ pipe[p] \in PipelineRecord /\ doc[g] \in Doc
  BY IsRecord DEF IInv, Local, HasPipe, Handling
<1>2. doc[g].to \in Session /\ doc[g].to # None
  BY <1>1, NameAssumption DEF Doc
<1>3. k \in Sink \cup {None} /\ (k # None => doc[g].to \in Callee)
  BY <1>2, FindSinkFacts DEF IInv
<1>4. sinkVar' = [sinkVar EXCEPT ![g] = k]
  BY DEF Find
<1>5. \/ k = None /\ Update(p, P) /\ Goto(g, "add")
      \/ k # None /\ Update(p, Q) /\ Goto(g, "add")
      \/ k # None /\ Update(p, R) /\ Goto(g, "bind")
  BY DEF Find
<1>6. /\ P \in PipelineRecord /\ P.id = pipe[p].id /\ P.expires = pipe[p].expires
      /\ P.queue = pipe[p].queue /\ P.to = pipe[p].to
  BY <1>1 DEF PipelineRecord
<1>7. k # None => /\ Q \in PipelineRecord /\ Q.id = pipe[p].id /\ Q.expires = pipe[p].expires
                  /\ Q.queue = pipe[p].queue /\ Q.to # None
  BY <1>2, <1>3, <1>6 DEF PipelineRecord
<1>8. k # None => /\ R \in PipelineRecord /\ R.id = pipe[p].id /\ R.expires = pipe[p].expires
                  /\ R.queue = pipe[p].queue /\ R.to # None
  <2>1. P.data + 1 \in Nat BY <1>6 DEF PipelineRecord
  <2> HIDE DEF P, Q
  <2> QED BY <1>2, <1>3, <1>6, <1>7, <2>1 DEF PipelineRecord
<1>9. sinkVar' \in [Goroutine -> Sink \cup {None}] /\ sinkVar'[g] = k
      /\ \A h \in Goroutine \ {g} : sinkVar'[h] = sinkVar[h]
  BY <1>3, <1>4 DEF IInv, TypeOK
<1>10. \A l : Goto(g, l) => pc'[g] = l
  BY DEF Goto, IInv, TypeOK
<1> HIDE DEF P, Q, R, k, p
<1> QED BY <1>1, <1>5, <1>6, <1>7, <1>8, <1>9, <1>10 DEF p

-----------------------------------------------------------------------------
(* What a step leaves alone. *)

\* Pipelines stay, with their id, their session, and time to go.
PipesKeep ==
    /\ DOMAIN pipe \subseteq DOMAIN pipe'
    /\ \A p \in DOMAIN pipe : pipe'[p].id = pipe[p].id /\ (pipe[p].to # None => pipe'[p].to # None)

Same(g) == pc'[g] = pc[g] /\ doc'[g] = doc[g] /\ cur'[g] = cur[g] /\ sinkVar'[g] = sinkVar[g]

\* A goroutine that does nothing keeps what is known of its locals.
LEMMA LocalSame ==
    ASSUME IInv, PipesKeep, NEW g \in Goroutine, Same(g)
    PROVE  Local(g)' /\ Own(g)'
BY DEF IInv, Local, Own, PipesKeep, Same, HasPipe, Handling

\* A caller keeps its pipeline when another goroutine, or the clean-up, takes a step.
LEMMA KeptSame ==
    ASSUME IInv, PipesKeep, NEW g \in Goroutine, Same(g),
           pc[g] = "refresh" => plmLock' = plmLock,
           g \in Caller /\ (pc[g] = "refresh" \/ Adding(g)) =>
              pipelineTable'[<<doc[g].from, doc[g].to>>] = cur[g],
           g \in Caller /\ Adding(g) => pipe'[cur[g]].expires = pipe[cur[g]].expires,
           g \in Caller /\ Adding(g) => ~(found' /\ looking' = cur[g])
    PROVE  Kept(g)'
BY DEF IInv, Kept, Same, Adding

\* Pipelines that stay keep the tables and what the clean-up knows of them.
LEMMA TablesSame ==
    ASSUME IInv, PipesKeep, UNCHANGED <<pipelineTable, sinkTable>>
    PROVE  Tables'
BY DEF IInv, Tables, PipesKeep

LEMMA CleaningSame ==
    ASSUME IInv, PipesKeep, UNCHANGED <<pipelineTable, cleaning, looking, found>>,
           plmLock = Cleaner => plmLock' = Cleaner
    PROVE  CleaningUp'
BY DEF IInv, CleaningUp, PipesKeep

\* Nothing comes in, or is subscribed, for a pipeline that has no session.
LEMMA SessionsSame ==
    ASSUME IInv, PipesKeep, bound' = bound, DOMAIN pipe' = DOMAIN pipe,
           \A p \in DOMAIN pipe : pipe'[p].queue # <<>> => pipe[p].queue # <<>>
    PROVE  Sessions'
BY DEF IInv, Sessions, PipesKeep

\* A pipeline that is changed stays what it is.
LEMMA UpdateKeeps ==
    ASSUME IInv, NEW p \in DOMAIN pipe, NEW P \in PipelineRecord, Update(p, P),
           P.id = pipe[p].id, pipe[p].to # None => P.to # None, P.queue # <<>> => pipe[p].queue # <<>>
    PROVE  /\ PipesKeep
           /\ pipe' \in Seq(PipelineRecord) /\ DOMAIN pipe' = DOMAIN pipe /\ DOMAIN pipe' \subseteq Pipe
           /\ pipe'[p] = P /\ \A q \in DOMAIN pipe \ {p} : pipe'[q] = pipe[q]
           /\ \A q \in DOMAIN pipe : pipe'[q].queue # <<>> => pipe[q].queue # <<>>
<1>1. /\ pipe' \in Seq(PipelineRecord) /\ DOMAIN pipe' = DOMAIN pipe
      /\ pipe'[p] = P /\ \A q \in DOMAIN pipe \ {p} : pipe'[q] = pipe[q]
  BY UpdateFacts DEF IInv
<1> QED BY <1>1 DEF PipesKeep, IInv, TypeOK

\* Only the goroutine of a caller has the pipeline of a document of that caller.
LEMMA OnlyItsOwn ==
    ASSUME IInv, NEW g \in Goroutine, NEW c \in Caller, HasPipe(g), HasPipe(c), cur[g] = cur[c]
    PROVE  g = c
<1>1. c \in Goroutine /\ Handling(c) /\ Handling(g)
  BY DEF Goroutine, HasPipe, Handling
<1>2. doc[g].from = doc[c].from
  BY <1>1 DEF IInv, Local
<1> QED BY <1>1, <1>2 DEF IInv, Own

-----------------------------------------------------------------------------
(* The steps. *)

\* When nothing changes but the locals of one goroutine, and what is no part of
\* the invariant, the rest of it stays.
LEMMA OneGoroutine ==
    ASSUME IInv, UNCHANGED <<pipe, pipelineTable, sinkTable, bound, cleaning, looking, found, plmLock>>,
           NEW g \in Goroutine, \A h \in Goroutine \ {g} : Same(h),
           TypeOK', Local(g)', Own(g)', Kept(g)'
    PROVE  IInv'
<1>1. PipesKeep BY DEF PipesKeep
<1>2. Tables' /\ CleaningUp' /\ Sessions'
  BY <1>1, TablesSame, CleaningSame, SessionsSame
<1>3. \A h \in Goroutine \ {g} : Local(h)' /\ Own(h)'
  BY <1>1, LocalSame
<1>4. \A h \in Goroutine \ {g} : Kept(h)'
  BY <1>1, KeptSame DEF IInv, Kept
<1> QED BY <1>2, <1>3, <1>4 DEF IInv

LEMMA SendInv ==
    ASSUME IInv, NEW c \in Caller, NEW to \in Callee, NEW type \in {"call", "bye"}, Send(c, to, type)
    PROVE  IInv'
<1> DEFINE d == [from |-> c, to |-> to, type |-> type]
<1>1. c \in Goroutine /\ d \in Doc /\ d.from = c
  BY DEF Goroutine, Doc, Session
<1>2. sent' \in 0 .. MaxDocs
  BY LimitAssumption DEF IInv, TypeOK, Send
<1>3. /\ doc' = [doc EXCEPT ![c] = d] /\ pc' = [pc EXCEPT ![c] = "get"]
      /\ UNCHANGED <<pvars, svars, cvars, cur, sinkVar, place, made, received, online, plmLock>>
  BY DEF Send, Goto
<1>4. /\ doc'[c] = d /\ pc'[c] = "get" /\ pc[c] = "idle"
      /\ \A h \in Goroutine \ {c} : Same(h)
  BY <1>1, <1>3 DEF IInv, TypeOK, Same, Send
<1> HIDE DEF d
<1>5. TypeOK'
  <2>1. doc' \in [Goroutine -> Doc \cup {None}]
    BY <1>1, <1>3 DEF IInv, TypeOK
  <2>2. pc' \in [Goroutine -> {"idle", "get", "refresh", "unicast", "find", "bind", "add",
                                "write", "close", "panicked", "ended"}]
    BY <1>3 DEF IInv, TypeOK
  <2> QED BY <1>2, <1>3, <2>1, <2>2 DEF IInv, TypeOK, pvars, svars, cvars
<1>6. Local(c)' /\ Own(c)' /\ Kept(c)'
  <2>1. cur[c] = None BY <1>1, <1>4 DEF IInv, Local, HasPipe
  <2> QED BY <1>1, <1>3, <1>4, <2>1 DEF Local, Own, Kept, HasPipe, Handling, Adding
<1> QED BY <1>1, <1>3, <1>4, <1>5, <1>6, OneGoroutine DEF pvars, svars, cvars

LEMMA GetOldInv ==
    ASSUME IInv, NEW g \in Goroutine, GetOld(g)
    PROVE  IInv'
<1> DEFINE id == <<doc[g].from, doc[g].to>>
           p == pipelineTable[id]
<1>1. /\ p # None /\ plmLock = None /\ plmLock' = g /\ pc[g] = "get"
      /\ cur' = [cur EXCEPT ![g] = p] /\ pc' = [pc EXCEPT ![g] = "refresh"]
      /\ UNCHANGED <<pvars, svars, cvars, mvars, doc, sinkVar, place, online>>
  BY DEF GetOld, Goto
<1>2. id \in Session \X Session
  BY <1>1 DEF IInv, Local, Handling, Doc
<1>3. p \in DOMAIN pipe /\ pipe[p].id = id
  BY <1>1, <1>2 DEF IInv, Tables
<1>4. /\ cur'[g] = p /\ pc'[g] = "refresh" /\ doc'[g] = doc[g]
      /\ \A h \in Goroutine \ {g} : Same(h)
  BY <1>1 DEF IInv, TypeOK, Same
<1> HIDE DEF p, id
<1>5. TypeOK'
  <2>1. p \in Pipe BY <1>3 DEF IInv, TypeOK
  <2> QED BY <1>1, <2>1 DEF IInv, TypeOK, pvars, svars, cvars, mvars
<1>6. PipesKeep BY <1>1 DEF PipesKeep, pvars
<1>7. Tables' /\ CleaningUp' /\ Sessions'
  BY <1>1, <1>6, TablesSame, CleaningSame, SessionsSame, NameAssumption DEF pvars, svars, cvars
<1>8. \A h \in Goroutine \ {g} : Local(h)' /\ Own(h)' /\ Kept(h)'
  <2> SUFFICES ASSUME NEW h \in Goroutine \ {g} PROVE Local(h)' /\ Own(h)' /\ Kept(h)'
    OBVIOUS
  <2>1. pc[h] # "refresh" BY <1>1, NameAssumption DEF IInv, Kept, Goroutine, Session
  <2>2. Kept(h)'
    BY <1>1, <1>4, <1>6, <2>1, KeptSame DEF IInv, Kept, pvars, cvars
  <2> QED BY <1>4, <1>6, <2>2, LocalSame
<1>9. Local(g)' /\ Own(g)' /\ Kept(g)'
  BY <1>1, <1>3, <1>4 DEF IInv, Local, Own, Kept, HasPipe, Handling, Adding, pvars, id, p
<1> QED BY <1>5, <1>7, <1>8, <1>9 DEF IInv

LEMMA GetNewInv ==
    ASSUME IInv, NEW g \in Goroutine, GetNew(g)
    PROVE  IInv'
<1> DEFINE id == <<doc[g].from, doc[g].to>>
           n == Len(pipe) + 1
           P == NewPipeline(doc[g].from, doc[g].to)
<1>1. id \in Session \X Session
  BY DEF GetNew, IInv, Local, Handling, Doc
<1>2. P \in PipelineRecord /\ P.id = id /\ P.queue = <<>> /\ P.expires = "later"
  BY <1>1 DEF NewPipeline, PipelineRecord
<1>3. pipe' = Append(pipe, P) BY DEF GetNew
<1>4. /\ pipe' \in Seq(PipelineRecord) /\ DOMAIN pipe' = DOMAIN pipe \cup {n}
      /\ Len(pipe') = n /\ n \notin DOMAIN pipe /\ pipe'[n] = P
      /\ \A q \in DOMAIN pipe : pipe'[q] = pipe[q]
  BY <1>2, <1>3, NewFacts DEF IInv
<1>5. /\ pipelineTable' = [pipelineTable EXCEPT ![id] = n] /\ pipelineTable[id] = None
      /\ cur' = [cur EXCEPT ![g] = n] /\ pc' = [pc EXCEPT ![g] = "unicast"] /\ pc[g] = "get"
      /\ plmLock = None /\ n \in Pipe
      /\ UNCHANGED <<svars, cvars, mvars, doc, sinkVar, place, online, plmLock>>
  BY <1>4 DEF GetNew, Goto
<1>6. n # None BY <1>5, NameAssumption
<1>7. /\ cur'[g] = n /\ pc'[g] = "unicast" /\ doc'[g] = doc[g]
      /\ pipelineTable'[id] = n /\ \A i \in Session \X Session : i # id => pipelineTable'[i] = pipelineTable[i]
      /\ \A h \in Goroutine \ {g} : Same(h)
  BY <1>1, <1>5 DEF IInv, TypeOK, Same
<1>8. PipesKeep BY <1>4 DEF PipesKeep
<1>9. looking = None /\ cleaning = {} /\ ~found
  BY <1>5, NameAssumption DEF IInv, CleaningUp
<1> HIDE DEF n, P
<1>10. TypeOK'
  <2>1. pipelineTable' \in [Session \X Session -> Pipe \cup {None}] /\ cur' \in [Goroutine -> Pipe \cup {None}]
    BY <1>1, <1>5 DEF IInv, TypeOK
  <2>2. DOMAIN pipe' \subseteq Pipe BY <1>4, <1>5 DEF IInv, TypeOK
  <2>3. pc' \in [Goroutine -> {"idle", "get", "refresh", "unicast", "find", "bind", "add",
                                "write", "close", "panicked", "ended"}]
    BY <1>5 DEF IInv, TypeOK
  <2> QED BY <1>4, <1>5, <2>1, <2>2, <2>3 DEF IInv, TypeOK, svars, cvars, mvars
<1>11. Tables'
  <2>1. ASSUME NEW i \in Session \X Session, pipelineTable'[i] # None
        PROVE  pipelineTable'[i] \in DOMAIN pipe' /\ pipe'[pipelineTable'[i]].id = i
    <3>1. CASE i = id
      BY <1>2, <1>4, <1>7, <3>1
    <3>2. CASE i # id
      BY <1>4, <1>7, <2>1, <3>2 DEF IInv, Tables
    <3> QED BY <3>1, <3>2
  <2> QED BY <1>5, <2>1 DEF IInv, Tables, svars
<1>12. Sessions'
  BY <1>2, <1>4, <1>5 DEF IInv, Sessions, svars
<1>13. CleaningUp'
  BY <1>5, <1>9 DEF CleaningUp, cvars
<1>14. \A h \in Goroutine \ {g} : Local(h)' /\ Own(h)' /\ Kept(h)'
  <2> SUFFICES ASSUME NEW h \in Goroutine \ {g} PROVE Local(h)' /\ Own(h)' /\ Kept(h)'
    OBVIOUS
  <2>1. ASSUME h \in Caller, pc[h] = "refresh" \/ Adding(h)
        PROVE  pipelineTable'[<<doc[h].from, doc[h].to>>] = cur[h] /\ cur[h] \in DOMAIN pipe
    <3>1. HasPipe(h) /\ Handling(h) BY <2>1 DEF HasPipe, Handling, Adding
    <3>2. <<doc[h].from, doc[h].to>> \in Session \X Session /\ cur[h] \in DOMAIN pipe
      BY <3>1 DEF IInv, Local, Doc
    <3>3. cur[h] # None BY <3>2, NameAssumption DEF IInv, TypeOK
    <3> QED BY <1>5, <1>7, <2>1, <3>2, <3>3 DEF IInv, Kept
  <2>2. Kept(h)'
    BY <1>4, <1>5, <1>7, <1>8, <1>9, <2>1, KeptSame DEF cvars
  <2> QED BY <1>7, <1>8, <2>2, LocalSame
<1>15. Local(g)' /\ Own(g)' /\ Kept(g)'
  <2>1. found' = FALSE BY <1>5, <1>9 DEF IInv, TypeOK, cvars
  <2> QED BY <1>2, <1>4, <1>5, <1>7, <2>1 DEF IInv, Local, Own, Kept, HasPipe, Handling, Adding, id
<1> QED BY <1>10, <1>11, <1>12, <1>13, <1>14, <1>15 DEF IInv

\* A step that changes the pipeline of the document it handles.
LEMMA StepUpdate ==
    ASSUME IInv, NEW g \in Goroutine, HasPipe(g),
           NEW P \in PipelineRecord, Update(cur[g], P),
           P.id = pipe[cur[g]].id, pipe[cur[g]].to # None => P.to # None,
           P.queue # <<>> => pipe[cur[g]].queue # <<>>,
           UNCHANGED <<pipelineTable, sinkTable, bound, cleaning, looking, found>>,
           plmLock' = plmLock \/ pc[g] = "refresh",
           plmLock = Cleaner => plmLock' = Cleaner,
           \A h \in Goroutine \ {g} : Same(h)
    PROVE  /\ Tables' /\ CleaningUp' /\ Sessions' /\ PipesKeep
           /\ pipe' \in Seq(PipelineRecord) /\ DOMAIN pipe' = DOMAIN pipe /\ DOMAIN pipe' \subseteq Pipe
           /\ cur[g] \in DOMAIN pipe /\ pipe'[cur[g]] = P
           /\ \A h \in Goroutine \ {g} : Local(h)' /\ Own(h)' /\ Kept(h)'
<1>1. cur[g] \in DOMAIN pipe
  BY DEF IInv, Local
<1>2. /\ PipesKeep
      /\ pipe' \in Seq(PipelineRecord) /\ DOMAIN pipe' = DOMAIN pipe /\ DOMAIN pipe' \subseteq Pipe
      /\ pipe'[cur[g]] = P /\ \A q \in DOMAIN pipe \ {cur[g]} : pipe'[q] = pipe[q]
      /\ \A q \in DOMAIN pipe : pipe'[q].queue # <<>> => pipe[q].queue # <<>>
  BY <1>1, UpdateKeeps
<1>3. Tables' /\ CleaningUp' /\ Sessions'
  BY <1>2, TablesSame, CleaningSame, SessionsSame
<1>4. ASSUME NEW h \in Goroutine \ {g}
      PROVE  Kept(h)'
  <2>1. h \in Caller /\ Adding(h) => cur[h] # cur[g] /\ cur[h] \in DOMAIN pipe
    BY OnlyItsOwn DEF Adding, HasPipe, IInv, Local
  <2>2. pc[h] = "refresh" => plmLock' = plmLock
    BY DEF IInv, Kept
  <2> QED BY <1>2, <2>1, <2>2, KeptSame DEF IInv, Kept
<1> QED BY <1>1, <1>2, <1>3, <1>4, LocalSame

LEMMA RefreshInv ==
    ASSUME IInv, NEW g \in Goroutine, Refresh(g)
    PROVE  IInv'
<1> DEFINE P == Refreshed(pipe[cur[g]])
<1>1. HasPipe(g) /\ pc[g] = "refresh" /\ plmLock = g
  BY DEF Refresh, HasPipe, IInv, Kept
<1>2. cur[g] \in DOMAIN pipe /\ pipe[cur[g]] \in PipelineRecord
  BY <1>1, IsRecord DEF IInv, Local
<1>3. /\ P \in PipelineRecord /\ P.id = pipe[cur[g]].id /\ P.to = pipe[cur[g]].to
      /\ P.queue = pipe[cur[g]].queue /\ P.expires = "later"
  BY <1>2 DEF Refreshed, PipelineRecord
<1>4. /\ Update(cur[g], P) /\ plmLock' = None /\ pc' = [pc EXCEPT ![g] = "unicast"]
      /\ UNCHANGED <<svars, cvars, mvars, pipelineTable, doc, cur, sinkVar, place, online>>
  BY DEF Refresh, Goto
<1>5. pc'[g] = "unicast" /\ \A h \in Goroutine \ {g} : Same(h)
  BY <1>4 DEF IInv, TypeOK, Same
<1>6. plmLock # Cleaner /\ looking = None /\ cleaning = {} /\ ~found
  BY <1>1, NameAssumption DEF IInv, CleaningUp
<1> HIDE DEF P
<1>7. /\ Tables' /\ CleaningUp' /\ Sessions' /\ PipesKeep
      /\ pipe' \in Seq(PipelineRecord) /\ DOMAIN pipe' = DOMAIN pipe /\ DOMAIN pipe' \subseteq Pipe
      /\ cur[g] \in DOMAIN pipe /\ pipe'[cur[g]] = P
      /\ \A h \in Goroutine \ {g} : Local(h)' /\ Own(h)' /\ Kept(h)'
  BY <1>1, <1>3, <1>4, <1>5, <1>6, StepUpdate DEF svars, cvars
<1>8. TypeOK'
  BY <1>4, <1>7 DEF IInv, TypeOK, svars, cvars, mvars
<1>9. Local(g)' /\ Own(g)' /\ Kept(g)'
  <2>1. found' = FALSE BY <1>4, <1>6 DEF IInv, TypeOK, cvars
  <2> QED BY <1>1, <1>3, <1>4, <1>5, <1>7, <2>1 DEF IInv, Local, Own, Kept, HasPipe, Handling, Adding
<1> QED BY <1>7, <1>8, <1>9 DEF IInv

LEMMA FlushInv ==
    ASSUME IInv, NEW g \in Goroutine, FlushOutgoing(g) \/ FindAtLast(g)
    PROVE  IInv'
<1>1. HasPipe(g) /\ Adding(g) /\ Handling(g) /\ pc[g] \in {"unicast", "find"}
  BY DEF FlushOutgoing, FindAtLast, HasPipe, Adding, Handling
<1>2. cur[g] \in DOMAIN pipe /\ pipe[cur[g]] \in PipelineRecord
  BY <1>1, IsRecord DEF IInv, Local
<1>3. UNCHANGED <<svars, cvars, mvars, pipelineTable, doc, cur, place, online, plmLock>>
  BY DEF FlushOutgoing, FindAtLast
<1>4. CASE /\ pipe[cur[g]].sink \in isOpen
           /\ sinkVar' = [sinkVar EXCEPT ![g] = pipe[cur[g]].sink]
           /\ Goto(g, "add") /\ UNCHANGED pipe
  <2>1. /\ pc'[g] = "add" /\ doc'[g] = doc[g] /\ cur'[g] = cur[g]
        /\ \A h \in Goroutine \ {g} : Same(h)
    BY <1>3, <1>4 DEF Goto, IInv, TypeOK, Same
  <2>2. pipe[cur[g]].sink \in Sink \cup {None} BY <1>2 DEF PipelineRecord
  <2>3. TypeOK'
    <3>1. sinkVar' \in [Goroutine -> Sink \cup {None}]
      BY <1>4, <2>2 DEF IInv, TypeOK
    <3>2. pc' \in [Goroutine -> {"idle", "get", "refresh", "unicast", "find", "bind", "add",
                                  "write", "close", "panicked", "ended"}]
      BY <1>4 DEF IInv, TypeOK, Goto
    <3> QED BY <1>3, <1>4, <3>1, <3>2 DEF IInv, TypeOK, svars, cvars, mvars
  <2>4. Local(g)' /\ Own(g)' /\ Kept(g)'
    BY <1>1, <1>3, <1>4, <2>1 DEF IInv, Local, Own, Kept, HasPipe, Handling, Adding, cvars
  <2> QED BY <1>3, <1>4, <2>1, <2>3, <2>4, OneGoroutine DEF svars, cvars
<1>5. CASE Find(g) \/ (Update(cur[g], [pipe[cur[g]] EXCEPT !.lock = g]) /\ Goto(g, "find") /\ UNCHANGED sinkVar)
  <2>1. /\ \E P \in PipelineRecord :
              /\ Update(cur[g], P)
              /\ P.id = pipe[cur[g]].id /\ P.expires = pipe[cur[g]].expires
              /\ P.queue = pipe[cur[g]].queue
              /\ pipe[cur[g]].to # None => P.to # None
              /\ pc'[g] = "bind" => P.to # None /\ sinkVar'[g] # None
        /\ sinkVar' \in [Goroutine -> Sink \cup {None}]
        /\ Goto(g, "add") \/ Goto(g, "bind") \/ Goto(g, "find")
        /\ \A h \in Goroutine \ {g} : sinkVar'[h] = sinkVar[h]
    <3>1. CASE Find(g)
      BY <1>1, <3>1, FindFacts
    <3>2. CASE Update(cur[g], [pipe[cur[g]] EXCEPT !.lock = g]) /\ Goto(g, "find") /\ UNCHANGED sinkVar
      <4> DEFINE P == [pipe[cur[g]] EXCEPT !.lock = g]
      <4>1. /\ P \in PipelineRecord /\ P.id = pipe[cur[g]].id /\ P.expires = pipe[cur[g]].expires
            /\ P.queue = pipe[cur[g]].queue /\ P.to = pipe[cur[g]].to
        BY <1>2 DEF PipelineRecord
      <4>2. pc'[g] # "bind" BY <3>2 DEF Goto, IInv, TypeOK
      <4> HIDE DEF P
      <4>3. Update(cur[g], P) BY <3>2 DEF P
      <4> QED BY <3>2, <4>1, <4>2, <4>3 DEF IInv, TypeOK
    <3> QED BY <1>5, <3>1, <3>2
  <2>2. PICK P \in PipelineRecord :
              /\ Update(cur[g], P)
              /\ P.id = pipe[cur[g]].id /\ P.expires = pipe[cur[g]].expires
              /\ P.queue = pipe[cur[g]].queue
              /\ pipe[cur[g]].to # None => P.to # None
              /\ pc'[g] = "bind" => P.to # None /\ sinkVar'[g] # None
    BY <2>1
  <2>3. /\ pc' \in [Goroutine -> {"idle", "get", "refresh", "unicast", "find", "bind", "add",
                                   "write", "close", "panicked", "ended"}]
        /\ pc'[g] \in {"add", "bind", "find"} /\ doc'[g] = doc[g] /\ cur'[g] = cur[g]
        /\ \A h \in Goroutine \ {g} : Same(h)
    BY <1>3, <2>1 DEF Goto, IInv, TypeOK, Same
  <2>4. /\ Tables' /\ CleaningUp' /\ Sessions' /\ PipesKeep
        /\ pipe' \in Seq(PipelineRecord) /\ DOMAIN pipe' = DOMAIN pipe /\ DOMAIN pipe' \subseteq Pipe
        /\ cur[g] \in DOMAIN pipe /\ pipe'[cur[g]] = P
        /\ \A h \in Goroutine \ {g} : Local(h)' /\ Own(h)' /\ Kept(h)'
    BY <1>1, <1>3, <2>2, <2>3, StepUpdate DEF svars, cvars
  <2>5. TypeOK'
    BY <1>3, <2>1, <2>3, <2>4 DEF IInv, TypeOK, svars, cvars, mvars
  <2>6. Local(g)' /\ Own(g)' /\ Kept(g)'
    BY <1>1, <1>3, <2>2, <2>3, <2>4 DEF IInv, Local, Own, Kept, HasPipe, Handling, Adding, cvars
  <2> QED BY <2>4, <2>5, <2>6 DEF IInv
<1> QED BY <1>4, <1>5 DEF FlushOutgoing, FindAtLast

LEMMA BindInv ==
    ASSUME IInv, NEW g \in Goroutine, BindRecvChan(g)
    PROVE  IInv'
<1>1. /\ pc[g] = "bind" /\ HasPipe(g) /\ Adding(g) /\ Handling(g)
      /\ bound' = [bound EXCEPT ![sinkVar[g]] = cur[g]] /\ pc' = [pc EXCEPT ![g] = "add"]
      /\ UNCHANGED <<pvars, cvars, mvars, sinkTable, busSession, defaultSinkID, isOpen, written,
                     doc, cur, sinkVar, place, online, plmLock>>
  BY DEF BindRecvChan, Goto, HasPipe, Adding, Handling
<1>2. cur[g] \in DOMAIN pipe /\ pipe[cur[g]].to # None /\ sinkVar[g] \in Sink /\ cur[g] \in Pipe
  BY <1>1 DEF IInv, TypeOK, Local
<1>3. pc'[g] = "add" /\ doc'[g] = doc[g] /\ cur'[g] = cur[g] /\ \A h \in Goroutine \ {g} : Same(h)
  BY <1>1 DEF IInv, TypeOK, Same
<1>4. TypeOK'
  <2>1. bound' \in [Sink -> Pipe \cup {None}] BY <1>1, <1>2 DEF IInv, TypeOK
  <2> QED BY <1>1, <2>1 DEF IInv, TypeOK, pvars, cvars, mvars
<1>5. PipesKeep BY <1>1 DEF PipesKeep, pvars
<1>6. Sessions'
  BY <1>1, <1>2 DEF IInv, TypeOK, Sessions, pvars
<1>7. Tables' /\ CleaningUp'
  BY <1>1, <1>5, TablesSame, CleaningSame DEF pvars, cvars
<1>8. ASSUME NEW h \in Goroutine \ {g} PROVE Local(h)' /\ Own(h)' /\ Kept(h)'
  <2>1. Kept(h)' BY <1>1, <1>3, <1>5, KeptSame DEF IInv, Kept, pvars, cvars
  <2> QED BY <1>3, <1>5, <2>1, LocalSame
<1>9. Local(g)' /\ Own(g)' /\ Kept(g)'
  BY <1>1, <1>3 DEF IInv, Local, Own, Kept, HasPipe, Handling, Adding, cvars, pvars
<1> QED BY <1>4, <1>6, <1>7, <1>8, <1>9 DEF IInv

\* After Passed: nothing is known of the goroutine but that it may have to close.
LEMMA PassedFacts ==
    ASSUME IInv, NEW g \in Goroutine, Passed(g), HasPipe(g)
    PROVE  /\ \/ /\ pc'[g] = "close" /\ doc'[g] = doc[g] /\ cur'[g] = cur[g]
              \/ pc'[g] = "idle" /\ cur'[g] = None
           /\ \A h \in Goroutine \ {g} : Same(h)
<1>1. CASE doc[g].type = "bye"
  BY <1>1 DEF IInv, TypeOK, Passed, Goto, Same
<1>2. CASE doc[g].type # "bye"
  BY <1>2 DEF IInv, TypeOK, Passed, Done, Same
<1> QED BY <1>1, <1>2

\* It may close only its own.
LEMMA PassedKeeps ==
    ASSUME IInv, NEW g \in Goroutine, Passed(g), HasPipe(g), PipesKeep
    PROVE  Local(g)' /\ Own(g)' /\ Kept(g)'
<1>1. Handling(g) BY DEF HasPipe, Handling
<1>2. CASE pc'[g] = "close" /\ doc'[g] = doc[g] /\ cur'[g] = cur[g]
  <2>1. HasPipe(g)' /\ Handling(g)' /\ ~Adding(g)' /\ pc'[g] \notin {"bind", "write", "panicked", "refresh"}
    BY <1>2 DEF HasPipe, Handling, Adding
  <2>2. Local(g)'
    BY <1>1, <1>2, <2>1 DEF IInv, Local, PipesKeep
  <2>3. Own(g)'
    BY <1>1, <1>2, <2>1 DEF IInv, Own
  <2> QED BY <2>1, <2>2, <2>3 DEF Kept
<1>3. CASE pc'[g] = "idle" /\ cur'[g] = None
  BY <1>3 DEF Local, Own, Kept, HasPipe, Handling, Adding
<1> QED BY <1>2, <1>3, PassedFacts

LEMMA PassOnInv ==
    ASSUME IInv, NEW g \in Goroutine, UnicastClient(g) \/ Write(g)
    PROVE  IInv'
<1>1. /\ Passed(g) /\ HasPipe(g)
      /\ UNCHANGED <<pvars, cvars, mvars, sinkTable, busSession, defaultSinkID, isOpen, bound, online, plmLock>>
  BY DEF UnicastClient, Write, HasPipe, svars
<1>2. written' \in [Sink -> Seq(Pipe \X Nat)]
  <2>1. CASE UnicastClient(g)
    BY <2>1 DEF UnicastClient, svars, IInv, TypeOK
  <2>2. CASE Write(g)
    <3>1. sinkVar[g] \in Sink /\ <<cur[g], place[g]>> \in Pipe \X Nat /\ written[sinkVar[g]] \in Seq(Pipe \X Nat)
      BY <2>2, <1>1 DEF Write, IInv, TypeOK, Local
    <3>2. Append(written[sinkVar[g]], <<cur[g], place[g]>>) \in Seq(Pipe \X Nat)
      BY <3>1
    <3> QED BY <2>2, <3>1, <3>2 DEF Write, IInv, TypeOK
  <2> QED BY <2>1, <2>2
<1>3. PipesKeep BY <1>1 DEF PipesKeep, pvars
<1>4. TypeOK'
  BY <1>1, <1>2, PassedTypes DEF IInv, TypeOK, pvars, cvars, mvars
<1> QED BY <1>1, <1>3, <1>4, PassedFacts, PassedKeeps, OneGoroutine DEF pvars, cvars

LEMMA AddInv ==
    ASSUME IInv, NEW g \in Goroutine, Add(g)
    PROVE  IInv'
<1> DEFINE Q == [pipe[cur[g]] EXCEPT !.data = @ + 1]
           P == Refreshed(Q)
<1>1. HasPipe(g) /\ Adding(g) /\ Handling(g)
  BY DEF Add, HasPipe, Adding, Handling
<1>2. cur[g] \in DOMAIN pipe /\ pipe[cur[g]] \in PipelineRecord
  BY <1>1, IsRecord DEF IInv, Local
<1>3. /\ P \in PipelineRecord /\ P.id = pipe[cur[g]].id /\ P.to = pipe[cur[g]].to
      /\ P.queue = pipe[cur[g]].queue /\ P.expires = "later"
  <2>1. pipe[cur[g]].data + 1 \in Nat
    BY <1>2 DEF PipelineRecord
  <2>2. /\ Q \in PipelineRecord /\ Q.id = pipe[cur[g]].id /\ Q.to = pipe[cur[g]].to
        /\ Q.queue = pipe[cur[g]].queue
    BY <1>2, <2>1 DEF PipelineRecord
  <2> HIDE DEF Q
  <2> QED BY <2>2 DEF Refreshed, PipelineRecord
<1>4. /\ Update(cur[g], P)
      /\ UNCHANGED <<svars, cvars, mvars, pipelineTable, online, plmLock>>
  BY DEF Add
<1> HIDE DEF P, Q
<1>5. CASE sinkVar[g] = None
  <2>1. Passed(g) BY <1>5 DEF Add
  <2>2. /\ Tables' /\ CleaningUp' /\ Sessions' /\ PipesKeep
        /\ pipe' \in Seq(PipelineRecord) /\ DOMAIN pipe' = DOMAIN pipe /\ DOMAIN pipe' \subseteq Pipe
        /\ \A h \in Goroutine \ {g} : Local(h)' /\ Own(h)' /\ Kept(h)'
    BY <1>1, <1>3, <1>4, <2>1, PassedFacts, StepUpdate DEF svars, cvars
  <2>3. TypeOK'
    BY <1>4, <2>1, <2>2, PassedTypes DEF IInv, TypeOK, svars, cvars, mvars
  <2> QED BY <1>1, <2>1, <2>2, <2>3, PassedKeeps DEF IInv
<1>6. CASE sinkVar[g] # None
  <2>1. /\ place' = [place EXCEPT ![g] = pipe[cur[g]].data + 1] /\ pc' = [pc EXCEPT ![g] = "write"]
        /\ UNCHANGED <<doc, cur, sinkVar>>
    BY <1>6 DEF Add, Goto
  <2>2. pc'[g] = "write" /\ \A h \in Goroutine \ {g} : Same(h)
    BY <2>1 DEF IInv, TypeOK, Same
  <2>3. /\ Tables' /\ CleaningUp' /\ Sessions' /\ PipesKeep
        /\ pipe' \in Seq(PipelineRecord) /\ DOMAIN pipe' = DOMAIN pipe /\ DOMAIN pipe' \subseteq Pipe
        /\ cur[g] \in DOMAIN pipe /\ pipe'[cur[g]] = P
        /\ \A h \in Goroutine \ {g} : Local(h)' /\ Own(h)' /\ Kept(h)'
    BY <1>1, <1>3, <1>4, <2>2, StepUpdate DEF svars, cvars
  <2>4. place' \in [Goroutine -> Nat]
    <3>1. pipe[cur[g]].data + 1 \in Nat BY <1>2 DEF PipelineRecord
    <3> QED BY <2>1, <3>1 DEF IInv, TypeOK
  <2>5. TypeOK'
    BY <1>4, <2>1, <2>3, <2>4 DEF IInv, TypeOK, svars, cvars, mvars
  <2>6. Local(g)' /\ Own(g)' /\ Kept(g)'
    BY <1>1, <1>3, <1>4, <1>6, <2>1, <2>2, <2>3
    DEF IInv, Local, Own, Kept, HasPipe, Handling, Adding, cvars
  <2> QED BY <2>3, <2>5, <2>6 DEF IInv
<1> QED BY <1>5, <1>6

\* Close of a pipeline leaves all but its time and its sink.
LEMMA ClosedFacts ==
    ASSUME NEW P \in PipelineRecord
    PROVE  /\ Closed(P) \in PipelineRecord /\ Closed(P).id = P.id /\ Closed(P).to = P.to
           /\ Closed(P).queue = P.queue
BY DEF Closed, PipelineRecord

LEMMA CloseInv ==
    ASSUME IInv, NEW g \in Goroutine, Close(g)
    PROVE  IInv'
<1> DEFINE P == Closed(pipe[cur[g]])
<1>1. HasPipe(g) /\ pc[g] = "close" BY DEF Close, HasPipe
<1>2. cur[g] \in DOMAIN pipe /\ pipe[cur[g]] \in PipelineRecord
  BY <1>1, IsRecord DEF IInv, Local
<1>3. /\ P \in PipelineRecord /\ P.id = pipe[cur[g]].id /\ P.to = pipe[cur[g]].to
      /\ P.queue = pipe[cur[g]].queue
  BY <1>2, ClosedFacts
<1>4. /\ Update(cur[g], P) /\ Done(g)
      /\ UNCHANGED <<svars, cvars, mvars, pipelineTable, online, plmLock>>
  BY DEF Close
<1> HIDE DEF P
<1>5. pc'[g] = "idle" /\ cur'[g] = None /\ \A h \in Goroutine \ {g} : Same(h)
  BY <1>4 DEF IInv, TypeOK, Done, Same
<1>6. /\ Tables' /\ CleaningUp' /\ Sessions'
      /\ pipe' \in Seq(PipelineRecord) /\ DOMAIN pipe' \subseteq Pipe
      /\ \A h \in Goroutine \ {g} : Local(h)' /\ Own(h)' /\ Kept(h)'
  BY <1>1, <1>3, <1>4, <1>5, StepUpdate DEF svars, cvars
<1>7. TypeOK'
  BY <1>4, <1>6, DoneTypes DEF IInv, TypeOK, svars, cvars, mvars
<1>8. Local(g)' /\ Own(g)' /\ Kept(g)'
  BY <1>5 DEF Local, Own, Kept, HasPipe, Handling, Adding
<1> QED BY <1>6, <1>7, <1>8 DEF IInv

\* What comes in goes to pipelines that have a session: they were subscribed.
LEMMA IncomingInv ==
    ASSUME IInv, NEW to \in Caller, NEW type \in {"call", "bye"}, Incoming(to, type)
    PROVE  IInv'
<1> DEFINE d == [to |-> to, type |-> type]
           Hears(p) == ~pipe[p].closed /\ \E k \in Sink : bound[k] = p
           P(p) == IF Hears(p) THEN [pipe[p] EXCEPT !.queue = Append(@, d)] ELSE pipe[p]
<1>1. /\ pipe' = [p \in DOMAIN pipe |-> P(p)]
      /\ bound' = [k \in Sink |-> IF bound[k] # None /\ Hears(bound[k]) THEN bound[k] ELSE None]
      /\ received' = received + 1 /\ received < MaxIn
      /\ UNCHANGED <<gvars, cvars, pipelineTable, sinkTable, busSession, defaultSinkID, isOpen,
                     written, made, sent, online, plmLock>>
  BY DEF Incoming
<1>2. ASSUME NEW p \in DOMAIN pipe
      PROVE  /\ P(p) \in PipelineRecord /\ P(p).id = pipe[p].id /\ P(p).to = pipe[p].to
             /\ P(p).expires = pipe[p].expires
             /\ P(p).queue # <<>> => Hears(p) \/ pipe[p].queue # <<>>
  <2>1. pipe[p] \in PipelineRecord BY IsRecord DEF IInv
  <2>2. d \in [to : Caller, type : {"call", "bye"}] OBVIOUS
  <2>3. Append(pipe[p].queue, d) \in Seq([to : Caller, type : {"call", "bye"}])
    BY <2>1, <2>2 DEF PipelineRecord
  <2> HIDE DEF d, Hears
  <2> QED BY <2>1, <2>3 DEF PipelineRecord
<1> HIDE DEF P
<1>3. /\ DOMAIN pipe' = DOMAIN pipe /\ pipe' \in Seq(PipelineRecord)
      /\ \A p \in DOMAIN pipe : pipe'[p] = P(p)
  <2>1. DOMAIN pipe = 1 .. Len(pipe) /\ Len(pipe) \in Nat BY DEF IInv, TypeOK
  <2> QED BY <1>1, <1>2, <2>1
<1>4. PipesKeep BY <1>2, <1>3 DEF PipesKeep
<1>5. Sessions'
  <2>1. ASSUME NEW k \in Sink, bound'[k] # None
        PROVE  bound'[k] \in DOMAIN pipe' /\ pipe'[bound'[k]].to # None
    <3>1. bound'[k] = bound[k] BY <1>1, <2>1
    <3>2. bound[k] \in DOMAIN pipe /\ pipe[bound[k]].to # None BY <2>1, <3>1 DEF IInv, Sessions
    <3> QED BY <1>2, <1>3, <3>1, <3>2
  <2>2. ASSUME NEW p \in DOMAIN pipe', pipe'[p].queue # <<>>
        PROVE  pipe'[p].to # None
    <3>1. p \in DOMAIN pipe /\ pipe'[p].to = pipe[p].to BY <1>2, <1>3
    <3>2. CASE \E k \in Sink : bound[k] = p
      <4>1. PICK k \in Sink : bound[k] = p BY <3>2
      <4>2. p # None BY <3>1, NameAssumption DEF IInv, TypeOK
      <4> QED BY <3>1, <4>1, <4>2 DEF IInv, Sessions
    <3>3. CASE pipe[p].queue # <<>>
      BY <3>1, <3>3 DEF IInv, Sessions
    <3> QED BY <1>2, <1>3, <2>2, <3>1, <3>2, <3>3
  <2> QED BY <2>1, <2>2 DEF Sessions
<1>6. Tables' /\ CleaningUp'
  BY <1>1, <1>4, TablesSame, CleaningSame DEF cvars
<1>7. ASSUME NEW h \in Goroutine PROVE Local(h)' /\ Own(h)' /\ Kept(h)'
  <2>1. Same(h) BY <1>1 DEF gvars, Same
  <2>2. Adding(h) => cur[h] \in DOMAIN pipe BY DEF IInv, Local, Adding, HasPipe
  <2>3. Kept(h)' BY <1>1, <1>2, <1>3, <1>4, <2>1, <2>2, KeptSame DEF IInv, Kept, cvars
  <2> QED BY <1>4, <2>1, <2>3, LocalSame
<1>8. TypeOK'
  <2>1. bound' \in [Sink -> Pipe \cup {None}] BY <1>1 DEF IInv, TypeOK
  <2>2. received' \in 0 .. MaxIn BY <1>1, LimitAssumption DEF IInv, TypeOK
  <2>3. DOMAIN pipe' \subseteq Pipe BY <1>3 DEF IInv, TypeOK
  <2> QED BY <1>1, <1>3, <2>1, <2>2, <2>3 DEF IInv, TypeOK, gvars, cvars
<1> QED BY <1>5, <1>6, <1>7, <1>8 DEF IInv

LEMMA HeadTail ==
    ASSUME NEW S, NEW q \in Seq(S), q # <<>>
    PROVE  Head(q) \in S /\ Tail(q) \in Seq(S)
OBVIOUS

\* The receiver has a session to act for.
LEMMA ReceiveInv ==
    ASSUME IInv, NEW p \in Pipe, Receive(p)
    PROVE  IInv'
<1> DEFINE P == [pipe[p] EXCEPT !.queue = Tail(@)]
           d == Head(pipe[p].queue)
           e == [from |-> pipe[p].to, to |-> d.to, type |-> d.type]
<1>1. /\ p \in Goroutine /\ p \in DOMAIN pipe /\ pipe[p] \in PipelineRecord /\ pc[p] = "idle"
      /\ pipe[p].queue # <<>> /\ p \notin Caller
  BY IsRecord, NameAssumption DEF Receive, Goroutine, IInv
<1>2. pipe[p].to # None
  BY <1>1 DEF IInv, Sessions
<1>3. /\ Update(p, P) /\ doc' = [doc EXCEPT ![p] = e] /\ pc' = [pc EXCEPT ![p] = "get"]
      /\ UNCHANGED <<svars, cvars, mvars, pipelineTable, cur, sinkVar, place, online, plmLock>>
  BY <1>2 DEF Receive, Goto
<1>4. /\ P \in PipelineRecord /\ P.id = pipe[p].id /\ P.to = pipe[p].to
      /\ P.expires = pipe[p].expires
      /\ d \in [to : Caller, type : {"call", "bye"}]
  <2>1. pipe[p].queue \in Seq([to : Caller, type : {"call", "bye"}]) BY <1>1 DEF PipelineRecord
  <2>2. Tail(pipe[p].queue) \in Seq([to : Caller, type : {"call", "bye"}])
        /\ d \in [to : Caller, type : {"call", "bye"}]
    BY <1>1, <2>1, HeadTail
  <2> HIDE DEF d
  <2> QED BY <1>1, <2>2 DEF PipelineRecord
<1>5. e \in Doc /\ e.from \in Callee
  BY <1>1, <1>2, <1>4 DEF PipelineRecord, Doc, Session
<1> HIDE DEF P, e, d
<1>6. e.from \notin Caller
  BY <1>5, SessionAssumption DEF Callee
<1>7. /\ pc'[p] = "get" /\ doc'[p] = e /\ cur'[p] = cur[p] /\ \A h \in Goroutine \ {p} : Same(h)
  BY <1>1, <1>3 DEF IInv, TypeOK, Same
<1>8. /\ PipesKeep
      /\ pipe' \in Seq(PipelineRecord) /\ DOMAIN pipe' = DOMAIN pipe /\ DOMAIN pipe' \subseteq Pipe
      /\ \A q \in DOMAIN pipe : pipe'[q].expires = pipe[q].expires
      /\ \A q \in DOMAIN pipe : pipe'[q].queue # <<>> => pipe[q].queue # <<>>
  BY <1>1, <1>3, <1>4, UpdateKeeps
<1>9. Tables' /\ CleaningUp' /\ Sessions'
  BY <1>3, <1>8, TablesSame, CleaningSame, SessionsSame DEF svars, cvars
<1>10. ASSUME NEW h \in Goroutine \ {p} PROVE Local(h)' /\ Own(h)' /\ Kept(h)'
  <2>1. Adding(h) => cur[h] \in DOMAIN pipe BY DEF IInv, Local, Adding, HasPipe
  <2>2. Kept(h)' BY <1>3, <1>7, <1>8, <2>1, KeptSame DEF IInv, Kept, cvars
  <2> QED BY <1>7, <1>8, <2>2, LocalSame
<1>11. Local(p)' /\ Own(p)' /\ Kept(p)'
  <2>1. cur[p] = None BY <1>1 DEF IInv, Local, HasPipe
  <2> QED BY <1>1, <1>5, <1>6, <1>7, <2>1 DEF Local, Own, Kept, HasPipe, Handling, Adding
<1>12. TypeOK'
  <2>1. doc' \in [Goroutine -> Doc \cup {None}] BY <1>3, <1>5 DEF IInv, TypeOK
  <2>2. pc' \in [Goroutine -> {"idle", "get", "refresh", "unicast", "find", "bind", "add",
                                "write", "close", "panicked", "ended"}]
    BY <1>3 DEF IInv, TypeOK
  <2> QED BY <1>3, <1>8, <2>1, <2>2 DEF IInv, TypeOK, svars, cvars, mvars
<1> QED BY <1>9, <1>10, <1>11, <1>12 DEF IInv

LEMMA ReceiveEndsInv ==
    ASSUME IInv, NEW p \in Pipe, ReceiveEnds(p)
    PROVE  IInv'
<1>1. /\ p \in Goroutine /\ pc[p] = "idle" /\ pc' = [pc EXCEPT ![p] = "ended"]
      /\ UNCHANGED <<pvars, svars, cvars, mvars, doc, cur, sinkVar, place, online, plmLock>>
  BY DEF ReceiveEnds, Goto, Goroutine
<1>2. pc'[p] = "ended" /\ cur'[p] = cur[p] /\ \A h \in Goroutine \ {p} : Same(h)
  BY <1>1 DEF IInv, TypeOK, Same
<1>3. TypeOK'
  BY <1>1 DEF IInv, TypeOK, pvars, svars, cvars, mvars
<1>4. Local(p)' /\ Own(p)' /\ Kept(p)'
  <2>1. cur[p] = None BY <1>1 DEF IInv, Local, HasPipe
  <2> QED BY <1>2, <2>1 DEF Local, Own, Kept, HasPipe, Handling, Adding
<1> QED BY <1>1, <1>2, <1>3, <1>4, OneGoroutine DEF pvars, svars, cvars

\* What changes nothing that goroutines or the clean-up know of.
LEMMA ApartInv ==
    ASSUME IInv, UNCHANGED <<pvars, gvars, cvars, plmLock>>, TypeOK',
           Tables', \A k \in Sink : bound'[k] = bound[k] \/ bound'[k] = None
    PROVE  IInv'
<1>1. PipesKeep BY DEF PipesKeep, pvars
<1>2. CleaningUp' BY <1>1, CleaningSame DEF pvars, cvars
<1>3. Sessions' BY DEF IInv, Sessions, pvars
<1>4. ASSUME NEW h \in Goroutine PROVE Local(h)' /\ Own(h)' /\ Kept(h)'
  <2>1. Same(h) BY DEF gvars, Same
  <2>2. Kept(h)' BY <1>1, <2>1, KeptSame DEF IInv, Kept, pvars, cvars
  <2> QED BY <1>1, <2>1, <2>2, LocalSame
<1> QED BY <1>2, <1>3, <1>4 DEF IInv

LEMMA BusInv ==
    ASSUME IInv,
           \/ \E s \in BusSession, asDefault \in BOOLEAN : SessionCreate(s, asDefault)
           \/ SessionClose
           \/ \E c \in Caller : Disconnect(c)
    PROVE  IInv'
<1>1. ASSUME NEW s \in BusSession, NEW asDefault \in BOOLEAN, SessionCreate(s, asDefault)
      PROVE  IInv'
  <2>1. PICK k \in Sink :
          /\ isOpen' = isOpen \cup {k}
          /\ sinkTable' = [t \in Session |-> IF t = s THEN k
                                             ELSE IF t = busSession THEN None ELSE sinkTable[t]]
    <3> DEFINE kept == IF busSession = None THEN None ELSE sinkTable[busSession]
               k    == IF kept = None THEN s ELSE kept
    <3>1. k \in Sink
      BY DEF IInv, TypeOK, Sink, Session, Callee
    <3>2. /\ isOpen' = isOpen \cup {k}
          /\ sinkTable' = [t \in Session |-> IF t = s THEN k
                                             ELSE IF t = busSession THEN None ELSE sinkTable[t]]
      BY <1>1 DEF SessionCreate
    <3> QED BY <3>1, <3>2
  <2>2. /\ busSession' = s /\ made' = made \cup {s}
        /\ defaultSinkID' = IF asDefault THEN s ELSE defaultSinkID
        /\ UNCHANGED <<pvars, gvars, cvars, bound, written, sent, received, online, plmLock>>
    BY <1>1 DEF SessionCreate
  <2>3. TypeOK'
    <3>1. sinkTable' \in [Session -> Sink \cup {None}] BY <2>1 DEF IInv, TypeOK
    <3>2. isOpen' \subseteq Sink BY <2>1 DEF IInv, TypeOK
    <3>3. defaultSinkID' \in BusSession \cup {None} BY <2>2 DEF IInv, TypeOK
    <3> QED BY <2>2, <3>1, <3>2, <3>3 DEF IInv, TypeOK, pvars, gvars, cvars
  <2>4. Tables'
    BY <2>1, <2>2 DEF IInv, Tables, pvars
  <2>5. \A j \in Sink : bound'[j] = bound[j] BY <2>2
  <2> QED BY <2>2, <2>3, <2>4, <2>5, ApartInv
<1>2. CASE SessionClose
  <2>1. /\ busSession \in BusSession /\ busSession' = None
        /\ isOpen' = isOpen \ {sinkTable[busSession]} /\ bound' = [bound EXCEPT ![sinkTable[busSession]] = None]
        /\ sinkTable' = [sinkTable EXCEPT ![busSession] = None]
        /\ UNCHANGED <<pvars, gvars, cvars, mvars, defaultSinkID, written, online, plmLock>>
    BY <1>2 DEF SessionClose, IInv, TypeOK
  <2>2. TypeOK'
    BY <2>1 DEF IInv, TypeOK, pvars, gvars, cvars, mvars
  <2>3. Tables'
    BY <2>1 DEF IInv, TypeOK, Tables, pvars
  <2>4. \A k \in Sink : bound'[k] = bound[k] \/ bound'[k] = None
    BY <2>1 DEF IInv, TypeOK
  <2> QED BY <2>1, <2>2, <2>3, <2>4, ApartInv
<1>3. ASSUME NEW c \in Caller, Disconnect(c)
      PROVE  IInv'
  <2>1. online' \subseteq Caller /\ UNCHANGED <<pvars, svars, gvars, cvars, mvars, plmLock>>
    BY <1>3 DEF Disconnect, IInv, TypeOK
  <2>2. TypeOK'
    BY <2>1 DEF IInv, TypeOK, pvars, svars, gvars, cvars, mvars
  <2>3. Tables' BY <2>1 DEF IInv, Tables, pvars, svars
  <2>4. bound' = bound BY <2>1 DEF svars
  <2> QED BY <2>1, <2>2, <2>3, <2>4, ApartInv
<1> QED BY <1>1, <1>2, <1>3

\* Time runs out for a pipeline only when no handler has it.
LEMMA TimePassesInv ==
    ASSUME IInv, NEW p \in Pipe, TimePasses(p)
    PROVE  IInv'
<1> DEFINE P == [pipe[p] EXCEPT !.expires = "past"]
<1>1. /\ p \in DOMAIN pipe /\ pipe[p] \in PipelineRecord /\ Update(p, P)
      /\ \A g \in Goroutine : cur[g] # p
      /\ UNCHANGED <<svars, gvars, cvars, mvars, pipelineTable, online, plmLock>>
  BY IsRecord DEF TimePasses, IInv
<1>2. P \in PipelineRecord /\ P.id = pipe[p].id /\ P.to = pipe[p].to /\ P.queue = pipe[p].queue
  BY <1>1 DEF PipelineRecord
<1> HIDE DEF P
<1>3. /\ PipesKeep
      /\ pipe' \in Seq(PipelineRecord) /\ DOMAIN pipe' = DOMAIN pipe /\ DOMAIN pipe' \subseteq Pipe
      /\ \A q \in DOMAIN pipe \ {p} : pipe'[q] = pipe[q]
      /\ \A q \in DOMAIN pipe : pipe'[q].queue # <<>> => pipe[q].queue # <<>>
  BY <1>1, <1>2, UpdateKeeps
<1>4. Tables' /\ CleaningUp' /\ Sessions'
  BY <1>1, <1>3, TablesSame, CleaningSame, SessionsSame DEF svars, cvars
<1>5. ASSUME NEW h \in Goroutine PROVE Local(h)' /\ Own(h)' /\ Kept(h)'
  <2>1. Same(h) BY <1>1 DEF gvars, Same
  <2>2. Adding(h) => cur[h] \in DOMAIN pipe \ {p}
    BY <1>1 DEF IInv, Local, Adding, HasPipe
  <2>3. Kept(h)' BY <1>1, <1>3, <2>1, <2>2, KeptSame DEF IInv, Kept, cvars
  <2> QED BY <1>3, <2>1, <2>3, LocalSame
<1>6. TypeOK'
  BY <1>1, <1>3 DEF IInv, TypeOK, svars, gvars, cvars, mvars
<1> QED BY <1>4, <1>5, <1>6 DEF IInv

-----------------------------------------------------------------------------
(* The clean-up. *)

\* What the table has goes by the id it has it under.
LEMMA InTableFacts ==
    ASSUME IInv, NEW p \in InTable
    PROVE  p \in DOMAIN pipe /\ p \in Pipe /\ pipelineTable[pipe[p].id] = p
<1>1. PICK id \in Session \X Session : pipelineTable[id] = p /\ p # None
  BY DEF InTable, IInv, TypeOK
<1> QED BY <1>1 DEF IInv, Tables, TypeOK

\* A caller has not called Refresh while the clean-up has the manager's lock.
LEMMA NobodyRefreshes ==
    ASSUME IInv, plmLock \in {Cleaner, None}, NEW g \in Goroutine
    PROVE  pc[g] # "refresh"
BY NameAssumption DEF IInv, Kept, Goroutine, Session

\* When the clean-up changes no pipeline and not the table, the callers keep theirs.
LEMMA CleanupQuiet ==
    ASSUME IInv, UNCHANGED <<pvars, svars, gvars, mvars, online>>, CleaningUp',
           plmLock' \in Goroutine \cup {Cleaner, None},
           cleaning' \subseteq Pipe, looking' \in Pipe \cup {None}, found' \in BOOLEAN,
           plmLock \in {Cleaner, None},
           \A g \in Caller : Adding(g) => ~(found' /\ looking' = cur[g])
    PROVE  IInv'
<1>1. PipesKeep BY DEF PipesKeep, pvars
<1>2. Tables' BY <1>1, TablesSame DEF pvars, svars
<1>3. Sessions' BY <1>1, SessionsSame DEF pvars, svars
<1>4. ASSUME NEW h \in Goroutine PROVE Local(h)' /\ Own(h)' /\ Kept(h)'
  <2>1. Same(h) BY DEF gvars, Same
  <2>2. pc[h] # "refresh" BY NobodyRefreshes
  <2>3. Kept(h)' BY <1>1, <2>1, <2>2, KeptSame DEF IInv, Kept, pvars
  <2> QED BY <1>1, <2>1, <2>3, LocalSame
<1>5. TypeOK' BY DEF IInv, TypeOK, pvars, svars, gvars, mvars
<1> QED BY <1>2, <1>3, <1>4, <1>5 DEF IInv

LEMMA CleanupInv ==
    ASSUME IInv, Cleanup
    PROVE  IInv'
<1>1. /\ plmLock = None /\ plmLock' = Cleaner /\ cleaning' = InTable
      /\ UNCHANGED <<pvars, svars, gvars, mvars, looking, found, online>>
  BY DEF Cleanup
<1>2. looking = None /\ ~found
  BY <1>1, NameAssumption DEF IInv, CleaningUp
<1>3. CleaningUp'
  <2>1. \A p \in cleaning' : p \in DOMAIN pipe' /\ pipelineTable'[pipe'[p].id] = p
    BY <1>1, InTableFacts DEF pvars
  <2>2. None \notin cleaning' BY <1>1 DEF InTable
  <2> QED BY <1>1, <1>2, <2>1, <2>2 DEF CleaningUp
<1>4. cleaning' \subseteq Pipe BY <1>1, InTableFacts
<1> QED BY <1>1, <1>2, <1>3, <1>4, CleanupQuiet DEF IInv, TypeOK

\* What the clean-up finds expired is no pipeline a caller adds to.
LEMMA CleanupNextInv ==
    ASSUME IInv, NEW p \in Pipe, CleanupNext(p)
    PROVE  IInv'
<1>1. /\ p \in cleaning /\ looking = None /\ cleaning' = cleaning \ {p}
      /\ looking' = IF Free(p) /\ ~Expired(p) THEN None ELSE p
      /\ found' = (Free(p) /\ Expired(p))
      /\ UNCHANGED <<pvars, svars, gvars, mvars, online, plmLock>>
  BY DEF CleanupNext
<1>2. plmLock = Cleaner BY <1>1 DEF IInv, CleaningUp
<1>3. CleaningUp'
  <2>1. p # None BY NameAssumption
  <2>2. \A q \in cleaning : q \in DOMAIN pipe' /\ pipelineTable'[pipe'[q].id] = q
    BY <1>1 DEF IInv, CleaningUp, pvars
  <2>3. looking' \in {p, None} /\ (found' => looking' = p)
    BY <1>1
  <2>4. looking' \notin cleaning'
    BY <1>1, <2>3 DEF IInv, CleaningUp
  <2> QED BY <1>1, <1>2, <2>1, <2>2, <2>3, <2>4 DEF CleaningUp
<1>4. ASSUME NEW g \in Caller, Adding(g) PROVE ~(found' /\ looking' = cur[g])
  <2>1. pipe[cur[g]].expires = "later" BY <1>4 DEF IInv, Kept, Goroutine
  <2>2. found' => looking' = p /\ pipe[p].expires # "later" BY <1>1 DEF Expired
  <2> QED BY <2>1, <2>2
<1>5. found' \in BOOLEAN BY <1>1
<1> QED BY <1>1, <1>2, <1>3, <1>4, <1>5, CleanupQuiet DEF IInv, TypeOK

LEMMA CleanupEndsInv ==
    ASSUME IInv, CleanupEnds
    PROVE  IInv'
<1>1. /\ plmLock = Cleaner /\ cleaning = {} /\ looking = None /\ plmLock' = None
      /\ UNCHANGED <<pvars, svars, gvars, cvars, mvars, online>>
  BY DEF CleanupEnds
<1>2. CleaningUp' BY <1>1 DEF IInv, CleaningUp, cvars
<1>3. ~found BY <1>1 DEF IInv, CleaningUp
<1> QED BY <1>1, <1>2, <1>3, CleanupQuiet DEF IInv, TypeOK, cvars

\* What is closed and taken off the table is no pipeline a caller adds to.
LEMMA CleanupCloseInv ==
    ASSUME IInv, CleanupClose
    PROVE  IInv'
<1> DEFINE p  == looking
           P  == Closed(pipe[p])
           id == pipe[p].id
<1>1. /\ found /\ looking # None /\ looking' = None /\ found' = FALSE
      /\ Update(p, P) /\ pipelineTable' = [pipelineTable EXCEPT ![id] = None]
      /\ UNCHANGED <<svars, gvars, mvars, cleaning, online, plmLock>>
  BY DEF CleanupClose, IInv, CleaningUp
<1>2. /\ p \in DOMAIN pipe /\ pipe[p] \in PipelineRecord /\ pipelineTable[id] = p
      /\ plmLock = Cleaner /\ p \notin cleaning
  BY <1>1, IsRecord DEF IInv, CleaningUp
<1>3. P \in PipelineRecord /\ P.id = id /\ P.to = pipe[p].to /\ P.queue = pipe[p].queue
  BY <1>2, ClosedFacts
<1>4. id \in Session \X Session BY <1>2 DEF PipelineRecord
<1>5. /\ pipelineTable'[id] = None
      /\ \A i \in (Session \X Session) \ {id} : pipelineTable'[i] = pipelineTable[i]
      /\ pipelineTable' \in [Session \X Session -> Pipe \cup {None}]
  BY <1>1, <1>4 DEF IInv, TypeOK
<1> HIDE DEF P
<1>6. /\ PipesKeep
      /\ pipe' \in Seq(PipelineRecord) /\ DOMAIN pipe' = DOMAIN pipe /\ DOMAIN pipe' \subseteq Pipe
      /\ \A q \in DOMAIN pipe \ {p} : pipe'[q] = pipe[q]
      /\ \A q \in DOMAIN pipe : pipe'[q].queue # <<>> => pipe[q].queue # <<>>
  BY <1>1, <1>2, <1>3, UpdateKeeps
<1>7. \A q \in DOMAIN pipe : pipe'[q].id = pipe[q].id
  BY <1>6 DEF PipesKeep
<1> HIDE DEF id, p
<1>8. Tables'
  <2>1. ASSUME NEW i \in Session \X Session, pipelineTable'[i] # None
        PROVE  pipelineTable'[i] \in DOMAIN pipe' /\ pipe'[pipelineTable'[i]].id = i
    <3>1. pipelineTable'[i] = pipelineTable[i] BY <1>5, <2>1
    <3>2. pipelineTable[i] \in DOMAIN pipe /\ pipe[pipelineTable[i]].id = i
      BY <2>1, <3>1 DEF IInv, Tables
    <3> QED BY <1>6, <1>7, <3>1, <3>2
  <2>2. \A s \in Session : sinkTable'[s] # None => s \in BusSession
    BY <1>1 DEF IInv, Tables, svars
  <2> QED BY <2>1, <2>2 DEF Tables
<1>9. Sessions' BY <1>1, <1>6, SessionsSame DEF svars
<1>10. CleaningUp'
  <2>1. ASSUME NEW q \in cleaning PROVE q \in DOMAIN pipe' /\ pipelineTable'[pipe'[q].id] = q
    <3>1. q \in DOMAIN pipe /\ pipelineTable[pipe[q].id] = q BY DEF IInv, CleaningUp
    <3>2. q # p BY <1>2
    <3>3. pipe[q].id # id BY <1>2, <3>1, <3>2
    <3>4. pipe[q].id \in Session \X Session BY <3>1, IsRecord DEF IInv, PipelineRecord
    <3> QED BY <1>5, <1>6, <1>7, <3>1, <3>3, <3>4
  <2>2. None \notin cleaning BY NameAssumption DEF IInv, TypeOK
  <2> QED BY <1>1, <1>2, <2>1, <2>2 DEF CleaningUp
<1>11. ASSUME NEW h \in Goroutine PROVE Local(h)' /\ Own(h)' /\ Kept(h)'
  <2>1. Same(h) BY <1>1 DEF gvars, Same
  <2>2. pc[h] # "refresh" BY <1>2, NobodyRefreshes
  <2>3. ASSUME h \in Caller, Adding(h)
        PROVE  /\ cur[h] \in DOMAIN pipe \ {p}
               /\ pipelineTable'[<<doc[h].from, doc[h].to>>] = cur[h]
    <3>1. cur[h] \in DOMAIN pipe /\ cur[h] # p
      BY <1>1, <2>3 DEF IInv, Local, Kept, Adding, HasPipe, p
    <3>2. doc[h] \in Doc BY <2>3 DEF IInv, Local, Handling, Adding
    <3>3. /\ <<doc[h].from, doc[h].to>> \in Session \X Session
          /\ pipelineTable[<<doc[h].from, doc[h].to>>] = cur[h]
      BY <2>3, <3>2 DEF IInv, Kept, Doc
    <3>4. <<doc[h].from, doc[h].to>> # id BY <1>2, <3>1, <3>3
    <3> QED BY <1>5, <3>1, <3>3, <3>4
  <2>4. Kept(h)' BY <1>1, <1>6, <2>1, <2>2, <2>3, KeptSame
  <2> QED BY <1>6, <2>1, <2>4, LocalSame
<1>12. TypeOK'
  BY <1>1, <1>5, <1>6 DEF IInv, TypeOK, svars, gvars, mvars
<1> QED BY <1>8, <1>9, <1>10, <1>11, <1>12 DEF IInv

-----------------------------------------------------------------------------
(* The specification. *)

LEMMA InitInv == Init => IInv
<1> SUFFICES ASSUME Init PROVE IInv
  OBVIOUS
<1>1. TypeOK
  <2>1. pipe \in Seq(PipelineRecord) /\ DOMAIN pipe = {}
    BY DEF Init
  <2>2. written \in [Sink -> Seq(Pipe \X Nat)]
    BY DEF Init
  <2>3. sent \in 0 .. MaxDocs /\ received \in 0 .. MaxIn
    BY LimitAssumption DEF Init
  <2>4. /\ pipelineTable \in [Session \X Session -> Pipe \cup {None}]
        /\ sinkTable \in [Session -> Sink \cup {None}] /\ bound \in [Sink -> Pipe \cup {None}]
    BY DEF Init
  <2>5. /\ pc \in [Goroutine -> {"idle", "get", "refresh", "unicast", "find", "bind", "add",
                                 "write", "close", "panicked", "ended"}]
        /\ doc \in [Goroutine -> Doc \cup {None}] /\ cur \in [Goroutine -> Pipe \cup {None}]
        /\ sinkVar \in [Goroutine -> Sink \cup {None}] /\ place \in [Goroutine -> Nat]
    BY DEF Init
  <2> QED BY <2>1, <2>2, <2>3, <2>4, <2>5 DEF Init, TypeOK
<1>2. \A g \in Goroutine : pc[g] = "idle" /\ cur[g] = None
  BY DEF Init
<1>3. Tables /\ Sessions /\ CleaningUp
  BY DEF Init, Tables, Sessions, CleaningUp
<1> QED BY <1>1, <1>2, <1>3 DEF IInv, Local, Own, Kept, HasPipe, Handling, Adding

LEMMA StepInv ==
    ASSUME IInv, NEW g \in Goroutine, Step(g)
    PROVE  IInv'
BY GetNewInv, GetOldInv, RefreshInv, PassOnInv, FlushInv, BindInv, AddInv, CloseInv DEF Step

LEMMA NextInv ==
    ASSUME IInv, Next
    PROVE  IInv'
<1>1. ASSUME NEW g \in Goroutine, Step(g) PROVE IInv'
  BY <1>1, StepInv
<1>2. CASE Clients
  <2>1. CASE \E c \in Caller : Disconnect(c)
    BY <2>1, BusInv
  <2>2. CASE \E c \in Caller, to \in Callee, type \in {"call", "bye"} : Send(c, to, type)
    BY <2>2, SendInv
  <2> QED BY <1>2, <2>1, <2>2 DEF Clients
<1>3. CASE Bus
  <2>1. CASE \E to \in Caller, type \in {"call", "bye"} : Incoming(to, type)
    BY <2>1, IncomingInv
  <2> QED BY <1>3, <2>1, BusInv DEF Bus
<1>4. CASE Server
  <2>1. CASE \E c \in Caller : Step(c)
    BY <1>1, <2>1 DEF Goroutine
  <2>2. CASE \E p \in Pipe : Receiver(p)
    BY <1>1, <2>2, ReceiveInv, ReceiveEndsInv DEF Receiver, Goroutine
  <2>3. CASE \E p \in Pipe : TimePasses(p)
    BY <2>3, TimePassesInv
  <2>4. CASE CleanupStep
    BY <2>4, CleanupInv, CleanupNextInv, CleanupCloseInv, CleanupEndsInv DEF CleanupStep
  <2> QED BY <1>4, <2>1, <2>2, <2>3, <2>4 DEF Server
<1> QED BY <1>2, <1>3, <1>4 DEF Next

LEMMA StutterInv ==
    ASSUME IInv, UNCHANGED vars
    PROVE  IInv'
<1>1. UNCHANGED <<pvars, svars, gvars, cvars, mvars, online, plmLock>>
  BY DEF vars
<1>2. TypeOK'
  BY <1>1 DEF IInv, TypeOK, pvars, svars, gvars, cvars, mvars
<1>3. Tables' BY <1>1 DEF IInv, Tables, pvars, svars
<1>4. \A k \in Sink : bound'[k] = bound[k] BY <1>1 DEF svars
<1> QED BY <1>1, <1>2, <1>3, <1>4, ApartInv

LEMMA Invariance == Spec => []IInv
<1>1. IInv /\ [Next]_vars => IInv'
  BY NextInv, StutterInv
<1> QED BY InitInv, <1>1, PTL DEF Spec

-----------------------------------------------------------------------------
(* What sinks get. *)

\* The table has one sink at most, that of the bus id, and it is open; a sink that is
\* closed is never opened again, as the next one goes by a session made later.
SinkTables ==
    /\ \A s \in Session : sinkTable[s] # None => s = busSession /\ sinkTable[s] \in isOpen
    /\ isOpen \subseteq made

\* A pipeline is attached to a sink that was made, and for documents of a caller.
Attached(p) == pipe[p].sink # None =>
    /\ pipe[p].sink \in made /\ pipe[p].id[1] \in Caller
    /\ pipe[p].since <= pipe[p].data + 1

\* Sinks were given what was added before.
Placed == \A k \in Sink : \A i \in DOMAIN written[k] :
    written[k][i][1] \in DOMAIN pipe /\ written[k][i][2] <= pipe[written[k][i][1]].data

\* Receivers handle documents for callers, who have no sink.  A goroutine that has added a
\* document to an attached pipeline, or is about to, writes it to the sink of the pipeline.
Writes(g) ==
    /\ Handling(g) /\ g \notin Caller => doc[g].to \in Caller
    /\ pc[g] = "write" => place[g] <= pipe[cur[g]].data
    /\ HasPipe(g) /\ pipe[cur[g]].sink \in isOpen =>
          /\ pc[g] # "find"
          /\ pc[g] \in {"bind", "add", "write"} => sinkVar[g] = pipe[cur[g]].sink
          /\ pc[g] = "write" => place[g] = pipe[cur[g]].data /\ pipe[cur[g]].since <= place[g]

\* The document at place n of p was added, and is not written yet.
Pending(p, n) == \E g \in Goroutine : pc[g] = "write" /\ cur[g] = p /\ place[g] = n

\* What was added since p was attached was written, but for what is pending; and in order.
Told(p) ==
    pipe[p].sink \in isOpen =>
        /\ \A n \in pipe[p].since .. pipe[p].data :
              (\E i \in DOMAIN written[pipe[p].sink] : written[pipe[p].sink][i] = <<p, n>>) <=> ~Pending(p, n)
        /\ \A i, j \in DOMAIN written[pipe[p].sink] :
              LET v == written[pipe[p].sink][i]
                  w == written[pipe[p].sink][j]
              IN  i < j /\ v[1] = p /\ w[1] = p /\ v[2] >= pipe[p].since /\ w[2] >= pipe[p].since
                  => v[2] < w[2]

SInv ==
    /\ SinkTables /\ Placed
    /\ \A p \in DOMAIN pipe : Attached(p) /\ Told(p)
    /\ \A g \in Goroutine : Writes(g)

\* The fields of a pipeline that count here.
DataKept(q) == /\ pipe'[q].id = pipe[q].id /\ pipe'[q].data = pipe[q].data
            /\ pipe'[q].since = pipe[q].since /\ pipe'[q].sink \in {pipe[q].sink, None}

\* Same, with the place.
Still(g) == Same(g) /\ place'[g] = place[g]

\* Only the caller itself handles documents for a pipeline of its own.
LEMMA Owner ==
    ASSUME IInv, NEW p \in DOMAIN pipe, pipe[p].id[1] \in Caller,
           NEW g \in Goroutine, HasPipe(g), cur[g] = p
    PROVE  g = pipe[p].id[1]
<1>1. Handling(g) BY DEF HasPipe, Handling
<1>2. pipe[p].id[1] = doc[g].from BY DEF IInv, Local
<1> QED BY <1>1, <1>2 DEF IInv, Own

\* Who waits to write has a pipeline.
LEMMA PendingHas ==
    ASSUME IInv, NEW g \in Goroutine, pc[g] = "write"
    PROVE  HasPipe(g) /\ cur[g] \in DOMAIN pipe /\ place[g] \in Nat
BY DEF IInv, TypeOK, Local, HasPipe

LEMMA PipeTypes ==
    ASSUME TypeOK, NEW p \in DOMAIN pipe
    PROVE  /\ pipe[p].data \in Nat /\ pipe[p].since \in Nat /\ pipe[p].sink \in Sink \cup {None}
           /\ p \in Pipe /\ p \in Nat
<1>1. pipe[p] \in PipelineRecord BY IsRecord
<1>2. p \in Pipe BY DEF TypeOK
<1>3. p \in Nat BY DEF TypeOK
<1> QED BY <1>1, <1>2, <1>3 DEF PipelineRecord

LEMMA WrittenTypes ==
    ASSUME TypeOK, NEW k \in Sink
    PROVE  /\ written[k] \in Seq(Pipe \X Nat)
           /\ \A i \in DOMAIN written[k] :
                 /\ i \in Nat /\ written[k][i] \in Pipe \X Nat /\ written[k][i][2] \in Nat
                 /\ written[k][i] = <<written[k][i][1], written[k][i][2]>>
<1>1. written[k] \in Seq(Pipe \X Nat) BY DEF TypeOK
<1>2. \A i \in DOMAIN written[k] : i \in Nat /\ written[k][i] \in Pipe \X Nat BY <1>1
<1> QED BY <1>1, <1>2

\* What is told of a pipeline stays when it and its sink are left alone.
LEMMA ToldSame ==
    ASSUME SInv, NEW p \in DOMAIN pipe,
           pipe'[p].sink \in isOpen' =>
              /\ pipe[p].sink \in isOpen /\ pipe'[p].sink = pipe[p].sink
              /\ written'[pipe[p].sink] = written[pipe[p].sink]
              /\ pipe'[p].since = pipe[p].since /\ pipe'[p].data = pipe[p].data,
           \A n : Pending(p, n)' <=> Pending(p, n)
    PROVE  Told(p)'
<1> SUFFICES ASSUME pipe'[p].sink \in isOpen' PROVE Told(p)'
  BY DEF Told
<1>1. Told(p) BY DEF SInv
<1> HIDE DEF Pending
<1> QED BY <1>1 DEF Told


\* A goroutine that is left alone writes where it would have, also when its pipeline is closed
\* or its sink is.
LEMMA WritesSame ==
    ASSUME IInv, SInv, NEW g \in Goroutine, Still(g),
           HasPipe(g) => /\ pipe'[cur[g]].data \in Nat /\ pipe'[cur[g]].data >= pipe[cur[g]].data
                         /\ pipe'[cur[g]].sink \in isOpen' =>
                               /\ pipe[cur[g]].sink \in isOpen /\ pipe'[cur[g]].sink = pipe[cur[g]].sink
                               /\ pipe'[cur[g]].since = pipe[cur[g]].since
                               /\ pipe'[cur[g]].data = pipe[cur[g]].data
    PROVE  Writes(g)'
<1>1. /\ pc'[g] = pc[g] /\ doc'[g] = doc[g] /\ cur'[g] = cur[g] /\ sinkVar'[g] = sinkVar[g]
      /\ place'[g] = place[g] /\ (Handling(g)' <=> Handling(g)) /\ (HasPipe(g)' <=> HasPipe(g))
  BY DEF Still, Same, HasPipe, Handling
<1>2. Writes(g) BY DEF SInv
<1>3. pc[g] = "write" => place[g] <= pipe'[cur[g]].data
  <2> SUFFICES ASSUME pc[g] = "write" PROVE place[g] <= pipe'[cur[g]].data
    OBVIOUS
  <2>1. HasPipe(g) /\ cur[g] \in DOMAIN pipe /\ place[g] \in Nat BY PendingHas
  <2>2. pipe[cur[g]].data \in Nat /\ place[g] <= pipe[cur[g]].data
    BY <1>2, <2>1, PipeTypes DEF IInv, Writes
  <2>3. pipe'[cur[g]].data \in Nat /\ pipe'[cur[g]].data >= pipe[cur[g]].data BY <2>1
  <2> QED BY <2>1, <2>2, <2>3
<1> QED BY <1>1, <1>2, <1>3 DEF Writes

\* A step that adds and writes nothing, and attaches nothing.
LEMMA FrameS ==
    ASSUME IInv, SInv, IInv', SinkTables', written' = written, made \subseteq made',
           \A k \in made : k \in isOpen' => k \in isOpen,
           DOMAIN pipe \subseteq DOMAIN pipe',
           \A q \in DOMAIN pipe : DataKept(q),
           \A q \in DOMAIN pipe' \ DOMAIN pipe : pipe'[q].sink = None,
           \A g \in Goroutine : Still(g) \/ (pc[g] # "write" /\ pc'[g] # "write" /\ Writes(g)')
    PROVE  SInv'
<1>1. ASSUME NEW q \in DOMAIN pipe
      PROVE  /\ pipe'[q].id = pipe[q].id /\ pipe'[q].data = pipe[q].data
             /\ pipe'[q].since = pipe[q].since
             /\ pipe'[q].sink # None => pipe'[q].sink = pipe[q].sink
             /\ pipe'[q].sink \in isOpen' => pipe[q].sink \in isOpen /\ pipe'[q].sink = pipe[q].sink
  <2>1. Attached(q) BY DEF SInv
  <2>2. None \notin isOpen' BY NameAssumption DEF IInv, TypeOK, Sink, Session, Callee
  <2> QED BY <2>1, <2>2 DEF DataKept, Attached
<1>2. \A p, n : Pending(p, n)' <=> Pending(p, n)
  <2>1. \A g \in Goroutine : pc'[g] = "write" => Still(g)
    OBVIOUS
  <2>2. \A g \in Goroutine : pc[g] = "write" => Still(g)
    OBVIOUS
  <2> QED BY <2>1, <2>2 DEF Pending, Still, Same
<1>3. ASSUME NEW q \in DOMAIN pipe' PROVE Attached(q)' /\ Told(q)'
  <2>1. CASE q \in DOMAIN pipe
    <3>1. Attached(q) BY <2>1 DEF SInv
    <3>2. Attached(q)' BY <1>1, <2>1, <3>1 DEF Attached
    <3>3. Told(q)' BY <1>1, <1>2, <2>1, ToldSame
    <3> QED BY <3>2, <3>3
  <2>2. CASE q \notin DOMAIN pipe
    <3>1. pipe'[q].sink = None BY <2>2
    <3>2. None \notin isOpen' BY NameAssumption DEF IInv, TypeOK, Sink, Session, Callee
    <3> QED BY <3>1, <3>2 DEF Attached, Told
  <2> QED BY <2>1, <2>2
<1>4. Placed'
  BY <1>1 DEF SInv, Placed
<1>5. ASSUME NEW g \in Goroutine PROVE Writes(g)'
  <2>1. CASE Still(g)
    <3>1. HasPipe(g) => cur[g] \in DOMAIN pipe /\ pipe[cur[g]].data \in Nat
      BY PipeTypes DEF IInv, Local
    <3>2. HasPipe(g) => pipe'[cur[g]].data \in Nat /\ pipe'[cur[g]].data >= pipe[cur[g]].data
      BY <1>1, <3>1
    <3> QED BY <1>1, <2>1, <3>1, <3>2, WritesSame
  <2> QED BY <2>1
<1> QED BY <1>3, <1>4, <1>5 DEF SInv

\* One pipeline is changed, but for what counts here.
LEMMA UpdateData ==
    ASSUME IInv, NEW p \in DOMAIN pipe, NEW P \in PipelineRecord, Update(p, P),
           P.id = pipe[p].id, P.data = pipe[p].data, P.since = pipe[p].since,
           P.sink \in {pipe[p].sink, None}
    PROVE  DOMAIN pipe' = DOMAIN pipe /\ \A q \in DOMAIN pipe : DataKept(q)
<1>1. /\ DOMAIN pipe' = DOMAIN pipe
      /\ pipe'[p] = P /\ \A q \in DOMAIN pipe \ {p} : pipe'[q] = pipe[q]
  BY UpdateFacts DEF IInv
<1> QED BY <1>1 DEF DataKept

\* No sink is made, opened or closed, and none is given anything.
LEMMA QuietS ==
    ASSUME IInv, SInv, IInv', UNCHANGED <<sinkTable, busSession, isOpen, made, written>>,
           DOMAIN pipe \subseteq DOMAIN pipe',
           \A q \in DOMAIN pipe : DataKept(q),
           \A q \in DOMAIN pipe' \ DOMAIN pipe : pipe'[q].sink = None,
           \A g \in Goroutine : Still(g) \/ (pc[g] # "write" /\ pc'[g] # "write" /\ Writes(g)')
    PROVE  SInv'
<1>1. SinkTables' BY DEF SInv, SinkTables
<1> QED BY <1>1, FrameS

\* A goroutine that is not about to write.
LEMMA WritesNot ==
    ASSUME IInv, SInv, NEW g \in Goroutine,
           pc'[g] \notin {"find", "bind", "add", "write"},
           Handling(g)' => Handling(g) /\ doc'[g] = doc[g]
    PROVE  Writes(g)'
BY DEF SInv, Writes

LEMMA SendS ==
    ASSUME IInv, SInv, IInv', NEW c \in Caller, NEW to \in Callee, NEW type \in {"call", "bye"},
           Send(c, to, type)
    PROVE  SInv'
<1>1. /\ c \in Goroutine /\ pc[c] = "idle" /\ pc' = [pc EXCEPT ![c] = "get"]
      /\ doc' = [doc EXCEPT ![c] = [from |-> c, to |-> to, type |-> type]]
      /\ UNCHANGED <<pvars, svars, cur, sinkVar, place, made>>
  BY DEF Send, Goto, Goroutine
<1>2. pc'[c] = "get" /\ \A h \in Goroutine \ {c} : Still(h)
  BY <1>1 DEF IInv, TypeOK, Still, Same
<1>3. Writes(c)'
  BY <1>1, <1>2 DEF Writes, HasPipe
<1>4. \A q \in DOMAIN pipe : DataKept(q) BY <1>1 DEF DataKept, pvars
<1> QED BY <1>1, <1>2, <1>3, <1>4, QuietS DEF pvars, svars

LEMMA GetOldS ==
    ASSUME IInv, SInv, IInv', NEW g \in Goroutine, GetOld(g)
    PROVE  SInv'
<1>1. /\ pc[g] = "get" /\ pc' = [pc EXCEPT ![g] = "refresh"]
      /\ cur' = [cur EXCEPT ![g] = pipelineTable[<<doc[g].from, doc[g].to>>]]
      /\ UNCHANGED <<pvars, svars, mvars, doc, sinkVar, place>>
  BY DEF GetOld, Goto
<1>2. pc'[g] = "refresh" /\ \A h \in Goroutine \ {g} : Still(h)
  BY <1>1 DEF IInv, TypeOK, Still, Same
<1>3. Writes(g)'
  BY <1>1, <1>2, WritesNot DEF Handling
<1>4. \A q \in DOMAIN pipe : DataKept(q) BY <1>1 DEF DataKept, pvars
<1> QED BY <1>1, <1>2, <1>3, <1>4, QuietS DEF pvars, svars, mvars

LEMMA GetNewS ==
    ASSUME IInv, SInv, IInv', NEW g \in Goroutine, GetNew(g)
    PROVE  SInv'
<1> DEFINE P == NewPipeline(doc[g].from, doc[g].to)
<1>1. /\ pc[g] = "get" /\ pc' = [pc EXCEPT ![g] = "unicast"]
      /\ pipe' = Append(pipe, P) /\ cur' = [cur EXCEPT ![g] = Len(pipe')]
      /\ UNCHANGED <<svars, mvars, doc, sinkVar, place>>
  BY DEF GetNew, Goto
<1>2. pc'[g] = "unicast" /\ \A h \in Goroutine \ {g} : Still(h)
  BY <1>1 DEF IInv, TypeOK, Still, Same
<1>3. Writes(g)'
  BY <1>1, <1>2, WritesNot DEF Handling
<1>4. P \in PipelineRecord /\ P.sink = None
  <2>1. <<doc[g].from, doc[g].to>> \in Session \X Session
    BY <1>1 DEF IInv, Local, Handling, Doc
  <2> QED BY <2>1 DEF NewPipeline, PipelineRecord
<1> HIDE DEF P
<1>5. /\ DOMAIN pipe' = DOMAIN pipe \cup {Len(pipe) + 1} /\ pipe'[Len(pipe) + 1] = P
      /\ \A q \in DOMAIN pipe : pipe'[q] = pipe[q]
  BY <1>1, <1>4, NewFacts DEF IInv
<1>6. \A q \in DOMAIN pipe : DataKept(q) BY <1>5 DEF DataKept
<1>7. \A q \in DOMAIN pipe' \ DOMAIN pipe : pipe'[q].sink = None BY <1>4, <1>5
<1> QED BY <1>1, <1>2, <1>3, <1>5, <1>6, <1>7, QuietS DEF svars, mvars

LEMMA RefreshS ==
    ASSUME IInv, SInv, IInv', NEW g \in Goroutine, Refresh(g)
    PROVE  SInv'
<1> DEFINE P == Refreshed(pipe[cur[g]])
<1>1. /\ pc[g] = "refresh" /\ HasPipe(g) /\ pc' = [pc EXCEPT ![g] = "unicast"]
      /\ Update(cur[g], P)
      /\ UNCHANGED <<svars, mvars, doc, cur, sinkVar, place>>
  BY DEF Refresh, Goto, HasPipe
<1>2. pc'[g] = "unicast" /\ \A h \in Goroutine \ {g} : Still(h)
  BY <1>1 DEF IInv, TypeOK, Still, Same
<1>3. Writes(g)'
  BY <1>1, <1>2, WritesNot DEF Handling
<1>4. cur[g] \in DOMAIN pipe /\ pipe[cur[g]] \in PipelineRecord
  BY <1>1, IsRecord DEF IInv, Local
<1>5. /\ P \in PipelineRecord /\ P.id = pipe[cur[g]].id /\ P.data = pipe[cur[g]].data
      /\ P.since = pipe[cur[g]].since /\ P.sink = pipe[cur[g]].sink
  BY <1>4 DEF Refreshed, PipelineRecord
<1> HIDE DEF P
<1>6. DOMAIN pipe' = DOMAIN pipe /\ \A q \in DOMAIN pipe : DataKept(q)
  BY <1>1, <1>4, <1>5, UpdateData
<1> QED BY <1>1, <1>2, <1>3, <1>6, QuietS DEF svars, mvars

\* The goroutine goes on to Close, or is done.
LEMMA PassedS ==
    ASSUME IInv, SInv, NEW g \in Goroutine, Passed(g), HasPipe(g)
    PROVE  /\ Writes(g)' /\ pc'[g] \in {"close", "idle"}
           /\ \A h \in Goroutine \ {g} : Still(h)
<1>1. CASE doc[g].type = "bye"
  <2>1. pc'[g] = "close" /\ doc' = doc /\ \A h \in Goroutine \ {g} : Still(h)
    BY <1>1 DEF IInv, TypeOK, Passed, Goto, Same, Still
  <2> QED BY <2>1, WritesNot DEF HasPipe, Handling
<1>2. CASE doc[g].type # "bye"
  <2>1. Done(g) BY <1>2 DEF Passed
  <2>2. pc'[g] = "idle" /\ \A h \in Goroutine \ {g} : Still(h)
    BY <2>1 DEF IInv, TypeOK, Done, Same, Still
  <2> QED BY <2>2, WritesNot DEF Handling
<1> QED BY <1>1, <1>2

LEMMA UnicastClientS ==
    ASSUME IInv, SInv, IInv', NEW g \in Goroutine, UnicastClient(g)
    PROVE  SInv'
<1>1. /\ Passed(g) /\ HasPipe(g) /\ pc[g] = "unicast"
      /\ UNCHANGED <<pvars, svars, mvars>>
  BY DEF UnicastClient, HasPipe
<1>2. \A q \in DOMAIN pipe : DataKept(q) BY <1>1 DEF DataKept, pvars
<1> QED BY <1>1, <1>2, PassedS, QuietS DEF pvars, svars, mvars

LEMMA BindS ==
    ASSUME IInv, SInv, IInv', NEW g \in Goroutine, BindRecvChan(g)
    PROVE  SInv'
<1>1. /\ pc[g] = "bind" /\ pc' = [pc EXCEPT ![g] = "add"]
      /\ UNCHANGED <<pvars, mvars, sinkTable, busSession, isOpen, written, doc, cur, sinkVar, place>>
  BY DEF BindRecvChan, Goto
<1>2. pc'[g] = "add" /\ \A h \in Goroutine \ {g} : Still(h)
  BY <1>1 DEF IInv, TypeOK, Still, Same
<1>3. HasPipe(g) /\ Handling(g) BY <1>1 DEF HasPipe, Handling
<1>4. Writes(g) BY DEF SInv
<1>5. Writes(g)'
  BY <1>1, <1>2, <1>3, <1>4 DEF Writes, pvars
<1>6. \A q \in DOMAIN pipe : DataKept(q) BY <1>1 DEF DataKept, pvars
<1> QED BY <1>1, <1>2, <1>5, <1>6, QuietS DEF pvars, mvars

LEMMA ClosedData ==
    ASSUME NEW P \in PipelineRecord
    PROVE  /\ Closed(P).data = P.data /\ Closed(P).since = P.since
           /\ Closed(P).sink \in {P.sink, None}
BY DEF Closed, PipelineRecord

LEMMA CloseS ==
    ASSUME IInv, SInv, IInv', NEW g \in Goroutine, Close(g)
    PROVE  SInv'
<1> DEFINE P == Closed(pipe[cur[g]])
<1>1. /\ pc[g] = "close" /\ HasPipe(g) /\ Done(g) /\ Update(cur[g], P)
      /\ UNCHANGED <<svars, mvars>>
  BY DEF Close, HasPipe
<1>2. pc'[g] = "idle" /\ \A h \in Goroutine \ {g} : Still(h)
  BY <1>1 DEF IInv, TypeOK, Still, Same, Done
<1>3. Writes(g)' BY <1>2, WritesNot DEF Handling
<1>4. cur[g] \in DOMAIN pipe /\ pipe[cur[g]] \in PipelineRecord
  BY <1>1, IsRecord DEF IInv, Local
<1>5. /\ P \in PipelineRecord /\ P.id = pipe[cur[g]].id /\ P.data = pipe[cur[g]].data
      /\ P.since = pipe[cur[g]].since /\ P.sink \in {pipe[cur[g]].sink, None}
  BY <1>4, ClosedFacts, ClosedData
<1> HIDE DEF P
<1>6. DOMAIN pipe' = DOMAIN pipe /\ \A q \in DOMAIN pipe : DataKept(q)
  BY <1>1, <1>4, <1>5, UpdateData
<1> QED BY <1>1, <1>2, <1>3, <1>6, QuietS DEF svars, mvars

LEMMA IncomingS ==
    ASSUME IInv, SInv, IInv', NEW to \in Caller, NEW type \in {"call", "bye"}, Incoming(to, type)
    PROVE  SInv'
<1> DEFINE d == [to |-> to, type |-> type]
           Hears(p) == ~pipe[p].closed /\ \E k \in Sink : bound[k] = p
           P(p) == IF Hears(p) THEN [pipe[p] EXCEPT !.queue = Append(@, d)] ELSE pipe[p]
<1>1. /\ pipe' = [p \in DOMAIN pipe |-> P(p)]
      /\ UNCHANGED <<gvars, sinkTable, busSession, isOpen, written, made>>
  BY DEF Incoming
<1>2. ASSUME NEW p \in DOMAIN pipe PROVE DataKept(p)
  <2>1. pipe[p] \in PipelineRecord BY IsRecord DEF IInv
  <2>2. /\ P(p).id = pipe[p].id /\ P(p).data = pipe[p].data
        /\ P(p).since = pipe[p].since /\ P(p).sink = pipe[p].sink
    <3> HIDE DEF d, Hears
    <3> QED BY <2>1 DEF PipelineRecord
  <2>3. pipe'[p] = P(p) BY <1>1
  <2> HIDE DEF P
  <2> QED BY <2>2, <2>3 DEF DataKept
<1>3. DOMAIN pipe' = DOMAIN pipe BY <1>1
<1>4. \A h \in Goroutine : Still(h) BY <1>1 DEF gvars, Still, Same
<1> QED BY <1>1, <1>2, <1>3, <1>4, QuietS

LEMMA ReceiveS ==
    ASSUME IInv, SInv, IInv', NEW p \in Pipe, Receive(p)
    PROVE  SInv'
<1> DEFINE P == [pipe[p] EXCEPT !.queue = Tail(@)]
           d == Head(pipe[p].queue)
           e == [from |-> pipe[p].to, to |-> d.to, type |-> d.type]
<1>1. /\ p \in Goroutine /\ p \in DOMAIN pipe /\ pipe[p] \in PipelineRecord /\ pc[p] = "idle"
      /\ pipe[p].queue # <<>>
  BY IsRecord DEF Receive, Goroutine, IInv
<1>2. pipe[p].to # None
  BY <1>1 DEF IInv, Sessions
<1>3. /\ Update(p, P) /\ doc' = [doc EXCEPT ![p] = e] /\ pc' = [pc EXCEPT ![p] = "get"]
      /\ UNCHANGED <<svars, mvars, cur, sinkVar, place>>
  BY <1>2 DEF Receive, Goto
<1>4. /\ P \in PipelineRecord /\ P.id = pipe[p].id /\ P.data = pipe[p].data
      /\ P.since = pipe[p].since /\ P.sink = pipe[p].sink
      /\ d.to \in Caller
  <2>1. pipe[p].queue \in Seq([to : Caller, type : {"call", "bye"}]) BY <1>1 DEF PipelineRecord
  <2>2. Tail(pipe[p].queue) \in Seq([to : Caller, type : {"call", "bye"}])
        /\ d \in [to : Caller, type : {"call", "bye"}]
    BY <1>1, <2>1, HeadTail
  <2> HIDE DEF d
  <2> QED BY <1>1, <2>2 DEF PipelineRecord
<1>5. e.to \in Caller BY <1>4
<1> HIDE DEF P, e, d
<1>6. pc'[p] = "get" /\ doc'[p] = e /\ \A h \in Goroutine \ {p} : Still(h)
  BY <1>1, <1>3 DEF IInv, TypeOK, Same, Still
<1>7. Writes(p)' BY <1>5, <1>6 DEF Writes, HasPipe
<1>8. DOMAIN pipe' = DOMAIN pipe /\ \A q \in DOMAIN pipe : DataKept(q)
  BY <1>1, <1>3, <1>4, UpdateData
<1> QED BY <1>1, <1>3, <1>6, <1>7, <1>8, QuietS DEF svars, mvars

LEMMA ReceiveEndsS ==
    ASSUME IInv, SInv, IInv', NEW p \in Pipe, ReceiveEnds(p)
    PROVE  SInv'
<1>1. /\ p \in Goroutine /\ pc[p] = "idle" /\ pc' = [pc EXCEPT ![p] = "ended"]
      /\ UNCHANGED <<pvars, svars, mvars, doc, cur, sinkVar, place>>
  BY DEF ReceiveEnds, Goto, Goroutine
<1>2. pc'[p] = "ended" /\ \A h \in Goroutine \ {p} : Still(h)
  BY <1>1 DEF IInv, TypeOK, Same, Still
<1>3. Writes(p)' BY <1>1, <1>2, WritesNot DEF Handling
<1>4. \A q \in DOMAIN pipe : DataKept(q) BY <1>1 DEF DataKept, pvars
<1> QED BY <1>1, <1>2, <1>3, <1>4, QuietS DEF pvars, svars, mvars

\* A sink that is made goes by a session nobody knew before.
LEMMA SessionCreateS ==
    ASSUME IInv, SInv, IInv', NEW s \in BusSession, NEW asDefault \in BOOLEAN,
           SessionCreate(s, asDefault)
    PROVE  SInv'
<1> DEFINE kept == IF busSession = None THEN None ELSE sinkTable[busSession]
           k    == IF kept = None THEN s ELSE kept
<1>1. /\ s \notin made /\ isOpen' = isOpen \cup {k}
      /\ sinkTable' = [t \in Session |-> IF t = s THEN k
                                         ELSE IF t = busSession THEN None ELSE sinkTable[t]]
      /\ busSession' = s /\ made' = made \cup {s}
      /\ UNCHANGED <<pvars, gvars, written>>
  BY DEF SessionCreate
<1>2. k = s \/ k \in isOpen
  <2>1. busSession # None => busSession \in Session
    BY DEF IInv, TypeOK, Session, Callee
  <2> QED BY <2>1 DEF SInv, SinkTables
<1> HIDE DEF k, kept
<1>3. SinkTables'
  <2>1. \A t \in Session : sinkTable'[t] # None => t = s
    BY <1>1 DEF SInv, SinkTables
  <2>2. s \in Session BY DEF Session, Callee
  <2>3. isOpen' \subseteq made' BY <1>1, <1>2 DEF SInv, SinkTables
  <2> QED BY <1>1, <2>1, <2>2, <2>3 DEF SinkTables
<1>4. \A j \in made : j \in isOpen' => j \in isOpen
  BY <1>1, <1>2
<1>5. \A q \in DOMAIN pipe : DataKept(q) BY <1>1 DEF DataKept, pvars
<1>6. \A h \in Goroutine : Still(h) BY <1>1 DEF gvars, Still, Same
<1> QED BY <1>1, <1>3, <1>4, <1>5, <1>6, FrameS DEF pvars

LEMMA SessionCloseS ==
    ASSUME IInv, SInv, IInv', SessionClose
    PROVE  SInv'
<1>1. /\ busSession \in BusSession /\ busSession' = None
      /\ isOpen' = isOpen \ {sinkTable[busSession]}
      /\ sinkTable' = [sinkTable EXCEPT ![busSession] = None]
      /\ UNCHANGED <<pvars, gvars, made, written>>
  BY DEF SessionClose, IInv, TypeOK, mvars
<1>2. SinkTables'
  <2>1. \A t \in Session : sinkTable'[t] = None
    BY <1>1 DEF IInv, TypeOK, SInv, SinkTables
  <2> QED BY <1>1, <2>1 DEF SInv, SinkTables
<1>3. \A q \in DOMAIN pipe : DataKept(q) BY <1>1 DEF DataKept, pvars
<1>4. \A h \in Goroutine : Still(h) BY <1>1 DEF gvars, Still, Same
<1> QED BY <1>1, <1>2, <1>3, <1>4, FrameS DEF pvars

\* What changes nothing but who is online, and what the clean-up does.
LEMMA ApartS ==
    ASSUME IInv, SInv, IInv', UNCHANGED <<pipe, svars, gvars, made>>
    PROVE  SInv'
<1>1. \A q \in DOMAIN pipe : DataKept(q) BY DEF DataKept
<1>2. \A h \in Goroutine : Still(h) BY DEF gvars, Still, Same
<1> QED BY <1>1, <1>2, QuietS DEF svars

LEMMA TimePassesS ==
    ASSUME IInv, SInv, IInv', NEW p \in Pipe, TimePasses(p)
    PROVE  SInv'
<1> DEFINE P == [pipe[p] EXCEPT !.expires = "past"]
<1>1. /\ p \in DOMAIN pipe /\ pipe[p] \in PipelineRecord /\ Update(p, P)
      /\ UNCHANGED <<svars, gvars, mvars>>
  BY IsRecord DEF TimePasses, IInv
<1>2. /\ P \in PipelineRecord /\ P.id = pipe[p].id /\ P.data = pipe[p].data
      /\ P.since = pipe[p].since /\ P.sink = pipe[p].sink
  BY <1>1 DEF PipelineRecord
<1> HIDE DEF P
<1>3. DOMAIN pipe' = DOMAIN pipe /\ \A q \in DOMAIN pipe : DataKept(q)
  BY <1>1, <1>2, UpdateData
<1>4. \A h \in Goroutine : Still(h) BY <1>1 DEF gvars, Still, Same
<1> QED BY <1>1, <1>3, <1>4, QuietS DEF svars, mvars

LEMMA CleanupCloseS ==
    ASSUME IInv, SInv, IInv', CleanupClose
    PROVE  SInv'
<1> DEFINE P == Closed(pipe[looking])
<1>1. found /\ looking # None /\ Update(looking, P) /\ UNCHANGED <<svars, gvars, mvars>>
  BY DEF CleanupClose, IInv, CleaningUp
<1>2. looking \in DOMAIN pipe /\ pipe[looking] \in PipelineRecord
  BY <1>1, IsRecord DEF IInv, CleaningUp
<1>3. /\ P \in PipelineRecord /\ P.id = pipe[looking].id /\ P.data = pipe[looking].data
      /\ P.since = pipe[looking].since /\ P.sink \in {pipe[looking].sink, None}
  BY <1>2, ClosedFacts, ClosedData
<1> HIDE DEF P
<1>4. DOMAIN pipe' = DOMAIN pipe /\ \A q \in DOMAIN pipe : DataKept(q)
  BY <1>1, <1>2, <1>3, UpdateData
<1>5. \A h \in Goroutine : Still(h) BY <1>1 DEF gvars, Still, Same
<1> QED BY <1>1, <1>4, <1>5, QuietS DEF svars, mvars

\* A sink that is found is open, and stands for a session that documents of callers are for.
LEMMA FoundS ==
    ASSUME IInv, SInv, NEW g \in Goroutine, Handling(g), FindSink(doc[g].to) # None
    PROVE  /\ FindSink(doc[g].to) \in isOpen \cap made \cap Sink
           /\ g \in Caller /\ doc[g].from = g
<1>1. doc[g] \in Doc BY DEF IInv, Local
<1>2. doc[g].to \in Session BY <1>1 DEF Doc
<1>3. doc[g].to \in Callee BY <1>2, FindSinkFacts DEF IInv
<1>4. g \in Caller
  BY <1>3, SessionAssumption DEF SInv, Writes, Callee
<1>5. doc[g].from = g BY <1>4 DEF IInv, Own
<1>6. \E t \in Session : FindSink(doc[g].to) = sinkTable[t]
  BY <1>2 DEF FindSink, IInv, TypeOK, Session, Callee
<1>7. FindSink(doc[g].to) \in isOpen
  BY <1>6 DEF SInv, SinkTables
<1> QED BY <1>4, <1>5, <1>7 DEF SInv, SinkTables, IInv, TypeOK

\* The pipeline is attached: what was written for it before does not count.
LEMMA AttachS ==
    ASSUME IInv, SInv, IInv', NEW g \in Goroutine, NEW p \in DOMAIN pipe, NEW k \in Sink,
           NEW P \in PipelineRecord, Update(p, P), HasPipe(g), cur[g] = p,
           k \in isOpen, k \in made, pipe[p].id[1] \in Caller,
           P.id = pipe[p].id, P.data = pipe[p].data, P.sink = k, P.since = pipe[p].data + 1,
           pc[g] # "write", pc'[g] = "bind", sinkVar'[g] = k, cur'[g] = cur[g], doc'[g] = doc[g],
           \A h \in Goroutine \ {g} : Still(h),
           UNCHANGED <<sinkTable, busSession, isOpen, made, written>>
    PROVE  SInv'
<1>1. /\ DOMAIN pipe' = DOMAIN pipe /\ pipe'[p] = P
      /\ \A q \in DOMAIN pipe \ {p} : pipe'[q] = pipe[q]
  BY UpdateFacts DEF IInv
<1>2. \A q \in DOMAIN pipe : pipe'[q].data = pipe[q].data
  BY <1>1
<1>3. \A h \in Goroutine \ {g} : HasPipe(h) => cur[h] # p
  BY Owner
<1>4. SinkTables' BY DEF SInv, SinkTables
<1>5. Placed' BY <1>1, <1>2 DEF SInv, Placed
<1>6. \A q, n : Pending(q, n)' <=> Pending(q, n)
  BY DEF Pending, Still, Same
<1>7. ASSUME NEW q \in DOMAIN pipe' PROVE Attached(q)' /\ Told(q)'
  <2>1. CASE q # p
    <3>1. q \in DOMAIN pipe /\ pipe'[q] = pipe[q] BY <1>1, <2>1
    <3>2. Attached(q)' BY <3>1 DEF SInv, Attached
    <3>3. Told(q)' BY <1>6, <3>1, ToldSame
    <3> QED BY <3>2, <3>3
  <2>2. CASE q = p
    <3>1. pipe[p].data \in Nat BY PipeTypes DEF IInv
    <3>2. /\ pipe'[p].since = pipe[p].data + 1 /\ pipe'[p].data = pipe[p].data /\ pipe'[p].sink = k
          /\ pipe'[p].id = pipe[p].id
      BY <1>1
    <3>3. Attached(p)' BY <3>1, <3>2 DEF Attached
    <3>4. \A i \in DOMAIN written[k] : written[k][i][1] = p => ~(written[k][i][2] >= pipe[p].data + 1)
      BY <3>1, WrittenTypes DEF IInv, SInv, Placed
    <3>5. pipe'[p].since .. pipe'[p].data = {}
      BY <3>1, <3>2
    <3>6. Told(p)' BY <3>2, <3>4, <3>5 DEF Told
    <3> QED BY <2>2, <3>3, <3>6
  <2> QED BY <2>1, <2>2
<1>8. ASSUME NEW h \in Goroutine \ {g} PROVE Writes(h)'
  <2>1. HasPipe(h) => cur[h] \in DOMAIN pipe /\ pipe'[cur[h]] = pipe[cur[h]] /\ pipe[cur[h]].data \in Nat
    BY <1>1, <1>3, PipeTypes DEF IInv, Local
  <2>2. HasPipe(h) => pipe[cur[h]].data >= pipe[cur[h]].data BY <2>1
  <2> QED BY <2>1, <2>2, WritesSame
<1>9. Writes(g)'
  <2>1. Handling(g) BY DEF HasPipe, Handling
  <2> QED BY <1>1, <2>1 DEF SInv, Writes
<1> QED BY <1>1, <1>4, <1>5, <1>7, <1>8, <1>9 DEF SInv

LEMMA FindS ==
    ASSUME IInv, SInv, IInv', NEW g \in Goroutine, pc[g] \in {"unicast", "find"}, Find(g),
           pipe[cur[g]].sink \notin isOpen,
           UNCHANGED <<svars, mvars, doc, cur, place>>
    PROVE  SInv'
<1> DEFINE p == cur[g]
           k == FindSink(doc[g].to)
           P == [pipe[p] EXCEPT !.lock = None]
           Q == [P EXCEPT !.to = doc[g].to]
           R == [Q EXCEPT !.sink = k, !.since = P.data + 1]
<1>1. p \in DOMAIN pipe /\ pipe[p] \in PipelineRecord /\ doc[g] \in Doc /\ HasPipe(g) /\ Handling(g)
  BY IsRecord DEF IInv, Local, HasPipe, Handling
<1>2. doc[g].to \in Session BY <1>1 DEF Doc
<1>3. k \in Sink \cup {None} /\ (k # None => doc[g].to \in Callee)
  BY <1>2, FindSinkFacts DEF IInv
<1>4. sinkVar' = [sinkVar EXCEPT ![g] = k]
  BY DEF Find
<1>5. \/ k = None /\ Update(p, P) /\ Goto(g, "add")
      \/ k # None /\ Update(p, Q) /\ Goto(g, "add")
      \/ k # None /\ P.sink = None /\ Update(p, R) /\ Goto(g, "bind")
  BY DEF Find
<1>6. /\ P \in PipelineRecord /\ P.id = pipe[p].id /\ P.data = pipe[p].data
      /\ P.since = pipe[p].since /\ P.sink = pipe[p].sink
  BY <1>1 DEF PipelineRecord
<1>7. k # None => /\ Q \in PipelineRecord /\ Q.id = pipe[p].id /\ Q.data = pipe[p].data
                  /\ Q.since = pipe[p].since /\ Q.sink = pipe[p].sink
  BY <1>2, <1>3, <1>6 DEF PipelineRecord
<1>8. k # None => /\ R \in PipelineRecord /\ R.id = pipe[p].id /\ R.data = pipe[p].data
                  /\ R.since = pipe[p].data + 1 /\ R.sink = k
  <2>1. P.data + 1 \in Nat BY <1>6 DEF PipelineRecord
  <2> HIDE DEF P, Q
  <2> QED BY <1>2, <1>3, <1>6, <1>7, <2>1 DEF PipelineRecord
<1>9. sinkVar'[g] = k /\ \A h \in Goroutine \ {g} : sinkVar'[h] = sinkVar[h]
  BY <1>3, <1>4 DEF IInv, TypeOK
<1>10. \A l : Goto(g, l) => pc'[g] = l /\ \A h \in Goroutine \ {g} : Still(h)
  BY <1>9 DEF Goto, IInv, TypeOK, Still, Same
<1> HIDE DEF P, Q, R, k
<1>11. ASSUME NEW S \in PipelineRecord, Update(p, S), Goto(g, "add"),
              S.id = pipe[p].id, S.data = pipe[p].data, S.since = pipe[p].since, S.sink = pipe[p].sink
       PROVE  SInv'
  <2>1. DOMAIN pipe' = DOMAIN pipe /\ pipe'[p] = S
    BY <1>1, <1>11, UpdateFacts DEF IInv
  <2>2. \A q \in DOMAIN pipe : DataKept(q)
    BY <1>1, <1>11, UpdateData
  <2>3. Writes(g)'
    BY <1>1, <1>10, <1>11, <2>1 DEF SInv, Writes, svars
  <2> QED BY <1>10, <1>11, <2>1, <2>2, <2>3, QuietS DEF svars, mvars
<1>12. ASSUME k # None, Update(p, R), Goto(g, "bind") PROVE SInv'
  <2>1. k \in isOpen /\ k \in made /\ k \in Sink /\ g \in Caller /\ doc[g].from = g
    BY <1>1, <1>12, FoundS DEF k
  <2>2. pipe[p].id[1] \in Caller
    BY <1>1, <2>1 DEF IInv, Local
  <2> HIDE DEF p
  <2>3. cur[g] = p BY DEF p
  <2> QED BY <1>1, <1>8, <1>9, <1>10, <1>12, <2>1, <2>2, <2>3, AttachS DEF svars, mvars
<1> QED BY <1>5, <1>6, <1>7, <1>11, <1>12

LEMMA FlushS ==
    ASSUME IInv, SInv, IInv', NEW g \in Goroutine, FlushOutgoing(g) \/ FindAtLast(g)
    PROVE  SInv'
<1>1. HasPipe(g) /\ Handling(g) /\ pc[g] \in {"unicast", "find"}
  BY DEF FlushOutgoing, FindAtLast, HasPipe, Handling
<1>2. cur[g] \in DOMAIN pipe /\ pipe[cur[g]] \in PipelineRecord
  BY <1>1, IsRecord DEF IInv, Local
<1>3. UNCHANGED <<svars, mvars, doc, cur, place>>
  BY DEF FlushOutgoing, FindAtLast
<1>4. CASE /\ pipe[cur[g]].sink \in isOpen
           /\ sinkVar' = [sinkVar EXCEPT ![g] = pipe[cur[g]].sink]
           /\ Goto(g, "add") /\ UNCHANGED pipe
  <2>1. pc'[g] = "add" /\ sinkVar'[g] = pipe[cur[g]].sink /\ \A h \in Goroutine \ {g} : Still(h)
    BY <1>3, <1>4 DEF Goto, IInv, TypeOK, Still, Same
  <2>2. Writes(g)'
    BY <1>1, <1>3, <1>4, <2>1 DEF SInv, Writes
  <2>3. \A q \in DOMAIN pipe : DataKept(q) BY <1>4 DEF DataKept
  <2> QED BY <1>1, <1>3, <1>4, <2>1, <2>2, <2>3, QuietS DEF svars, mvars
<1>5. CASE Find(g) /\ pipe[cur[g]].sink \notin isOpen
  BY <1>1, <1>3, <1>5, FindS
<1>6. CASE /\ pipe[cur[g]].sink \notin isOpen
           /\ Update(cur[g], [pipe[cur[g]] EXCEPT !.lock = g]) /\ Goto(g, "find") /\ UNCHANGED sinkVar
  <2> DEFINE P == [pipe[cur[g]] EXCEPT !.lock = g]
  <2>1. /\ P \in PipelineRecord /\ P.id = pipe[cur[g]].id /\ P.data = pipe[cur[g]].data
        /\ P.since = pipe[cur[g]].since /\ P.sink = pipe[cur[g]].sink
    BY <1>2 DEF PipelineRecord
  <2> HIDE DEF P
  <2>2. Update(cur[g], P) BY <1>6 DEF P
  <2>3. DOMAIN pipe' = DOMAIN pipe /\ pipe'[cur[g]] = P
    BY <1>2, <2>1, <2>2, UpdateFacts DEF IInv
  <2>4. \A q \in DOMAIN pipe : DataKept(q) BY <1>2, <2>1, <2>2, UpdateData
  <2>5. pc'[g] = "find" /\ \A h \in Goroutine \ {g} : Still(h)
    BY <1>3, <1>6 DEF Goto, IInv, TypeOK, Still, Same
  <2>6. Writes(g)'
    BY <1>1, <1>3, <1>6, <2>1, <2>3, <2>5 DEF SInv, Writes, svars
  <2> QED BY <1>1, <1>3, <2>3, <2>4, <2>5, <2>6, QuietS DEF svars, mvars
<1>7. pc[g] = "find" => pipe[cur[g]].sink \notin isOpen
  BY <1>1 DEF SInv, Writes
<1>8. CASE FlushOutgoing(g)
  BY <1>4, <1>5, <1>6, <1>8 DEF FlushOutgoing
<1>9. CASE FindAtLast(g)
  BY <1>5, <1>7, <1>9 DEF FindAtLast
<1> QED BY <1>8, <1>9

\* Nothing is pending for the pipeline of a caller but what that caller wrote.
LEMMA NobodyElse ==
    ASSUME IInv, SInv, NEW p \in DOMAIN pipe, pipe[p].id[1] \in Caller,
           NEW g \in Goroutine, HasPipe(g), cur[g] = p
    PROVE  /\ \A h \in Goroutine \ {g} : HasPipe(h) => cur[h] # p
           /\ \A n : Pending(p, n) <=> pc[g] = "write" /\ place[g] = n
<1>1. \A h \in Goroutine \ {g} : HasPipe(h) => cur[h] # p BY Owner
<1>2. \A h \in Goroutine : pc[h] = "write" => HasPipe(h) BY DEF HasPipe
<1> QED BY <1>1, <1>2 DEF Pending

\* A pipeline that is attached to an open sink.
LEMMA AttachedOpen ==
    ASSUME IInv, SInv, NEW p \in DOMAIN pipe, pipe[p].sink \in isOpen
    PROVE  /\ pipe[p].id[1] \in Caller /\ pipe[p].sink \in Sink /\ pipe[p].sink # None
           /\ pipe[p].since <= pipe[p].data + 1
<1>1. pipe[p].sink \in Sink BY DEF IInv, TypeOK
<1>2. pipe[p].sink # None BY <1>1, NameAssumption DEF Sink, Session, Callee
<1> QED BY <1>1, <1>2 DEF SInv, Attached

LEMMA AddS ==
    ASSUME IInv, SInv, IInv', NEW g \in Goroutine, NEW p \in DOMAIN pipe, cur[g] = p, Add(g)
    PROVE  SInv'
<1> DEFINE Q == [pipe[p] EXCEPT !.data = @ + 1]
           P == Refreshed(Q)
<1>1. /\ pc[g] = "add" /\ HasPipe(g) /\ Handling(g) /\ Update(p, P)
      /\ UNCHANGED <<svars, mvars>>
  BY DEF Add, HasPipe, Handling
<1>2. p \in DOMAIN pipe /\ pipe[p] \in PipelineRecord /\ pipe[p].data \in Nat /\ pipe[p].since \in Nat
  BY IsRecord, PipeTypes DEF IInv
<1>3. /\ P \in PipelineRecord /\ P.id = pipe[p].id /\ P.data = pipe[p].data + 1
      /\ P.since = pipe[p].since /\ P.sink = pipe[p].sink
  <2>1. pipe[p].data + 1 \in Nat BY <1>2
  <2>2. /\ Q \in PipelineRecord /\ Q.id = pipe[p].id /\ Q.data = pipe[p].data + 1
        /\ Q.since = pipe[p].since /\ Q.sink = pipe[p].sink
    BY <1>2, <2>1 DEF PipelineRecord
  <2> HIDE DEF Q
  <2> QED BY <2>2 DEF Refreshed, PipelineRecord
<1> HIDE DEF P, Q
<1>4. /\ DOMAIN pipe' = DOMAIN pipe /\ pipe'[p] = P
      /\ \A q \in DOMAIN pipe \ {p} : pipe'[q] = pipe[q]
  BY <1>1, <1>2, <1>3, UpdateFacts DEF IInv
<1>5. Writes(g) /\ cur[g] = p BY DEF SInv
<1>6. /\ \A h \in Goroutine \ {g} : Still(h)
      /\ \/ sinkVar[g] = None /\ Writes(g)' /\ pc'[g] \in {"close", "idle"}
         \/ /\ sinkVar[g] # None /\ pc'[g] = "write" /\ place'[g] = pipe[p].data + 1
            /\ doc'[g] = doc[g] /\ cur'[g] = cur[g] /\ sinkVar'[g] = sinkVar[g]
  <2>1. CASE sinkVar[g] = None
    <3>1. Passed(g) BY <2>1 DEF Add
    <3> QED BY <1>1, <2>1, <3>1, PassedS
  <2>2. CASE sinkVar[g] # None
    <3>1. /\ place' = [place EXCEPT ![g] = pipe[p].data + 1] /\ pc' = [pc EXCEPT ![g] = "write"]
          /\ UNCHANGED <<doc, cur, sinkVar>>
      BY <2>2 DEF Add, Goto
    <3> QED BY <2>2, <3>1 DEF IInv, TypeOK, Still, Same
  <2> QED BY <2>1, <2>2
<1>7. ASSUME NEW q \in DOMAIN pipe, q # p, NEW n PROVE Pending(q, n)' <=> Pending(q, n)
  <2>1. cur'[g] # q \/ pc'[g] # "write" BY <1>5, <1>6, <1>7
  <2> QED BY <1>1, <1>6, <2>1 DEF Pending, Still, Same
<1>8. Told(p)'
  <2>0. CASE pipe[p].sink \notin isOpen
    <3>1. pipe'[p].sink \notin isOpen' BY <1>1, <1>3, <1>4, <2>0 DEF svars
    <3> QED BY <3>1 DEF Told
  <2> SUFFICES ASSUME NEW k \in Sink, k = pipe[p].sink, k \in isOpen PROVE Told(p)'
    <3>1. CASE pipe[p].sink \in isOpen
      <4>1. pipe[p].sink \in Sink BY <3>1, AttachedOpen
      <4> QED BY <3>1, <4>1
    <3> QED BY <2>0, <3>1
  <2>1. pipe[p].id[1] \in Caller /\ k # None /\ pipe[p].since <= pipe[p].data + 1
    BY AttachedOpen
  <2>2. sinkVar[g] = k
    BY <1>1, <1>5 DEF Writes
  <2>3. pc'[g] = "write" /\ place'[g] = pipe[p].data + 1 /\ cur'[g] = p
    BY <1>5, <1>6, <2>1, <2>2
  <2>4. \A n : ~Pending(p, n)
    BY <1>1, <1>2, <1>5, <2>1, NobodyElse
  <2>5. \A n : Pending(p, n)' <=> n = pipe[p].data + 1
    <3>1. \A h \in Goroutine \ {g} : pc'[h] = "write" => cur'[h] # p
      BY <1>6, <2>4 DEF Pending, Still, Same
    <3> QED BY <2>3, <3>1 DEF Pending
  <2>6. \A i \in DOMAIN written[k] : written[k][i] # <<p, pipe[p].data + 1>>
    <3> SUFFICES ASSUME NEW i \in DOMAIN written[k], written[k][i] = <<p, pipe[p].data + 1>>
                 PROVE  FALSE
      OBVIOUS
    <3>1. written[k][i][1] = p /\ written[k][i][2] = pipe[p].data + 1 OBVIOUS
    <3>2. written[k][i][2] <= pipe[p].data BY <2>1, <3>1 DEF SInv, Placed
    <3> QED BY <1>2, <3>1, <3>2
  <2>7. ASSUME NEW n \in pipe'[p].since .. pipe'[p].data
        PROVE  (\E i \in DOMAIN written[k] : written[k][i] = <<p, n>>) <=> ~Pending(p, n)'
    <3>1. n \in pipe[p].since .. pipe[p].data + 1 BY <1>3, <1>4
    <3>2. CASE n = pipe[p].data + 1 BY <2>5, <2>6, <3>2
    <3>3. CASE n # pipe[p].data + 1
      <4>1. n \in pipe[p].since .. pipe[p].data BY <1>2, <3>1, <3>3
      <4> QED BY <1>2, <2>4, <2>5, <3>3, <4>1 DEF SInv, Told
    <3> QED BY <3>2, <3>3
  <2>8. pipe'[p].sink = k /\ pipe'[p].since = pipe[p].since /\ written'[k] = written[k]
    BY <1>1, <1>3, <1>4 DEF svars
  <2>9. Told(p) BY <1>2 DEF SInv
  <2>10. \A i, j \in DOMAIN written[k] :
              LET v == written[k][i]
                  w == written[k][j]
              IN  i < j /\ v[1] = p /\ w[1] = p /\ v[2] >= pipe[p].since /\ w[2] >= pipe[p].since
                  => v[2] < w[2]
    BY <2>9 DEF Told
  <2> QED BY <2>7, <2>8, <2>10 DEF Told
<1>9. ASSUME NEW q \in DOMAIN pipe' PROVE Attached(q)' /\ Told(q)'
  <2>1. CASE q # p
    <3>1. q \in DOMAIN pipe /\ pipe'[q] = pipe[q] BY <1>4, <2>1
    <3>2. Attached(q)' BY <1>1, <3>1 DEF SInv, Attached, mvars
    <3>3. Told(q)' BY <1>1, <1>7, <2>1, <3>1, ToldSame DEF svars
    <3> QED BY <3>2, <3>3
  <2>2. CASE q = p
    <3>1. Attached(p)' BY <1>1, <1>2, <1>3, <1>4 DEF SInv, Attached, mvars
    <3> QED BY <1>8, <2>2, <3>1
  <2> QED BY <2>1, <2>2
<1>10. \A q \in DOMAIN pipe : /\ pipe[q].data \in Nat /\ pipe'[q].data \in Nat
                              /\ pipe'[q].data >= pipe[q].data
  <2>1. \A q \in DOMAIN pipe : pipe[q].data \in Nat BY PipeTypes DEF IInv
  <2> QED BY <1>2, <1>3, <1>4, <2>1
<1>11. Placed'
  <2> SUFFICES ASSUME NEW k \in Sink, NEW i \in DOMAIN written[k]
               PROVE  /\ written[k][i][1] \in DOMAIN pipe'
                      /\ written[k][i][2] <= pipe'[written[k][i][1]].data
    BY <1>1 DEF Placed, svars
  <2>1. written[k][i][1] \in DOMAIN pipe /\ written[k][i][2] <= pipe[written[k][i][1]].data
    BY DEF SInv, Placed
  <2>2. written[k][i][2] \in Nat BY WrittenTypes DEF IInv
  <2> QED BY <1>4, <1>10, <2>1, <2>2
<1>12. ASSUME NEW h \in Goroutine \ {g} PROVE Writes(h)'
  <2>1. HasPipe(h) => cur[h] \in DOMAIN pipe BY DEF IInv, Local
  <2>2. HasPipe(h) /\ cur[h] = p => pipe[p].sink \notin isOpen
    <3>1. pipe[p].sink \in isOpen => pipe[p].id[1] \in Caller
      BY AttachedOpen
    <3> QED BY <1>1, <1>2, <1>5, <3>1, NobodyElse
  <2>3. HasPipe(h) /\ cur[h] = p => pipe'[p].sink \notin isOpen'
    BY <1>1, <1>3, <1>4, <2>2 DEF svars
  <2>4. HasPipe(h) /\ cur[h] # p => pipe'[cur[h]] = pipe[cur[h]] BY <1>4, <2>1
  <2>5. isOpen' = isOpen BY <1>1 DEF svars
  <2> QED BY <1>6, <1>10, <2>1, <2>3, <2>4, <2>5, WritesSame
<1>13. Writes(g)'
  <2>1. CASE sinkVar[g] = None BY <1>6, <2>1
  <2>2. CASE sinkVar[g] # None
    <3>1. pc'[g] = "write" /\ place'[g] = pipe[p].data + 1 /\ doc'[g] = doc[g] /\ cur'[g] = p
          /\ sinkVar'[g] = sinkVar[g]
      BY <1>5, <1>6, <2>2
    <3>2. pipe'[p].data = pipe[p].data + 1 /\ pipe'[p].sink = pipe[p].sink /\ pipe'[p].since = pipe[p].since
      BY <1>3, <1>4
    <3>3. pipe[p].sink \in isOpen => pipe[p].since <= pipe[p].data + 1
      BY AttachedOpen
    <3>4. place'[g] <= pipe'[p].data BY <1>2, <3>1, <3>2
    <3>5. isOpen' = isOpen BY <1>1 DEF svars
    <3>6. pipe[p].sink \in isOpen => sinkVar[g] = pipe[p].sink BY <1>1, <1>5 DEF Writes
    <3>7. Handling(g) /\ g \notin Caller => doc[g].to \in Caller BY <1>5 DEF Writes
    <3> QED BY <1>1, <3>1, <3>2, <3>3, <3>4, <3>5, <3>6, <3>7 DEF Writes
  <2> QED BY <2>1, <2>2
<1>14. SinkTables' BY <1>1 DEF SInv, SinkTables, svars, mvars
<1> QED BY <1>9, <1>11, <1>12, <1>13, <1>14 DEF SInv

\* The sink is given one more, the last.
LEMMA AppendFacts ==
    ASSUME NEW T, NEW s \in Seq(T), NEW e \in T
    PROVE  /\ Append(s, e) \in Seq(T) /\ DOMAIN Append(s, e) = DOMAIN s \cup {Len(s) + 1}
           /\ Len(s) \in Nat /\ \A i \in DOMAIN s : i \in Nat /\ i <= Len(s) /\ Append(s, e)[i] = s[i]
           /\ Append(s, e)[Len(s) + 1] = e
OBVIOUS

\* The sink k gets the document at place n of p.
Gets(k, p, n) == written'[k] = Append(written[k], <<p, n>>)

\* A document that is written to an open sink is the next of its pipeline.
LEMMA ToldNext ==
    ASSUME IInv, SInv, NEW g \in Goroutine, NEW p \in DOMAIN pipe, cur[g] = p, pc[g] = "write",
           pipe[p].sink \in isOpen, NEW k \in Sink, k = pipe[p].sink,
           Gets(k, p, place[g]),
           \A h \in Goroutine \ {g} : Still(h), pc'[g] # "write",
           UNCHANGED <<pipe, isOpen>>
    PROVE  Told(p)'
<1> DEFINE s == written[k]
           t == Append(written[k], <<p, place[g]>>)
           d == pipe[p].data
           since == pipe[p].since
<1>1. HasPipe(g) /\ Writes(g) /\ pipe[p].id[1] \in Caller
  BY PendingHas, AttachedOpen DEF SInv
<1>2. place[g] = d /\ since <= d
  BY <1>1 DEF Writes
<1>3. d \in Nat /\ since \in Nat /\ p \in Pipe
  BY PipeTypes DEF IInv
<1>4. s \in Seq(Pipe \X Nat) /\ <<p, d>> \in Pipe \X Nat /\ t = Append(s, <<p, d>>)
  BY <1>2, <1>3, WrittenTypes DEF IInv
<1>5. \A n : Pending(p, n) <=> n = d
  BY <1>1, <1>2, NobodyElse
<1>6. \A n : ~Pending(p, n)'
  <2>1. \A h \in Goroutine : pc'[h] = "write" => h # g /\ pc[h] = "write" /\ cur'[h] = cur[h]
    BY DEF Still, Same
  <2>2. \A h \in Goroutine \ {g} : HasPipe(h) => cur[h] # p
    BY <1>1, NobodyElse
  <2> QED BY <2>1, <2>2 DEF Pending, HasPipe
<1>7. \A i \in DOMAIN s : s[i][1] = p => s[i][2] \in Nat /\ s[i][2] <= d
  BY WrittenTypes DEF IInv, SInv, Placed
<1>8. /\ \A n \in since .. d : (\E i \in DOMAIN s : s[i] = <<p, n>>) <=> n # d
      /\ \A i, j \in DOMAIN s : i < j /\ s[i][1] = p /\ s[j][1] = p /\ s[i][2] >= since /\ s[j][2] >= since
                                => s[i][2] < s[j][2]
  <2>1. Told(p) BY DEF SInv
  <2>2. \A n \in since .. d : (\E i \in DOMAIN s : s[i] = <<p, n>>) <=> n # d
    <3>1. \A n \in since .. d : (\E i \in DOMAIN s : s[i] = <<p, n>>) <=> ~Pending(p, n)
      <4> HIDE DEF Pending
      <4> QED BY <2>1 DEF Told
    <3> HIDE DEF s, since, d
    <3> QED BY <1>5, <3>1
  <2>3. \A i, j \in DOMAIN s :
           LET v == s[i]
               w == s[j]
           IN  i < j /\ v[1] = p /\ w[1] = p /\ v[2] >= since /\ w[2] >= since => v[2] < w[2]
    BY <2>1 DEF Told
  <2> QED BY <2>2, <2>3
<1>9. pipe'[p].sink = k /\ pipe'[p].data = d /\ pipe'[p].since = since /\ written'[k] = t
  BY DEF t, Gets
<1>11. \A i \in DOMAIN s : s[i] = <<s[i][1], s[i][2]>>
  BY WrittenTypes DEF IInv
<1> HIDE DEF s, t, d, since
<1>10. /\ DOMAIN t = DOMAIN s \cup {Len(s) + 1} /\ t[Len(s) + 1] = <<p, d>>
       /\ Len(s) \in Nat /\ \A i \in DOMAIN s : i \in Nat /\ i <= Len(s) /\ t[i] = s[i]
  BY <1>4, AppendFacts
<1>12. \A n \in since .. d : \E i \in DOMAIN t : t[i] = <<p, n>>
  <2> TAKE n \in since .. d
  <2>1. CASE n = d BY <1>10, <2>1
  <2>2. CASE n # d
    <3>1. PICK i \in DOMAIN s : s[i] = <<p, n>> BY <1>8, <2>2
    <3> QED BY <1>10, <3>1
  <2> QED BY <2>1, <2>2
<1>13. \A i \in DOMAIN s : s[i][1] = p /\ s[i][2] >= since => s[i][2] < d
  <2> SUFFICES ASSUME NEW i \in DOMAIN s, s[i][1] = p, s[i][2] >= since PROVE s[i][2] < d
    OBVIOUS
  <2>1. s[i][2] \in Nat /\ s[i][2] <= d BY <1>7
  <2>2. d \in since .. d BY <1>2, <1>3 DEF d, since
  <2>3. s[i] # <<p, d>> BY <1>8, <2>2
  <2>4. s[i][2] # d BY <1>11, <2>3
  <2> QED BY <1>3, <2>1, <2>4 DEF d
<1>14. \A i, j \in DOMAIN t : i < j /\ t[i][1] = p /\ t[j][1] = p /\ t[i][2] >= since /\ t[j][2] >= since
                              => t[i][2] < t[j][2]
  <2> SUFFICES ASSUME NEW i \in DOMAIN t, NEW j \in DOMAIN t, i < j, t[i][1] = p, t[j][1] = p,
                      t[i][2] >= since, t[j][2] >= since
               PROVE  t[i][2] < t[j][2]
    OBVIOUS
  <2>1. i \in DOMAIN s BY <1>10
  <2>2. CASE j \in DOMAIN s BY <1>8, <1>10, <2>1, <2>2
  <2>3. CASE j = Len(s) + 1 BY <1>10, <1>13, <2>1, <2>3
  <2> QED BY <1>10, <2>2, <2>3
<1>15. \A i, j \in DOMAIN t :
           LET v == t[i]
               w == t[j]
           IN  i < j /\ v[1] = p /\ w[1] = p /\ v[2] >= since /\ w[2] >= since => v[2] < w[2]
  BY <1>14
<1>16. \A n \in since .. d : (\E i \in DOMAIN t : t[i] = <<p, n>>) <=> ~Pending(p, n)'
  BY <1>6, <1>12
<1> QED BY <1>9, <1>15, <1>16 DEF Told

LEMMA WriteS ==
    ASSUME IInv, SInv, IInv', NEW g \in Goroutine, NEW p \in DOMAIN pipe, cur[g] = p, Write(g)
    PROVE  SInv'
<1>1. /\ pc[g] = "write" /\ HasPipe(g) /\ Passed(g) /\ sinkVar[g] \in Sink
      /\ UNCHANGED <<pvars, mvars, sinkTable, busSession, isOpen>>
      /\ written' = IF sinkVar[g] \in isOpen
                    THEN [written EXCEPT ![sinkVar[g]] = Append(@, <<cur[g], place[g]>>)] ELSE written
  BY DEF Write, HasPipe, IInv, TypeOK, Local
<1>2. Writes(g)' /\ pc'[g] # "write" /\ \A h \in Goroutine \ {g} : Still(h)
  BY <1>1, PassedS
<1>3. \A q \in DOMAIN pipe : DataKept(q) BY <1>1 DEF DataKept, pvars
<1>4. CASE sinkVar[g] \notin isOpen
  <2>0. written' = written /\ pipe' = pipe /\ isOpen' = isOpen BY <1>1, <1>4 DEF pvars
  <2>1. SinkTables' BY <1>1 DEF SInv, SinkTables, mvars
  <2>2. ASSUME NEW q \in DOMAIN pipe PROVE Attached(q)' /\ Told(q)'
    <3>1. Attached(q)' BY <1>1 DEF SInv, Attached, pvars, mvars
    <3>2. CASE q # p
      <4>1. \A n : Pending(q, n)' <=> Pending(q, n)
        BY <1>2, <3>2 DEF Pending, Still, Same
      <4> QED BY <2>0, <3>1, <4>1, ToldSame
    <3>3. CASE q = p
      <4>1. Writes(g) BY DEF SInv
      <4>2. pipe[p].sink \notin isOpen BY <1>1, <1>4, <4>1 DEF Writes
      <4> QED BY <2>0, <3>1, <3>3, <4>2 DEF Told
    <3> QED BY <3>1, <3>2, <3>3
  <2>3. Placed' BY <1>1, <1>4 DEF SInv, Placed, pvars
  <2>4. ASSUME NEW h \in Goroutine \ {g} PROVE Writes(h)'
    <3>1. HasPipe(h) => pipe'[cur[h]].data \in Nat
      BY <1>1, PipeTypes DEF IInv, Local, pvars
    <3>2. HasPipe(h) => pipe'[cur[h]].data >= pipe[cur[h]].data BY <1>1, <3>1 DEF pvars
    <3> QED BY <1>1, <1>2, <3>1, <3>2, WritesSame DEF pvars
  <2> QED BY <1>1, <1>2, <2>1, <2>2, <2>3, <2>4 DEF SInv, pvars
<1>5. CASE sinkVar[g] \in isOpen
  <2> SUFFICES ASSUME NEW k \in Sink, k = sinkVar[g] PROVE SInv'
    BY <1>1
  <2>1. /\ written'[k] = Append(written[k], <<p, place[g]>>)
        /\ \A j \in Sink \ {k} : written'[j] = written[j]
    BY <1>1, <1>5 DEF IInv, TypeOK
  <2>2. /\ written[k] \in Seq(Pipe \X Nat) /\ <<p, place[g]>> \in Pipe \X Nat
    BY <1>1, PendingHas, PipeTypes, WrittenTypes DEF IInv
  <2>3. /\ DOMAIN written'[k] = DOMAIN written[k] \cup {Len(written[k]) + 1}
        /\ written'[k][Len(written[k]) + 1] = <<p, place[g]>> /\ Len(written[k]) \in Nat
        /\ \A i \in DOMAIN written[k] : i \in Nat /\ i <= Len(written[k]) /\ written'[k][i] = written[k][i]
    BY <2>1, <2>2, AppendFacts
  <2>4. Placed'
    <3>1. Writes(g) BY DEF SInv
    <3>2. place[g] <= pipe[p].data BY <1>1, <3>1 DEF Writes
    <3>3. ASSUME NEW j \in Sink, NEW i \in DOMAIN written'[j]
          PROVE  /\ written'[j][i][1] \in DOMAIN pipe
                 /\ written'[j][i][2] <= pipe[written'[j][i][1]].data
      <4>1. CASE j # k BY <2>1, <4>1 DEF SInv, Placed
      <4>2. CASE j = k /\ i \in DOMAIN written[k]
        BY <2>3, <4>2 DEF SInv, Placed
      <4>3. CASE j = k /\ i = Len(written[k]) + 1
        <5>1. written'[j][i] = <<p, place[g]>> BY <2>3, <4>3
        <5> QED BY <3>2, <5>1
      <4> QED BY <2>3, <4>1, <4>2, <4>3
    <3> QED BY <1>1, <3>3 DEF Placed, pvars
  <2>5. ASSUME NEW q \in DOMAIN pipe PROVE Attached(q)' /\ Told(q)'
    <3>1. Attached(q)' BY <1>1 DEF SInv, Attached, pvars, mvars
    <3>2. CASE pipe[q].sink \notin isOpen
      BY <1>1, <3>1, <3>2 DEF Told, pvars
    <3>3. CASE pipe[q].sink \in isOpen /\ q = p
      <4>1. Writes(g) BY DEF SInv
      <4>2. k = pipe[p].sink BY <1>1, <3>3, <4>1 DEF Writes
      <4> QED BY <1>1, <1>2, <2>1, <3>1, <3>3, <4>2, ToldNext DEF pvars, Gets
    <3>4. CASE pipe[q].sink \in isOpen /\ q # p
      <4>1. \A n : Pending(q, n)' <=> Pending(q, n)
        BY <1>2, <3>4 DEF Pending, Still, Same
      <4>2. CASE pipe[q].sink # k
        <5>1. written'[pipe[q].sink] = written[pipe[q].sink]
          BY <2>1, <3>4, <4>2, AttachedOpen
        <5> QED BY <1>1, <3>1, <3>4, <4>1, <5>1, ToldSame DEF pvars
      <4>3. CASE pipe[q].sink = k
        <5>1. Told(q) BY DEF SInv
        <5>2. \A n : (\E i \in DOMAIN written'[k] : written'[k][i] = <<q, n>>)
                     <=> (\E i \in DOMAIN written[k] : written[k][i] = <<q, n>>)
          BY <2>3, <3>4
        <5>3. \A i \in DOMAIN written'[k] : written'[k][i][1] = q => i \in DOMAIN written[k]
          BY <2>3, <3>4
        <5>4. pipe'[q] = pipe[q] /\ isOpen' = isOpen BY <1>1 DEF pvars
        <5>5. \A n \in pipe[q].since .. pipe[q].data :
                (\E i \in DOMAIN written'[k] : written'[k][i] = <<q, n>>) <=> ~Pending(q, n)'
          <6> HIDE DEF Pending
          <6> QED BY <3>4, <4>1, <4>3, <5>1, <5>2 DEF Told
        <5>6. \A i, j \in DOMAIN written'[k] :
                  LET v == written'[k][i]
                      w == written'[k][j]
                  IN  i < j /\ v[1] = q /\ w[1] = q /\ v[2] >= pipe[q].since /\ w[2] >= pipe[q].since
                      => v[2] < w[2]
          <6>1. \A i \in DOMAIN written[k] : written'[k][i] = written[k][i] BY <2>3
          <6> QED BY <3>4, <4>3, <5>1, <5>3, <6>1 DEF Told
        <5>7. Told(q)' BY <4>3, <5>4, <5>5, <5>6 DEF Told
        <5> QED BY <3>1, <5>7
      <4> QED BY <4>2, <4>3
    <3> QED BY <3>2, <3>3, <3>4
  <2>6. SinkTables' BY <1>1 DEF SInv, SinkTables, mvars
  <2>7. ASSUME NEW h \in Goroutine \ {g} PROVE Writes(h)'
    <3>1. HasPipe(h) => pipe'[cur[h]].data \in Nat
      BY <1>1, PipeTypes DEF IInv, Local, pvars
    <3>2. HasPipe(h) => pipe'[cur[h]].data >= pipe[cur[h]].data BY <1>1, <3>1 DEF pvars
    <3> QED BY <1>1, <1>2, <3>1, <3>2, WritesSame DEF pvars
  <2> QED BY <1>1, <1>2, <2>4, <2>5, <2>6, <2>7 DEF SInv, pvars
<1> QED BY <1>4, <1>5

LEMMA InitS == Init => SInv
<1> SUFFICES ASSUME Init PROVE SInv
  OBVIOUS
<1>1. \A g \in Goroutine : pc[g] = "idle" BY DEF Init
<1>2. SinkTables BY DEF Init, SinkTables
<1>3. Placed BY DEF Init, Placed
<1>4. DOMAIN pipe = {} BY DEF Init
<1>5. \A g \in Goroutine : Writes(g) BY <1>1 DEF Writes, Handling, HasPipe
<1> QED BY <1>2, <1>3, <1>4, <1>5 DEF SInv

LEMMA StepS ==
    ASSUME IInv, SInv, IInv', NEW g \in Goroutine, Step(g)
    PROVE  SInv'
<1>1. CASE Add(g)
  <2>1. HasPipe(g) BY <1>1 DEF Add, HasPipe
  <2>2. PICK p \in DOMAIN pipe : cur[g] = p BY <2>1 DEF IInv, Local
  <2> QED BY <1>1, <2>2, AddS
<1>2. CASE Write(g)
  <2>1. HasPipe(g) BY <1>2 DEF Write, HasPipe
  <2>2. PICK p \in DOMAIN pipe : cur[g] = p BY <2>1 DEF IInv, Local
  <2> QED BY <1>2, <2>2, WriteS
<1> QED BY <1>1, <1>2, GetNewS, GetOldS, RefreshS, UnicastClientS, FlushS, BindS, CloseS DEF Step

LEMMA NextS ==
    ASSUME IInv, SInv, IInv', Next
    PROVE  SInv'
<1>1. ASSUME NEW g \in Goroutine, Step(g) PROVE SInv'
  BY <1>1, StepS
<1>2. CASE Clients
  <2>1. CASE \E c \in Caller : Disconnect(c)
    <3>1. UNCHANGED <<pipe, svars, gvars, made>> BY <2>1 DEF Disconnect, pvars, mvars
    <3> QED BY <3>1, ApartS
  <2>2. CASE \E c \in Caller, to \in Callee, type \in {"call", "bye"} : Send(c, to, type)
    BY <2>2, SendS
  <2> QED BY <1>2, <2>1, <2>2 DEF Clients
<1>3. CASE Bus
  <2>1. CASE \E to \in Caller, type \in {"call", "bye"} : Incoming(to, type)
    BY <2>1, IncomingS
  <2>2. CASE \E s \in BusSession, asDefault \in BOOLEAN : SessionCreate(s, asDefault)
    BY <2>2, SessionCreateS
  <2> QED BY <1>3, <2>1, <2>2, SessionCloseS DEF Bus
<1>4. CASE Server
  <2>1. CASE \E c \in Caller : Step(c)
    BY <1>1, <2>1 DEF Goroutine
  <2>2. CASE \E p \in Pipe : Receiver(p)
    BY <1>1, <2>2, ReceiveS, ReceiveEndsS DEF Receiver, Goroutine
  <2>3. CASE \E p \in Pipe : TimePasses(p)
    BY <2>3, TimePassesS
  <2>4. CASE CleanupStep
    <3>1. CASE Cleanup \/ CleanupEnds \/ \E p \in Pipe : CleanupNext(p)
      <4>1. UNCHANGED <<pipe, svars, gvars, made>>
        BY <3>1 DEF Cleanup, CleanupEnds, CleanupNext, pvars, mvars
      <4> QED BY <4>1, ApartS
    <3> QED BY <2>4, <3>1, CleanupCloseS DEF CleanupStep
  <2> QED BY <1>4, <2>1, <2>2, <2>3, <2>4 DEF Server
<1> QED BY <1>2, <1>3, <1>4 DEF Next

LEMMA InvarianceS == Spec => [](IInv /\ SInv)
<1>1. IInv /\ SInv /\ [Next]_vars => (IInv /\ SInv)'
  <2> SUFFICES ASSUME IInv, SInv, [Next]_vars PROVE IInv' /\ SInv'
    OBVIOUS
  <2>1. IInv' BY NextInv, StutterInv
  <2>2. CASE UNCHANGED vars
    <3>1. UNCHANGED <<pipe, svars, gvars, made>> BY <2>2 DEF vars, pvars, mvars
    <3> QED BY <2>1, <3>1, ApartS
  <2> QED BY <2>1, <2>2, NextS
<1> QED BY InitInv, InitS, <1>1, PTL DEF Spec

-----------------------------------------------------------------------------
(* Theorems. *)

\* Pipelines, tables and what goroutines keep are what they are declared to be
\* (pipeline.go:43-63, pipeline_manager.go:35-60).
THEOREM TypeCorrect == Spec => []TypeOK
<1>1. IInv => TypeOK BY DEF IInv
<1> QED BY <1>1, Invariance, PTL

\* The receiver of a pipeline always has a session to act for: a subscription is
\* moved only to a pipeline that has one, and no pipeline ever loses its own
\* (pipeline.go:75, 188-216).
THEOREM ReceiverActsForSession == Spec => []ReceiverHasSession
<1>1. IInv => ReceiverHasSession
  BY DEF IInv, TypeOK, Own, Goroutine, ReceiverHasSession
<1> QED BY <1>1, Invariance, PTL

\* While a sink is open and nobody is at a pipeline that is attached to it, the sink was given
\* every document added since, once and in order: nobody attaches without writing, and what
\* was found for one document is never used for the next (pipeline.go:188-243).
THEOREM SinkGetsAll == Spec => []SinkMissesNothing
<1>1. ASSUME IInv, SInv PROVE SinkMissesNothing
  <2> SUFFICES ASSUME NEW p \in DOMAIN pipe, pipe[p].sink \in isOpen,
                      \A g \in Goroutine : cur[g] # p
               PROVE  LET k     == pipe[p].sink
                          since == pipe[p].since
                          Ours  == {i \in DOMAIN written[k] : written[k][i][1] = p
                                                               /\ written[k][i][2] >= since}
                      IN  /\ {written[k][i][2] : i \in Ours} = since .. pipe[p].data
                          /\ \A i, j \in Ours : i < j => written[k][i][2] < written[k][j][2]
    BY DEF SinkMissesNothing
  <2> DEFINE k    == pipe[p].sink
             Ours == {i \in DOMAIN written[k] : written[k][i][1] = p /\ written[k][i][2] >= pipe[p].since}
  <2>1. Told(p) /\ k \in Sink BY <1>1, AttachedOpen DEF SInv
  <2>2. \A n : ~Pending(p, n) BY DEF Pending
  <2>3. pipe[p].since \in Nat /\ pipe[p].data \in Nat BY <1>1, PipeTypes DEF IInv
  <2>4. \A i \in Ours : written[k][i][2] \in pipe[p].since .. pipe[p].data
    BY <1>1, <2>1, <2>3, WrittenTypes DEF IInv, SInv, Placed
  <2>5. \A n \in pipe[p].since .. pipe[p].data : \E i \in DOMAIN written[k] : written[k][i] = <<p, n>>
    BY <2>1, <2>2 DEF Told
  <2>6. \A n \in pipe[p].since .. pipe[p].data : \E i \in Ours : written[k][i][2] = n
    <3> TAKE n \in pipe[p].since .. pipe[p].data
    <3>1. PICK i \in DOMAIN written[k] : written[k][i] = <<p, n>> BY <2>5
    <3>2. written[k][i][1] = p /\ written[k][i][2] = n /\ n >= pipe[p].since BY <2>3, <3>1
    <3> QED BY <3>2
  <2>7. \A i, j \in Ours : i < j => written[k][i][2] < written[k][j][2]
    BY <2>1 DEF Told
  <2>8. {written[k][i][2] : i \in Ours} = pipe[p].since .. pipe[p].data
    BY <2>4, <2>6
  <2> QED BY <2>7, <2>8
<1> QED BY <1>1, InvarianceS, PTL
===============================================================================
