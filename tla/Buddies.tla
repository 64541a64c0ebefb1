------------------------------- MODULE Buddies -------------------------------
(***************************************************************************)
(* The buddy list of the browser client: buddylist.js with the scopes of   *)
(* buddydata.js, the sessions of buddysession.js and the contacts.         *)
(*                                                                         *)
(* A scope is one line of the list.  Sessions of one user share it, once   *)
(* the user is known; a contact keeps it when the sessions have gone.      *)
(* Events come one by one from the server, the user and the animation      *)
(* frame.  A handler is an operator from the state of the list to the next *)
(* one, as handlers call each other.  The order of the lines, what is      *)
(* written in them and the number of buddies are left out.                 *)
(***************************************************************************)
EXTENDS Integers, Sequences, FiniteSets, SequencesExt

CONSTANTS Session, User,
          Userid,    \* the user of each session, who may sign in late
          MaxScopes, \* state space limiter: scopes ever made
          None

ASSUME UserAssumption == Session \cap User = {} /\ None \notin Session \cup User \cup Nat
ASSUME UseridAssumption == Userid \in [Session -> User]

Key   == Session \cup User
Scope == 1 .. MaxScopes

VARIABLES
    list,     \* the buddy list, a record: see EmptyList
    dom,      \* the scopes whose element is on the page
    present,  \* sessions of the room, as the documents told
    signedIn, \* sessions whose user the documents told
    contacts  \* contactData

vars == <<list, dom, present, signedIn, contacts>>

EmptyList ==
    [heap     |-> <<>>,                      \* the scopes, with their sessions
     scopes   |-> [k \in Key |-> None],      \* buddyData: id -> scope
     brain    |-> [k \in Key |-> None],      \* buddyData: scopes of those who left
     sessions |-> [s \in Session |-> None],  \* buddySession: id -> the scope whose session has it
     auth     |-> {},                        \* sessions whose data are marked auth
     queue    |-> {},                        \* ids to be rendered
     lefts    |-> {},                        \* <<id, scope>>: elements to be removed
     dropped  |-> {}]                        \* history: scopes dropped from the queue unrendered

Init == /\ list = EmptyList /\ dom = {} /\ present = {} /\ signedIn = {}
        /\ contacts = {}

-----------------------------------------------------------------------------
(* BuddySession, which goes with its scope.                                *)

Has(sc)  == sc.Id \in ToSet(sc.ids) \* get() finds the data of the default session
Using(sc, ids) == [sc EXCEPT !.ids = ids, !.Id = IF sc.ids = <<>> THEN ids[1] ELSE @]

\* The constructor, in onBuddyScopeCreated: a contact is no session.
NewScope(id, userid) ==
    [ids |-> IF id = userid THEN <<>> ELSE <<id>>, Id |-> id,
     Userid |-> IF id = userid THEN None ELSE userid,
     contact |-> FALSE, element |-> FALSE, killed |-> FALSE]

\* add
AddSession(l, n, s) ==
    [l EXCEPT !.heap[n] = Using(@, Append(@.ids, s)), !.sessions[s] = n]

\* merge: the sessions of n are those of t, too.
AddMissing(l, t, s) == IF s \in ToSet(l.heap[t].ids) THEN l ELSE AddSession(l, t, s)
Merge(l, t, n) ==
    IF l.heap[t].Userid # l.heap[n].Userid THEN l
    ELSE FoldLeft(LAMBDA m, s : AddMissing(m, t, s), l, l.heap[n].ids)

\* remove: the next session is used, or the user.
Removed(sc, id) ==
    LET ids == RemoveFirst(sc.ids, id) IN
    [sc EXCEPT !.ids = ids,
               !.Id = IF id # @ THEN @ ELSE IF ids # <<>> THEN ids[1] ELSE sc.Userid]

\* $destroy, and an element that is to be removed in the next frame, under the id.
Destroy(sc) == [sc EXCEPT !.element = FALSE, !.killed = TRUE]
Left(l, id, n) == {e \in l.lefts : e[1] # id} \cup {<<id, n>>}

-----------------------------------------------------------------------------
(* buddyData.get, and what a document with a user id does.                 *)

\* get with a parent: the scope of the id, of the user, or a new one.
Get(l, id, userid) ==
    IF l.scopes[id] # None THEN l
    ELSE IF userid # None /\ l.scopes[userid] # None
    THEN [l EXCEPT !.scopes[id] = l.scopes[userid]]
    ELSE LET n == Len(l.heap) + 1 IN
         [l EXCEPT !.heap   = Append(@, NewScope(id, userid)),
                   !.scopes = [k \in Key |-> IF k \in {id, userid} THEN n ELSE @[k]],
                   !.sessions = [s \in Session |-> IF s = id THEN n ELSE @[s]],
                   !.auth = @ \ {id}]

\* Mutant: no merge when the user has a scope already.
OnUseridAlone(l, n) ==
    IF l.scopes[l.heap[n].Userid] = None THEN [l EXCEPT !.scopes[l.heap[n].Userid] = n] ELSE l

\* onBuddySessionUserid: the scope becomes that of the user, or is merged into it.
OnUserid(l, n) ==
    LET u  == l.heap[n].Userid
        id == l.heap[n].Id
        t  == l.scopes[u]
    IN
    IF t = None THEN [l EXCEPT !.scopes[u] = n]
    ELSE IF t = n THEN l
    ELSE [Merge(l, t, n) EXCEPT !.scopes[id] = t,
                                !.lefts = IF l.heap[n].element THEN Left(l, id, n) ELSE @,
                                !.heap[n] = IF @.element THEN Destroy(@) ELSE @]

\* The session's data: those of a user id are not kept.
Added(l, n, id, userid) ==
    IF id = userid \/ id \in ToSet(l.heap[n].ids) THEN l
    ELSE [AddSession(l, n, id) EXCEPT !.auth = @ \ {id}]

\* update of the session of scope n; onUseridCallback is called once for each session's data.
Update(l, n, id, userid) ==
    LET added  == Added(l, n, id, userid)
        authed == [added EXCEPT !.heap[n].Userid = IF @ = None THEN userid ELSE @]
    IN
    IF userid = None THEN added
    ELSE IF id \in added.auth THEN authed
    ELSE [OnUserid(authed, n) EXCEPT !.auth = IF id = userid THEN @ ELSE @ \cup {id}]

\* setDisplay and updateDisplay; the latter renders when the name that is sorted by changes.
SetDisplay(l, id) ==
    IF l.heap[l.scopes[id]].element THEN l
    ELSE [l EXCEPT !.queue = @ \cup {id}]

UpdateDisplay(l, id, renamed) ==
    IF renamed THEN [l EXCEPT !.queue = @ \cup {id}] ELSE l

-----------------------------------------------------------------------------
(* The handlers of the buddy list.                                         *)

OnJoined(l, id, userid) ==
    LET got == Get(l, id, userid)
        n   == got.scopes[id]
        new == Update(got, n, id, userid)
    IN  IF id = new.heap[n].Id THEN SetDisplay(new, id) ELSE new

OnStatus(l, id, userid, renamed) ==
    LET got == Get(l, id, userid)
        n   == got.scopes[id]
        new == Update(got, n, id, userid)
    IN  IF id = new.heap[n].Id THEN UpdateDisplay(new, id, renamed) ELSE new

\* The last session of a scope without contact takes it away, and so does force.
Goes(old, sc, id, force) == (id = old.Id /\ sc.ids = <<>> /\ ~sc.contact) \/ force

\* Mutant: the user keeps the scope that goes.
DelUserNot(scopes, u) == scopes

\* del of the user, hard: no brain.
DelUser(scopes, u) == [k \in Key |-> IF k = u THEN None ELSE scopes[k]]

\* onLeft: the line goes, shows another session of the user, or his contact.
OnLeft(l, id, force, renamed) ==
    LET n    == l.scopes[id]
        old  == l.heap[n]
        sc   == Removed(old, id)
        gone == [l EXCEPT !.brain[id] = n, !.scopes[id] = None,
                          !.sessions = [s \in Session |-> IF s = id THEN None ELSE @[s]],
                          !.heap[n] = sc]
        u    == sc.Userid
    IN
    IF n = None THEN l
    ELSE IF Goes(old, sc, id, force)
    THEN [gone EXCEPT !.heap[n] = Destroy(@),
                      !.lefts   = IF sc.element THEN Left(l, id, n) ELSE @,
                      !.scopes  = DelUser(@, u)]
    ELSE IF Has(sc) THEN UpdateDisplay(gone, sc.Id, renamed)
    ELSE IF sc.contact THEN UpdateDisplay(gone, u, renamed)
    ELSE gone

\* refreshBuddies, once a frame: elements are removed and made.
Rendered(l) ==
    LET Lookup(id) == IF l.scopes[id] # None THEN l.scopes[id] ELSE l.brain[id] IN
    {Lookup(id) : id \in l.queue} \ ({None} \cup {n \in DOMAIN l.heap : l.heap[n].killed})

\* Leaving the room: what waits to be rendered is dropped, and all sessions leave, one by one.
OnClosed(l, order, renamed) ==
    FoldLeft(LAMBDA m, s : OnLeft(m, s, FALSE, renamed),
             [l EXCEPT !.queue = {}, !.dropped = @ \cup Rendered(l)], order)

OnContactAdded(l, u, renamed) ==
    LET n == l.scopes[u]
        m == OnJoined(l, u, u)
    IN
    IF n = None THEN [m EXCEPT !.heap[m.scopes[u]].contact = TRUE]
    ELSE LET c == [l EXCEPT !.heap[n].contact = TRUE] IN
         IF Has(c.heap[n]) THEN UpdateDisplay(c, c.heap[n].Id, renamed) ELSE c

\* Mutant: a contact without session stays.
OnContactRemovedStays(l, u, renamed) ==
    IF l.scopes[u] = None THEN l ELSE [l EXCEPT !.heap[l.scopes[u]].contact = FALSE]

OnContactRemoved(l, u, renamed) ==
    LET n == l.scopes[u]
        c == [l EXCEPT !.heap[n].contact = FALSE]
    IN
    IF n = None THEN l
    ELSE IF Has(c.heap[n]) THEN c ELSE OnLeft(c, u, TRUE, renamed)

-----------------------------------------------------------------------------
(* Events.                                                                 *)

Uid(s) == IF s \in signedIn' THEN Userid[s] ELSE None

\* A document tells the user of a session when it has signed in.
Tells(s) == signedIn' \in {signedIn, signedIn \cup {s}}

ScopeFree == Len(list.heap) < MaxScopes

\* Joined, or a line of Users; a session may be told twice.
Joined(s) ==
    /\ ScopeFree /\ Tells(s)
    /\ list' = OnJoined(list, s, Uid(s))
    /\ present' = present \cup {s}
    /\ UNCHANGED <<dom, contacts>>

Status(s, renamed) ==
    /\ s \in present /\ Tells(s)
    /\ list' = OnStatus(list, s, Uid(s), renamed)
    /\ UNCHANGED <<dom, present, contacts>>

LeftRoom(s, renamed) ==
    /\ s \in present
    /\ list' = OnLeft(list, s, FALSE, renamed)
    /\ present' = present \ {s}
    /\ UNCHANGED <<dom, signedIn, contacts>>

\* The event room.left, when the room changes or the connection ends.
RoomLeft(renamed) ==
    /\ \E order \in SetToSeqs({s \in Session : list.sessions[s] # None}) :
          list' = OnClosed(list, order, renamed)
    /\ present' = {}
    /\ UNCHANGED <<dom, signedIn, contacts>>

ContactAdded(u, renamed) ==
    /\ u \notin contacts /\ (list.scopes[u] = None => ScopeFree)
    /\ contacts' = contacts \cup {u}
    /\ list' = OnContactAdded(list, u, renamed)
    /\ UNCHANGED <<dom, present, signedIn>>

ContactRemoved(u, renamed) ==
    /\ u \in contacts
    /\ contacts' = contacts \ {u}
    /\ list' = OnContactRemoved(list, u, renamed)
    /\ UNCHANGED <<dom, present, signedIn>>

Frame ==
    /\ list.queue # {} \/ list.lefts # {}
    /\ dom' = (dom \ {e[2] : e \in list.lefts}) \cup Rendered(list)
    /\ list' = [list EXCEPT !.queue = {}, !.lefts = {},
                            !.heap = [n \in DOMAIN @ |->
                                IF n \in Rendered(list) THEN [@[n] EXCEPT !.element = TRUE] ELSE @[n]]]
    /\ UNCHANGED <<present, signedIn, contacts>>

Next ==
    \/ \E s \in Session : Joined(s)
    \/ \E renamed \in BOOLEAN :
          \/ \E s \in Session : Status(s, renamed) \/ LeftRoom(s, renamed)
          \/ \E u \in User : ContactAdded(u, renamed) \/ ContactRemoved(u, renamed)
          \/ RoomLeft(renamed)
    \/ Frame

Spec == Init /\ [][Next]_vars

-----------------------------------------------------------------------------
\* Types; a session is listed once, a scope with an element has it on the page.
TypeOK ==
    /\ present \subseteq Session /\ signedIn \subseteq Session /\ contacts \subseteq User
    /\ Len(list.heap) <= MaxScopes /\ dom \subseteq DOMAIN list.heap
    /\ list.scopes \in [Key -> {None} \cup DOMAIN list.heap]
    /\ list.brain \in [Key -> {None} \cup DOMAIN list.heap]
    /\ list.sessions \in [Session -> {None} \cup DOMAIN list.heap]
    /\ list.auth \subseteq Session /\ list.queue \subseteq Key
    /\ list.lefts \subseteq Key \X DOMAIN list.heap /\ list.dropped \subseteq DOMAIN list.heap
    /\ \A n \in DOMAIN list.heap : LET sc == list.heap[n] IN
        /\ sc.ids \in Seq(Session) /\ Cardinality(ToSet(sc.ids)) = Len(sc.ids)
        /\ sc.Id \in Key \cup {None} /\ sc.Userid \in User \cup {None}
        /\ sc.contact \in BOOLEAN /\ sc.killed \in BOOLEAN
        /\ sc.element => n \in dom /\ ~sc.killed

\* The frame has done all there is to do.
Settled == list.queue = {} /\ list.lefts = {}

\* Once the frame has done its work, each session of the room is in a line that is on the page,
\* however its user became known and whatever lines were merged: refreshBuddies and onJoined.
\* Lines dropped from the queue unrendered (onClosed, buddylist.js:576) are excepted: see
\* EverybodyIsAlwaysShown.
EverybodyIsShown ==
    Settled => \A s \in present :
        LET n == list.scopes[s] IN
        /\ n # None /\ ~list.heap[n].killed /\ s \in ToSet(list.heap[n].ids)
        /\ n \in dom \cup list.dropped

\* A line whose scope lives is a contact's, or leads to a session that is in the room: no ghosts
\* after Left, room.left or contactremoved (buddylist.js:516-648).
NobodyElseIsShown ==
    \A n \in dom :
        list.heap[n].killed \/ list.heap[n].contact \/ \E s \in present : list.scopes[s] = n

\* A user has one line, also when his sessions were shown before they signed in
\* (onBuddySessionUserid, buddylist.js:221-261).
OneLinePerUser ==
    Settled => \A m, n \in dom :
        m # n /\ ~list.heap[m].killed /\ ~list.heap[n].killed
        => list.heap[m].Userid = None \/ list.heap[m].Userid # list.heap[n].Userid

\* buddySession's table and buddyData agree, and know just the sessions that are here: onClosed
\* goes through the one and onLeft looks in the other (buddylist.js:580-586, 520).
SessionsKnown ==
    \A s \in Session : /\ list.sessions[s] = list.scopes[s]
                       /\ s \in present <=> list.sessions[s] # None

\* A contact keeps a scope that lives, through the comings and goings of his sessions
\* (buddylist.js:530, 550-562, 591-630).
ContactsStay ==
    \A u \in contacts : LET n == list.scopes[u] IN
        n # None /\ list.heap[n].contact /\ ~list.heap[n].killed

\* Not satisfied: room.left before the frame drops the line of a new contact, and sessions of the
\* user that come later share a line that was never made (buddylist.js:576).
EverybodyIsAlwaysShown ==
    Settled => \A s \in present : list.scopes[s] \in dom

\* Not satisfied, for the same reason.
ContactsAreShown ==
    Settled => \A u \in contacts : list.scopes[u] \in dom

\* Not satisfied: lefts has one element per id, and a line merged away and one that goes before
\* the same frame can have the same id: the first stays on the page (buddylist.js:251, 533).
RemovedLinesGo ==
    Settled => \A n \in dom : ~list.heap[n].killed
=============================================================================
