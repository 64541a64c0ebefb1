--------------------------- MODULE RoomDirectory ---------------------------
(***************************************************************************)
(* What the room manager promises, without workers, channels or tables: a  *)
(* room is open or not; an open room has members and perhaps a PIN; a      *)
(* session asks for one thing at a time, and only what was asked happens.  *)
(***************************************************************************)
CONSTANTS Session, Room, PIN,
          NoPIN,    \* no credentials; the room requires none
          EmptyPIN  \* credentials with an empty PIN

VARIABLES open,     \* the open rooms
          members,  \* the members of every room
          pin,      \* the PIN of every room
          asking    \* what every session asks for: at most one request

vars == <<open, members, pin, asking>>

Request == [op : {"join", "update"}, room : Room, cred : PIN \cup {NoPIN, EmptyPIN}]

\* The PIN a room has from then on.
Required(c) == IF c \in PIN THEN c ELSE NoPIN

Init ==
    /\ open = {}
    /\ members = [r \in Room |-> {}]
    /\ pin = [r \in Room |-> NoPIN]
    /\ asking = [s \in Session |-> {}]

\* s makes a request or is done with one.
Ask(s) ==
    /\ \E qs \in {{}} \cup {{q} : q \in Request} : asking' = [asking EXCEPT ![s] = qs]
    /\ UNCHANGED <<open, members, pin>>

\* A room opens for a session that asks to join it, with the PIN it gives, and
\* nobody in it.
Open(q) ==
    /\ q.op = "join" /\ q.room \notin open
    /\ open' = open \cup {q.room}
    /\ pin'  = [pin EXCEPT ![q.room] = Required(q.cred)]
    /\ UNCHANGED <<members, asking>>

\* Who joins gives the PIN of the moment, or none when there is none.
Join(s, q) ==
    /\ q.op = "join" /\ q.room \in open /\ q.cred = pin[q.room]
    /\ members' = [members EXCEPT ![q.room] = @ \cup {s}]
    /\ UNCHANGED <<open, pin, asking>>

\* Only a member sets or removes the PIN.
SetPIN(s, q) ==
    /\ q.op = "update" /\ q.room \in open /\ q.cred # NoPIN
    /\ s \in members[q.room]
    /\ pin' = [pin EXCEPT ![q.room] = Required(q.cred)]
    /\ UNCHANGED <<open, members, asking>>

Leave(s, r) ==
    /\ r \in open
    /\ members' = [members EXCEPT ![r] = @ \ {s}]
    /\ UNCHANGED <<open, pin, asking>>

\* A room closes when it is empty, and its PIN is forgotten.
Reclaim(r) ==
    /\ r \in open /\ members[r] = {}
    /\ open' = open \ {r}
    /\ pin'  = [pin EXCEPT ![r] = NoPIN]
    /\ UNCHANGED <<members, asking>>

Next ==
    \/ \E s \in Session :
           \/ Ask(s)
           \/ \E q \in asking[s] : Open(q) \/ Join(s, q) \/ SetPIN(s, q)
           \/ \E r \in Room : Leave(s, r)
    \/ \E r \in Room : Reclaim(r)

Spec == Init /\ [][Next]_vars

=============================================================================
