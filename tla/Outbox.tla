------------------------------- MODULE Outbox -------------------------------
(***************************************************************************)
(* What a connection promises to those who send over it, without pumps,    *)
(* locks, pings or shared buffers: messages are written in the order they  *)
(* were accepted, each at most once and as it was given; a message is      *)
(* refused when the connection is closed or too much waits; only closing   *)
(* loses what was accepted, and it loses the end of it.                    *)
(***************************************************************************)
EXTENDS Naturals, Sequences

CONSTANTS Conn, Message, Limit  \* messages a connection holds, the one being written included

VARIABLES open,     \* whether a connection accepts messages
          pending   \* what it accepted and has not written

vars == <<open, pending>>

Init ==
    /\ open = [c \in Conn |-> TRUE]
    /\ pending = [c \in Conn |-> <<>>]

Accept(c, m) ==
    /\ open[c] /\ Len(pending[c]) < Limit
    /\ pending' = [pending EXCEPT ![c] = Append(@, m)]
    /\ UNCHANGED open

Write(c) ==
    /\ pending[c] # <<>>
    /\ pending' = [pending EXCEPT ![c] = Tail(@)]
    /\ UNCHANGED open

\* The connection is closed, or goes on closing: it keeps a first part of what
\* it has to write.
Close(c) ==
    /\ open' = [open EXCEPT ![c] = FALSE]
    /\ \E n \in 0 .. Len(pending[c]) : pending' = [pending EXCEPT ![c] = SubSeq(@, 1, n)]

Next == \E c \in Conn : Close(c) \/ Write(c) \/ \E m \in Message : Accept(c, m)

Spec == Init /\ [][Next]_vars
=============================================================================
