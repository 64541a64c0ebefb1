------------------------- MODULE MCSessionRegistry -------------------------
(***************************************************************************)
(* Instances of SessionRegistry for TLC: who has which session id and      *)
(* user, and who may ask for whose sessions.                               *)
(***************************************************************************)
EXTENDS SessionRegistry, TLC

CONSTANTS a, b, x, i, j, k, alice, bob, carol

\* Everybody takes over the same session.
OneId   == [c \in Conn |-> i]
OneUser == [c \in Conn |-> alice]
Nobody  == {}

\* b, with or without a user, takes over the session of a; x has another, and alice for a
\* contact.
SharedId == a :> i @@ b :> i @@ x :> k
TwoUsers == a :> alice @@ b :> alice @@ x :> bob
OneWay   == {<<x, alice>>}

\* Three sessions, of two users or of three; the contacts are mutual in part.
OwnId      == a :> i @@ b :> j @@ x :> k
ThreeUsers == a :> alice @@ b :> carol @@ x :> bob
Mutual     == {<<x, alice>>, <<a, bob>>, <<b, bob>>}
=============================================================================
