------------------------------ MODULE MCRooms ------------------------------
(* Instances of Rooms for TLC: how many messages each connection sends. *)
EXTENDS Rooms

CONSTANTS a, b  \* two of the connections

MostlyA   == [s \in Session |-> IF s = a THEN 2 ELSE 1]
ThreeOfA  == [s \in Session |-> IF s = a THEN 3 ELSE 1]
=============================================================================
