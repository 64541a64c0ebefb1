----------------------------- MODULE MCBuddies -----------------------------
(***************************************************************************)
(* Instances of Buddies for TLC: whose sessions they are.                  *)
(***************************************************************************)
EXTENDS Buddies

CONSTANTS s1, s2, alice

OneUser == [s \in Session |-> alice]
=============================================================================
