------------------------------ MODULE MCCalls ------------------------------
(* Calls for model checking: who may call whom, and how often. *)
EXTENDS Calls

AllDials == Peer \X Peer
TwoEach  == [p \in Peer |-> 2]

\* 1 may call again and again, and 2, who is called, may call 3 meanwhile.
ChainDials == {<<1, 2>>, <<2, 3>>}
ChainCalls == <<3, 2, 1>>
=============================================================================
