------------------------------- MODULE MCPeer -------------------------------
(* Finite instances of Peer. *)
EXTENDS Peer

CONSTANTS s1

MCOwner == [c \in Calls |-> s1]
=============================================================================
