-------------------------- MODULE MCCommandServer ---------------------------
(* Finite instances of CommandServer. *)
EXTENDS CommandServer

CONSTANTS n1, r1

MCNamespaceOf == [r \in Requests |-> n1]

(* A balanced call, and another request of any kind. *)
MCKinds ==
    {k \in [Requests -> {"unicast", "multicast", "balanced"}] : k[r1] = "balanced"}
=============================================================================
