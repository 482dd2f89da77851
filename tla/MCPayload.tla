----------------------------- MODULE MCPayload ------------------------------
(***************************************************************************)
(* An instance of Payload for TLC: a payload with a clone, or two payloads *)
(* that compete for the buffers of the pool.                               *)
(***************************************************************************)
EXTENDS Payload
=============================================================================
