----------------------------- MODULE MCListener -----------------------------
(***************************************************************************)
(* Instances of Listener for TLC: two goroutines that use one session.     *)
(***************************************************************************)
EXTENDS Listener
=============================================================================
