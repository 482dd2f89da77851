---------------------------- MODULE StopChannels ----------------------------
(***************************************************************************)
(* service/statemachine.go: the three channels by which a service is told  *)
(* to stop and tells that it has.  A channel is never sent to, only        *)
(* closed: a receive from it is possible when, and for ever after, the     *)
(* variable is TRUE.                                                       *)
(***************************************************************************)
VARIABLES graceful,   \* the channel Graceful is closed
          forceful,   \* the channel Forceful is closed
          finalized   \* the channel Finalized is closed

stopVars == <<graceful, forceful, finalized>>

StopInit ==
    /\ graceful = FALSE
    /\ forceful = FALSE
    /\ finalized = FALSE

StopTypeOK ==
    /\ graceful \in BOOLEAN
    /\ forceful \in BOOLEAN
    /\ finalized \in BOOLEAN

Stop ==
    /\ ~forceful
    /\ forceful' = TRUE
    /\ UNCHANGED <<graceful, finalized>>

GracefulStop ==
    /\ ~forceful /\ ~graceful
    /\ graceful' = TRUE
    /\ UNCHANGED <<forceful, finalized>>

(* close(), once Run() has left its loop and the finalizer has returned. *)
Close ==
    /\ finalized' = TRUE
    /\ forceful' = TRUE
    /\ graceful' = TRUE
=============================================================================
