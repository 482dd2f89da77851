---------------------------- MODULE StateMachine ----------------------------
(***************************************************************************)
(* service/statemachine.go: Do(), by which other goroutines have the       *)
(* goroutine at the heart of a service execute a function.  Callers are    *)
(* goroutines that use Do().  What the states of a service do, and what    *)
(* the functions do, is up to the module of the service.                   *)
(***************************************************************************)
EXTENDS StopChannels

CONSTANTS Callers

VARIABLES do          \* how far each caller is in Do()

DoPhases == {"none", "offered", "accepted", "replied"}

SMInit ==
    /\ StopInit
    /\ do = [c \in Callers |-> "none"]

SMTypeOK ==
    /\ StopTypeOK
    /\ do \in [Callers -> DoPhases]

InPhase(c, p) == do' = [do EXCEPT ![c] = p]

-----------------------------------------------------------------------------
(* Fault: Do() does not give up on a graceful stop. *)
IsStoppedForGood == forceful \/ finalized

(* Each select of Do() may take a stop rather than the request or its reply. *)
IsStopping == graceful \/ forceful \/ finalized

(* DoGraceful() ignores the first of them. *)
IsHalted == forceful \/ finalized

DoOffer(c)  == do[c] = "none" /\ InPhase(c, "offered")
DoAccept(c) == do[c] = "offered" /\ InPhase(c, "accepted")

(* Execute(): the reply channel is buffered, so a caller that has left does not
   block it. *)
DoReply(c) ==
    IF do[c] = "accepted" THEN InPhase(c, "replied") ELSE UNCHANGED do

DoReturn(c) ==
    /\ do[c] = "replied"
    /\ InPhase(c, "none")

(* ErrStopped, whether or not the request has been accepted or executed. *)
DoRefuse(c) ==
    /\ do[c] # "none"
    /\ IsStopping
    /\ InPhase(c, "none")
=============================================================================
