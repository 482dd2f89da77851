-------------------------------- MODULE Peer --------------------------------
(***************************************************************************)
(* rinqamqp/peer.go: a peer's life, from its first session to the end of   *)
(* its stop, with its invoker (module Invoker), its local sessions and     *)
(* localsession.Store, which they share.  The peer's other services        *)
(* (remote store, server and listener) are known by their Done channels;   *)
(* modules Listener and CommandServer are about what they do.              *)
(*                                                                         *)
(* What can go wrong is in the locks: finalize() holds the store's read    *)
(* lock while it waits for sessions, which wait for their calls, which     *)
(* may wait for the invoker, which reads the store, which it cannot while  *)
(* a writer waits for finalize().                                          *)
(***************************************************************************)
EXTENDS Invoker

CONSTANTS Owner    \* the session that makes each call

ASSUME OwnerAssumption == Owner \in [Calls -> Sessions]

VARIABLES pState,                              \* the state of the peer's state machine
          pGraceful, pForceful, pFinalized,    \* its channels, as in StopChannels
          sess,         \* how far each session is in its life
          store,        \* localStore.sessions
          removing,     \* the sessions whose goroutine is at Remove()
          todo,         \* the sessions that Each() has not come to
          waitingFor    \* the session for whose Done Each() waits

peerStopVars == <<pGraceful, pForceful, pFinalized>>
sessionVars  == <<sess, store, removing>>
eachVars     == <<todo, waitingFor>>
peerVars     == <<invokerVars, pState, peerStopVars, sessionVars, eachVars>>

peerOnlyVars == <<pState, peerStopVars, sessionVars, eachVars>>

PeerStates == {"run", "graceful", "finalize", "locking", "each", "waitAll", "stopped"}
Lives      == {"none", "adding", "live", "destroyed", "done"}

PeerStop == INSTANCE StopChannels
    WITH graceful <- pGraceful, forceful <- pForceful, finalized <- pFinalized

PeerInit ==
    /\ InvokerInit
    /\ PeerStop!StopInit
    /\ pState = "run"
    /\ sess = [s \in Sessions |-> "none"]
    /\ store = {}
    /\ removing = {}
    /\ todo = {}
    /\ waitingFor = Nobody

-----------------------------------------------------------------------------
(***************************************************************************)
(* The store's sync.RWMutex.  Each() is the one reader that holds it for   *)
(* long; a writer that waits keeps new readers out.                        *)
(***************************************************************************)
IsLocked  == pState = "each"
IsClaimed == removing # {} \/ \E s \in Sessions : sess[s] = "adding"

Becomes(s, l) == sess' = [sess EXCEPT ![s] = l]

-----------------------------------------------------------------------------
(***************************************************************************)
(* Sessions.                                                               *)
(***************************************************************************)
(* Session(), which a stop does not prevent, *)
NewSession(s) ==
    /\ sess[s] = "none"
    /\ Becomes(s, "adding")
    /\ UNCHANGED <<invokerVars, pState, peerStopVars, store, removing, eachVars>>

(* localStore.Add() *)
Add(s) ==
    /\ sess[s] = "adding"
    /\ ~IsLocked
    /\ Becomes(s, "live")
    /\ store' = store \cup {s}
    /\ UNCHANGED <<invokerVars, pState, peerStopVars, removing, eachVars>>

(* Session.Destroy() *)
Destroy(s) == IF sess[s] = "live" THEN Becomes(s, "destroyed") ELSE UNCHANGED sess

DestroySession(s) ==
    /\ sess[s] = "live"
    /\ Destroy(s)
    /\ UNCHANGED <<invokerVars, pState, peerStopVars, store, removing, eachVars>>

(* Fault: Done is closed although calls are in progress. *)
CloseDoneAtOnce(s) ==
    /\ sess[s] = "destroyed"
    /\ Becomes(s, "done")
    /\ UNCHANGED <<invokerVars, pState, peerStopVars, store, removing, eachVars>>

(* The goroutine of destroy() waits for the session's calls. *)
CloseDone(s) ==
    /\ sess[s] = "destroyed"
    /\ \A c \in Calls : Owner[c] = s => ~InProgress(c)
    /\ Becomes(s, "done")
    /\ UNCHANGED <<invokerVars, pState, peerStopVars, store, removing, eachVars>>

(* The goroutine of Session() waits for Done, then for the store's lock. *)
BeginRemove(s) ==
    /\ sess[s] = "done"
    /\ s \in store \ removing
    /\ removing' = removing \cup {s}
    /\ UNCHANGED <<invokerVars, pState, peerStopVars, sess, store, eachVars>>

Remove(s) ==
    /\ s \in removing
    /\ ~IsLocked
    /\ removing' = removing \ {s}
    /\ store' = store \ {s}
    /\ UNCHANGED <<invokerVars, pState, peerStopVars, sess, eachVars>>

(* What sessions have the invoker do, until they are destroyed: Call(), CallAsync()
   and the like. *)
SessionCalls(c) == sess[Owner[c]] = "live" /\ BeginCall(c)
SessionSends(s) == sess[s] = "live" /\ Send(s)

(* The invoker reads the store. *)
GetSession == ~IsClaimed /\ LookUp

-----------------------------------------------------------------------------
(***************************************************************************)
(* The peer's state machine.                                               *)
(***************************************************************************)
PeerEnters(s) == pState' = s /\ UNCHANGED <<peerStopVars, sessionVars, eachVars>>

(* run(), and with it the first step of graceful() *)
PeerGraceful ==
    /\ pState = "run"
    /\ pGraceful
    /\ PeerEnters("graceful")
    /\ IF forceful \/ graceful THEN UNCHANGED stopVars ELSE GracefulStop
    /\ UNCHANGED <<machineVars, callVars, brokerVars>>

(* run() and graceful() *)
PeerLeaves ==
    /\ \/ pState = "run" /\ finalized
       \/ pState \in {"run", "graceful"} /\ pForceful
    /\ PeerEnters("finalize")
    /\ UNCHANGED invokerVars

(* graceful() has seen the other services stop as well, ... *)
AllStopped ==
    /\ pState = "graceful" /\ finalized
    /\ PeerEnters("finalize")
    /\ UNCHANGED invokerVars

(* ... and run() and graceful() also go on when the connection to the broker is
   lost, run() when another service has stopped. *)
PeerFails ==
    /\ pState \in {"run", "graceful"}
    /\ PeerEnters("finalize")
    /\ UNCHANGED invokerVars

(* Fault: finalize() leaves the invoker alone. *)
PeerStopsOthers ==
    /\ pState = "finalize"
    /\ PeerEnters("locking")
    /\ UNCHANGED invokerVars

(* finalize() stops all services, *)
PeerStopsServices ==
    /\ pState = "finalize"
    /\ PeerEnters("locking")
    /\ IF forceful THEN UNCHANGED stopVars ELSE Stop
    /\ UNCHANGED <<machineVars, callVars, brokerVars>>

(* destroys one session after the other under the store's read lock, *)
BeginEach ==
    /\ pState = "locking"
    /\ ~IsClaimed
    /\ pState' = "each"
    /\ todo' = store
    /\ UNCHANGED <<invokerVars, peerStopVars, sessionVars, waitingFor>>

EachDestroys(s) ==
    /\ pState = "each" /\ waitingFor = Nobody
    /\ s \in todo
    /\ Destroy(s)
    /\ todo' = todo \ {s}
    /\ waitingFor' = s
    /\ UNCHANGED <<invokerVars, pState, peerStopVars, store, removing>>

EachGoesOn ==
    /\ pState = "each" /\ waitingFor # Nobody
    /\ sess[waitingFor] = "done"
    /\ waitingFor' = Nobody
    /\ UNCHANGED <<invokerVars, pState, peerStopVars, sessionVars, todo>>

EndEach ==
    /\ pState = "each" /\ waitingFor = Nobody
    /\ todo = {}
    /\ PeerEnters("waitAll")
    /\ UNCHANGED invokerVars

(* waits for the services and closes the connection; Run() closes Done. *)
PeerFinalizes ==
    /\ pState = "waitAll"
    /\ finalized
    /\ pState' = "stopped"
    /\ PeerStop!Close
    /\ UNCHANGED <<invokerVars, sessionVars, eachVars>>

-----------------------------------------------------------------------------
(***************************************************************************)
(* The rest of the world.                                                  *)
(***************************************************************************)
StopPeer ==
    /\ PeerStop!Stop \/ PeerStop!GracefulStop
    /\ UNCHANGED <<invokerVars, pState, sessionVars, eachVars>>

-----------------------------------------------------------------------------
PeerGoesOn ==
    \/ PeerGraceful \/ PeerLeaves \/ PeerStopsServices
    \/ BeginEach \/ (\E s \in Sessions : EachDestroys(s)) \/ EachGoesOn \/ EndEach
    \/ PeerFinalizes

StoreGoesOn(s) == Add(s) \/ CloseDone(s) \/ BeginRemove(s) \/ Remove(s)

(* The steps of the invoker and of its callers, but for those above. *)
InvokerGoesOn ==
    \/ \E c \in Calls : SessionCalls(c) \/ CallerGoesOn(c) \/ Expire(c) \/ Answer(c)
    \/ \E s \in Async : SessionSends(s)
    \/ Replies \/ MachineStops \/ GetSession \/ ChannelFails

PeerNext ==
    \/ PeerGoesOn
    \/ \E s \in Sessions : NewSession(s) \/ StoreGoesOn(s) \/ DestroySession(s)
    \/ InvokerGoesOn /\ UNCHANGED peerOnlyVars
    \/ AllStopped \/ PeerFails \/ StopPeer

(* Every goroutine that can go on does.  A select that is offered one thing time
   and again takes it: thus the invoker gets round to a stop and to a caller that
   wants to leave.  Contexts expire.  A service that is stopped for good stops;
   one that is stopped gracefully may wait for a handler for ever. *)
PeerFairness ==
    /\ WF_peerVars(PeerGoesOn)
    /\ \A s \in Sessions : WF_peerVars(StoreGoesOn(s))
    /\ \A c \in Calls :
          /\ WF_peerVars((CallerGoesOn(c) \/ Expire(c)) /\ UNCHANGED peerOnlyVars)
          /\ SF_peerVars(Cancel(c) /\ UNCHANGED peerOnlyVars)
    /\ WF_peerVars((Replies \/ GetSession) /\ UNCHANGED peerOnlyVars)
    /\ SF_peerVars(MachineStops /\ UNCHANGED peerOnlyVars)

PeerSpec == PeerInit /\ [][PeerNext]_peerVars
PeerFairSpec == PeerSpec /\ PeerFairness

-----------------------------------------------------------------------------
(***************************************************************************)
(* Properties.                                                             *)
(***************************************************************************)

(* Every variable keeps its type. *)
PeerTypeOK ==
    /\ InvokerTypeOK
    /\ PeerStop!StopTypeOK
    /\ pState \in PeerStates
    /\ sess \in [Sessions -> Lives]
    /\ store \subseteq Sessions
    /\ removing \subseteq store
    /\ todo \subseteq Sessions
    /\ waitingFor \in Sessions \cup {Nobody}

(* rinq/session.go:167: "All sessions are destroyed when their owning peer is
   stopped."  When finalize() is done with the sessions, each that is in the store
   is destroyed and none of its calls is in progress: whichever sessions were
   made, destroyed or removed while it was at it. *)
SessionsEndFirst ==
    [][(pState = "each" /\ pState' = "waitAll") =>
          \A s \in store :
              /\ sess[s] = "done"
              /\ \A c \in Calls : Owner[c] = s => ~InProgress(c)]_peerVars

(* Stop() always ends.  So does what a graceful stop or the loss of the invoker
   sets off, but for the wait of graceful() for the other services. *)
StopCompletes ==
    (pGraceful \/ pForceful \/ finalized) ~>
        (pFinalized \/ (pState = "graceful" /\ finalized /\ ~pForceful))
=============================================================================
