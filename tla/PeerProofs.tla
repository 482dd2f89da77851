----------------------------- MODULE PeerProofs -----------------------------
(***************************************************************************)
(* Proofs about Invoker and Peer, for any number of calls, sessions and    *)
(* replies: no call of an invoker is leaked or cut short, a peer uses its  *)
(* invoker as module Invoker has it, and its stop leaves no session behind.*)
(***************************************************************************)
EXTENDS Peer, TLAPS

(* What the state machine and the callers know of one another:  the Reply channel
   of a pending call has not been touched, *)
PendingUntouched ==
    \A c \in pending : c \notin full \cup closed /\ replying # c

(* nor has that of a call that has not been tracked, which is not pending, *)
UntrackedUntouched ==
    \A c \in Calls :
        caller[c] \in {"idle", "tracking"} => c \notin pending \cup full \cup closed /\ replying # c

(* a caller leaves its entry behind only when it sees Forceful closed, *)
EndedForgotten ==
    \A c \in Calls : caller[c] = "ended" /\ c \in pending => forceful

(* and one that waits, or is about to, is in the map or has its reply. *)
WaitingServed ==
    \A c \in Calls : caller[c] \in {"publishing", "waiting"} => c \in pending \cup full

InvokerInv ==
    /\ InvokerTypeOK
    /\ PendingUntouched
    /\ UntrackedUntouched
    /\ EndedForgotten
    /\ WaitingServed

USE NobodyAssumption, AsyncAssumption, MaxRepliesAssumption

(* No call is tracked at first. *)
LEMMA InvokerInvInit == InvokerInit => InvokerInv
  <1> SUFFICES ASSUME InvokerInit
               PROVE  InvokerInv
    OBVIOUS
  <1>1. InvokerTypeOK
    BY DEF InvokerInit, InvokerTypeOK, StopInit, StopTypeOK, States, Places
  <1>2. PendingUntouched /\ UntrackedUntouched
    BY DEF InvokerInit, PendingUntouched, UntrackedUntouched
  <1>3. EndedForgotten /\ WaitingServed
    BY DEF InvokerInit, EndedForgotten, WaitingServed
  <1> QED
    BY <1>1, <1>2, <1>3 DEF InvokerInv

(* The steps of a caller keep the invariant. *)
LEMMA InvokerInvCaller ==
  ASSUME InvokerInv, NEW c \in Calls,
         BeginCall(c) \/ CallerGoesOn(c) \/ Expire(c) \/ Answer(c)
  PROVE  InvokerInv'
  <1> USE DEF InvokerInv, InvokerTypeOK, StopTypeOK, States, Places, Senders,
              PendingUntouched, UntrackedUntouched, EndedForgotten, WaitingServed,
              stopVars, machineVars, brokerVars, Moves, Returns
  <1>1. CASE BeginCall(c)
    BY <1>1 DEF BeginCall
  <1>2. CASE Track(c)
    BY <1>2 DEF Track, IsReceiving, IsFree
  <1>3. CASE GiveUp(c)
    BY <1>3 DEF GiveUp
  <1>4. CASE Publish(c)
    BY <1>4 DEF Publish
  <1>5. CASE PublishFails(c)
    BY <1>5 DEF PublishFails
  <1>6. CASE Receive(c)
    BY <1>6 DEF Receive
  <1>7. CASE Abandon(c)
    BY <1>7 DEF Abandon
  <1>8. CASE Leave(c)
    BY <1>8 DEF Leave
  <1>9. CASE Cancel(c)
    BY <1>9 DEF Cancel
  <1>10. CASE CancelStopped(c)
    BY <1>10 DEF CancelStopped
  <1>11. CASE Expire(c)
    BY <1>11 DEF Expire
  <1>12. CASE Answer(c)
    <2>1. inbox' \in [Senders -> Nat]
      BY <1>12 DEF Answer
    <2>2. UNCHANGED <<stopVars, machineVars, callVars, channelOpen>>
      BY <1>12 DEF Answer
    <2> QED
      BY <2>1, <2>2 DEF callVars
  <1> QED
    BY <1>1, <1>2, <1>3, <1>4, <1>5, <1>6, <1>7, <1>8, <1>9, <1>10, <1>11, <1>12 DEF CallerGoesOn

(* So do the state machine's, *)
LEMMA InvokerInvMachine ==
  ASSUME InvokerInv, Replies \/ LookUp \/ MachineStops
  PROVE  InvokerInv'
  <1> USE DEF InvokerInv, InvokerTypeOK, StopTypeOK, States, Places, Senders,
              PendingUntouched, UntrackedUntouched, EndedForgotten, WaitingServed,
              stopVars, machineVars, callVars, brokerVars
  <1>1. ASSUME NEW c \in Calls, ReplySync(c)
        PROVE  InvokerInv'
    BY <1>1 DEF ReplySync, TakeFrom, IsReceiving, IsFree
  <1>2. ASSUME NEW c \in Calls, RejectReply(c)
        PROVE  InvokerInv'
    BY <1>2 DEF RejectReply, TakeFrom
  <1>3. CASE CloseReply
    BY <1>3 DEF CloseReply
  <1>4. ASSUME NEW s \in Async, ReplyAsync(s)
        PROVE  InvokerInv'
    BY <1>4 DEF ReplyAsync, TakeFrom
  <1>5. CASE LookUp
    BY <1>5 DEF LookUp
  <1>6. CASE LeaveRun
    BY <1>6 DEF LeaveRun, Enters
  <1>7. CASE LeaveGraceful
    BY <1>7 DEF LeaveGraceful, Enters
  <1>8. CASE CloseChannel
    BY <1>8 DEF CloseChannel
  <1>9. CASE Finalize
    BY <1>9 DEF Finalize, Close
  <1> QED
    BY <1>1, <1>2, <1>3, <1>4, <1>5, <1>6, <1>7, <1>8, <1>9 DEF Replies, MachineStops

(* and all others. *)
LEMMA InvokerInvNext ==
  ASSUME InvokerInv, [InvokerNext]_invokerVars
  PROVE  InvokerInv'
  <1> USE DEF InvokerInv, InvokerTypeOK, StopTypeOK, States, Places, Senders,
              PendingUntouched, UntrackedUntouched, EndedForgotten, WaitingServed,
              stopVars, machineVars, callVars, brokerVars
  <1>1. ASSUME NEW c \in Calls, BeginCall(c) \/ CallerGoesOn(c) \/ Expire(c) \/ Answer(c)
        PROVE  InvokerInv'
    BY <1>1, InvokerInvCaller
  <1>2. ASSUME NEW s \in Async, Send(s)
        PROVE  InvokerInv'
    BY <1>2 DEF Send
  <1>3. CASE Replies \/ LookUp \/ MachineStops
    BY <1>3, InvokerInvMachine
  <1>4. CASE ChannelFails
    BY <1>4 DEF ChannelFails
  <1>5. CASE StopInvoker
    BY <1>5 DEF StopInvoker, Stop, GracefulStop
  <1>6. CASE UNCHANGED invokerVars
    BY <1>6 DEF invokerVars
  <1> QED
    BY <1>1, <1>2, <1>3, <1>4, <1>5, <1>6 DEF InvokerNext

(* The invariant holds. *)
LEMMA InvokerInvAlways == InvokerSpec => []InvokerInv
  BY InvokerInvInit, InvokerInvNext, PTL DEF InvokerSpec

-----------------------------------------------------------------------------
(* Every variable of the invoker keeps its type. *)
THEOREM InvokerTypeCorrect == InvokerSpec => []InvokerTypeOK
  <1>1. InvokerInv => InvokerTypeOK
    BY DEF InvokerInv
  <1> QED
    BY <1>1, InvokerInvAlways, PTL

(* replySync() always finds the Reply channel of a pending call open and empty,
   and i.pending leaks no call, however many calls there are and however often
   they are answered. *)
THEOREM PendingCallsStayOpen == InvokerSpec => []PendingCallsAreOpen
  <1>1. InvokerInv => PendingCallsAreOpen
    BY DEF InvokerInv, InvokerTypeOK, Places, PendingUntouched, UntrackedUntouched, EndedForgotten,
           PendingCallsAreOpen
  <1> QED
    BY <1>1, InvokerInvAlways, PTL

(* A graceful stop of the invoker cuts no call short. *)
THEOREM GracefulStopWaits == InvokerSpec => GracefulStopWaitsForCalls
  <1>1. InvokerInv /\ [InvokerNext]_invokerVars =>
          [(state = "graceful" /\ state' = "forceful" /\ ~forceful) =>
              \A c \in Calls : caller[c] \in {"publishing", "waiting"} => c \in full]_invokerVars
    <2> SUFFICES ASSUME InvokerInv, InvokerNext,
                        state = "graceful", state' = "forceful", ~forceful
                 PROVE  pending = {}
      BY DEF InvokerInv, WaitingServed
    <2>1. CASE LeaveGraceful
      BY <2>1 DEF LeaveGraceful, Enters
    <2>2. CASE LeaveRun \/ CloseChannel \/ Finalize
      BY <2>2 DEF LeaveRun, CloseChannel, Finalize
    <2>3. ASSUME NEW c \in Calls, BeginCall(c) \/ CallerGoesOn(c) \/ Expire(c) \/ Answer(c)
          PROVE  FALSE
      BY <2>3 DEF BeginCall, CallerGoesOn, Expire, Answer, Track, GiveUp, Publish, PublishFails,
                  Receive, Abandon, Leave, Cancel, CancelStopped, machineVars
    <2>4. CASE Replies \/ LookUp
      BY <2>4 DEF Replies, ReplySync, RejectReply, ReplyAsync, TakeFrom, CloseReply, LookUp
    <2>5. CASE ChannelFails \/ StopInvoker \/ \E s \in Async : Send(s)
      BY <2>5 DEF ChannelFails, StopInvoker, Send, machineVars
    <2> QED
      BY <2>1, <2>2, <2>3, <2>4, <2>5 DEF InvokerNext, MachineStops
  <1> QED
    BY <1>1, InvokerInvAlways, PTL DEF InvokerSpec, GracefulStopWaitsForCalls

-----------------------------------------------------------------------------
(***************************************************************************)
(* The peer.                                                               *)
(***************************************************************************)

(* A step of the peer is one of its invoker, or leaves the invoker alone. *)
LEMMA PeerStepIsInvokerStep ==
  ASSUME [PeerNext]_peerVars
  PROVE  [InvokerNext]_invokerVars
  <1>1. CASE PeerGraceful
    BY <1>1 DEF PeerGraceful, PeerEnters, InvokerNext, StopInvoker, invokerVars,
                stopVars, machineVars, callVars, brokerVars
  <1>2. CASE PeerStopsServices
    BY <1>2 DEF PeerStopsServices, PeerEnters, InvokerNext, StopInvoker, invokerVars,
                stopVars, machineVars, callVars, brokerVars
  <1>3. CASE InvokerGoesOn
    BY <1>3 DEF InvokerGoesOn, SessionCalls, SessionSends, GetSession, InvokerNext
  <1>4. CASE PeerLeaves \/ BeginEach \/ EachGoesOn \/ EndEach \/ PeerFinalizes
    BY <1>4 DEF PeerLeaves, BeginEach, EachGoesOn, EndEach, PeerFinalizes, invokerVars
  <1>5. ASSUME NEW s \in Sessions,
               EachDestroys(s) \/ NewSession(s) \/ StoreGoesOn(s) \/ DestroySession(s)
        PROVE  UNCHANGED invokerVars
    BY <1>5 DEF EachDestroys, NewSession, StoreGoesOn, Add, CloseDone, BeginRemove, Remove,
                DestroySession
  <1>6. CASE AllStopped \/ PeerFails \/ StopPeer
    BY <1>6 DEF AllStopped, PeerFails, StopPeer
  <1>7. CASE UNCHANGED peerVars
    BY <1>7 DEF peerVars
  <1> QED
    BY <1>1, <1>2, <1>3, <1>4, <1>5, <1>6, <1>7 DEF PeerNext, PeerGoesOn

(* Whatever sessions, store and stops do, the peer's invoker behaves as an invoker
   does. *)
THEOREM PeerImplementsInvoker == PeerSpec => InvokerSpec
  <1>1. PeerInit => InvokerInit
    BY DEF PeerInit
  <1> QED
    BY <1>1, PeerStepIsInvokerStep, PTL DEF PeerSpec, InvokerSpec

(* So what is proved of invokers holds of it: no pending call of a peer is leaked
   or has a Reply channel that is closed or full, *)
THEOREM PeerCallsStayOpen == PeerSpec => []PendingCallsAreOpen
  BY PeerImplementsInvoker, PendingCallsStayOpen, PTL

(* and a graceful stop of the peer cuts no call short. *)
THEOREM PeerStopWaitsForCalls == PeerSpec => GracefulStopWaitsForCalls
  BY PeerImplementsInvoker, GracefulStopWaits, PTL

-----------------------------------------------------------------------------
(* The calls of a session whose Done is closed have ended, *)
DoneIsQuiet ==
    \A s \in Sessions : sess[s] = "done" =>
        \A c \in Calls : Owner[c] = s => ~InProgress(c)

(* and Each() has yet to come to a session of the store, is at it, or has seen it
   done. *)
EachMissesNone ==
    pState = "each" =>
        \A s \in store : s \in todo \/ s = waitingFor \/ sess[s] = "done"

PeerInv ==
    /\ PeerTypeOK
    /\ DoneIsQuiet
    /\ EachMissesNone

USE OwnerAssumption, NobodyAssumption

(* There are no sessions at first. *)
LEMMA PeerInvInit == PeerInit => PeerInv
  <1> SUFFICES ASSUME PeerInit
               PROVE  PeerInv
    OBVIOUS
  <1>1. InvokerTypeOK
    BY InvokerInvInit DEF PeerInit, InvokerInv
  <1>2. PeerTypeOK
    BY <1>1 DEF PeerInit, PeerTypeOK, PeerStop!StopInit, PeerStop!StopTypeOK, PeerStates, Lives
  <1> QED
    BY <1>2 DEF PeerInit, PeerInv, DoneIsQuiet, EachMissesNone

(* Only a live session starts a call, so that the invoker's steps keep DoneIsQuiet. *)
LEMMA PeerInvInvoker ==
  ASSUME PeerInv, InvokerTypeOK', InvokerGoesOn, UNCHANGED peerOnlyVars
  PROVE  PeerInv'
  <1>1. PeerTypeOK'
    BY DEF PeerInv, PeerTypeOK, PeerStop!StopTypeOK, peerOnlyVars, peerStopVars, sessionVars, eachVars
  <1>2. EachMissesNone'
    BY DEF PeerInv, EachMissesNone, peerOnlyVars, sessionVars, eachVars
  <1>3. ASSUME NEW d \in Calls, ~InProgress(d), sess[Owner[d]] # "live"
        PROVE  ~InProgress(d)'
    <2> USE DEF PeerInv, PeerTypeOK, InvokerTypeOK, InProgress
    <2>1. ASSUME NEW c \in Calls, SessionCalls(c) \/ Expire(c) \/ Answer(c)
          PROVE  ~InProgress(d)'
      BY <1>3, <2>1 DEF SessionCalls, BeginCall, Expire, Answer, Moves, callVars
    <2>2. ASSUME NEW c \in Calls, CallerGoesOn(c)
          PROVE  ~InProgress(d)'
      BY <1>3, <2>2 DEF CallerGoesOn, Track, GiveUp, Publish, PublishFails, Receive, Abandon,
                        Leave, Cancel, CancelStopped, Moves, Returns
    <2>3. CASE Replies \/ GetSession
      BY <1>3, <2>3 DEF Replies, ReplySync, RejectReply, ReplyAsync, TakeFrom, CloseReply,
                        GetSession, LookUp, callVars
    <2>4. CASE MachineStops
      BY <1>3, <2>4 DEF MachineStops, LeaveRun, LeaveGraceful, CloseChannel, Finalize, Enters, callVars
    <2>5. CASE ChannelFails \/ \E s \in Async : SessionSends(s)
      BY <1>3, <2>5 DEF ChannelFails, SessionSends, Send, callVars
    <2> QED
      BY <2>1, <2>2, <2>3, <2>4, <2>5 DEF InvokerGoesOn
  <1>4. DoneIsQuiet'
    BY <1>3 DEF PeerInv, DoneIsQuiet, peerOnlyVars, sessionVars
  <1> QED
    BY <1>1, <1>2, <1>4 DEF PeerInv

(* The steps of sessions keep the invariant: the store does not change while
   Each() has it locked. *)
LEMMA PeerInvSessions ==
  ASSUME PeerInv, InvokerTypeOK', NEW s \in Sessions,
         NewSession(s) \/ StoreGoesOn(s) \/ DestroySession(s)
  PROVE  PeerInv'
  <1> USE DEF PeerInv, PeerTypeOK, PeerStop!StopTypeOK, Lives, DoneIsQuiet, EachMissesNone, InProgress,
              Becomes, peerStopVars, eachVars, invokerVars, callVars, IsLocked
  <1>1. CASE NewSession(s)
    BY <1>1 DEF NewSession
  <1>2. CASE Add(s)
    BY <1>2 DEF Add
  <1>3. CASE CloseDone(s)
    BY <1>3 DEF CloseDone
  <1>4. CASE BeginRemove(s)
    BY <1>4 DEF BeginRemove
  <1>5. CASE Remove(s)
    BY <1>5 DEF Remove
  <1>6. CASE DestroySession(s)
    BY <1>6 DEF DestroySession, Destroy
  <1> QED
    BY <1>1, <1>2, <1>3, <1>4, <1>5, <1>6 DEF StoreGoesOn

(* So do those of the peer's state machine. *)
LEMMA PeerInvMachine ==
  ASSUME PeerInv, InvokerTypeOK', PeerGoesOn \/ AllStopped \/ PeerFails \/ StopPeer
  PROVE  PeerInv'
  <1> USE DEF PeerInv, PeerTypeOK, PeerStop!StopTypeOK, PeerStates, Lives, DoneIsQuiet, EachMissesNone,
              InProgress, PeerEnters, peerStopVars, sessionVars, eachVars, invokerVars, callVars
  <1>1. CASE PeerGraceful
    BY <1>1 DEF PeerGraceful
  <1>2. CASE PeerLeaves \/ AllStopped \/ PeerFails
    BY <1>2 DEF PeerLeaves, AllStopped, PeerFails
  <1>3. CASE PeerStopsServices
    BY <1>3 DEF PeerStopsServices
  <1>4. CASE BeginEach
    BY <1>4 DEF BeginEach
  <1>5. ASSUME NEW s \in Sessions, EachDestroys(s)
        PROVE  PeerInv'
    BY <1>5 DEF EachDestroys, Destroy, Becomes
  <1>6. CASE EachGoesOn
    BY <1>6 DEF EachGoesOn
  <1>7. CASE EndEach
    BY <1>7 DEF EndEach
  <1>8. CASE PeerFinalizes
    BY <1>8 DEF PeerFinalizes, PeerStop!Close
  <1>9. CASE StopPeer
    BY <1>9 DEF StopPeer, PeerStop!Stop, PeerStop!GracefulStop
  <1> QED
    BY <1>1, <1>2, <1>3, <1>4, <1>5, <1>6, <1>7, <1>8, <1>9 DEF PeerGoesOn

(* All steps do. *)
LEMMA PeerInvNext ==
  ASSUME PeerInv, InvokerTypeOK', [PeerNext]_peerVars
  PROVE  PeerInv'
  <1>1. CASE UNCHANGED peerVars
    BY <1>1 DEF PeerInv, PeerTypeOK, PeerStop!StopTypeOK, DoneIsQuiet, EachMissesNone, InProgress,
                peerVars, peerStopVars, sessionVars, eachVars, invokerVars, callVars
  <1> QED
    BY <1>1, PeerInvInvoker, PeerInvSessions, PeerInvMachine DEF PeerNext

(* The invariant holds; InvokerTypeOK comes from the invoker. *)
LEMMA PeerInvAlways == PeerSpec => []PeerInv
  BY PeerInvInit, PeerInvNext, PeerImplementsInvoker, InvokerTypeCorrect, PTL DEF PeerSpec

(* "All sessions are destroyed when their owning peer is stopped": when finalize()
   is done with the sessions, every one in the store is destroyed and its calls
   have ended. *)
THEOREM SessionsEndWithPeer == PeerSpec => SessionsEndFirst
  <1>1. PeerInv /\ [PeerNext]_peerVars =>
          [(pState = "each" /\ pState' = "waitAll") =>
              \A s \in store :
                  /\ sess[s] = "done"
                  /\ \A c \in Calls : Owner[c] = s => ~InProgress(c)]_peerVars
    <2> SUFFICES ASSUME PeerInv, PeerNext, pState = "each", pState' = "waitAll"
                 PROVE  todo = {} /\ waitingFor = Nobody
      BY DEF PeerInv, PeerTypeOK, DoneIsQuiet, EachMissesNone
    <2>1. CASE EndEach
      BY <2>1 DEF EndEach
    <2>2. ASSUME NEW s \in Sessions,
                 EachDestroys(s) \/ NewSession(s) \/ StoreGoesOn(s) \/ DestroySession(s)
          PROVE  FALSE
      BY <2>2 DEF EachDestroys, NewSession, StoreGoesOn, Add, CloseDone, BeginRemove, Remove,
                  DestroySession
    <2>3. CASE PeerGraceful \/ PeerLeaves \/ PeerStopsServices \/ BeginEach \/ EachGoesOn
      BY <2>3 DEF PeerGraceful, PeerLeaves, PeerStopsServices, BeginEach, EachGoesOn, PeerEnters
    <2>4. CASE PeerFinalizes \/ AllStopped \/ PeerFails \/ StopPeer
      BY <2>4 DEF PeerFinalizes, AllStopped, PeerFails, StopPeer, PeerEnters
    <2>5. CASE InvokerGoesOn /\ UNCHANGED peerOnlyVars
      BY <2>5 DEF peerOnlyVars
    <2> QED
      BY <2>1, <2>2, <2>3, <2>4, <2>5 DEF PeerNext, PeerGoesOn
  <1> QED
    BY <1>1, PeerInvAlways, PTL DEF PeerSpec, SessionsEndFirst
=============================================================================
