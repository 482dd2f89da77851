------------------------ MODULE CommandServerProofs -------------------------
(***************************************************************************)
(* Proofs about CommandServer, for any finite set of requests, of whatever *)
(* kinds, and any namespaces.                                              *)
(***************************************************************************)
EXTENDS CommandServer, FiniteSetTheorems, TLAPS

(* A request is in one place at a time: in the buffer, with dispatch(), or neither;
   and as long as there is a channel the broker knows that it is here. *)
OnePlace ==
    \A r \in Requests :
        /\ at[r] # "none" => r \notin buffer
        /\ channelOpen /\ (at[r] # "none" \/ r \in buffer) => fate[r] = "unacked"

(* Only a request that is handled has a response, *)
ResponseExists ==
    \A r \in Requests :
        /\ r \in isClosed => HasResponse(r)
        /\ at[r] \in {"answered", "unanswered"} => r \in isClosed

(* and one that has been answered is with a goroutine that is going to acknowledge
   it, or will not come back here. *)
AnsweredStays ==
    \A r \in Requests : answers[r] > 0 =>
        /\ answers[r] = 1
        /\ r \notin buffer
        /\ \/ at[r] \in {"handling", "returned", "answered"} /\ r \in isClosed
           \/ at[r] = "none" /\ (fate[r] = "acked" \/ ~channelOpen)

(* s.pending counts the goroutines that have not come to their end, and those that
   have not told: more, once some give up telling because of a stop. *)
Active  == {r \in Requests : at[r] # "none"}
Counted == leaving + Cardinality(Active) <= pending

AnswerInv ==
    /\ TypeOK
    /\ OnePlace
    /\ ResponseExists
    /\ AnsweredStays

ServerInv == AnswerInv /\ Counted

USE RequestsAssumption

(* There are no requests at first. *)
LEMMA ServerInvInit == Init => ServerInv
  <1> SUFFICES ASSUME Init
               PROVE  ServerInv
    OBVIOUS
  <1>1. TypeOK
    BY DEF Init, TypeOK, StopInit, StopTypeOK, States, Fates, Places
  <1>2. OnePlace /\ ResponseExists /\ AnsweredStays
    BY DEF Init, OnePlace, ResponseExists, AnsweredStays
  <1>3. Active = {}
    BY DEF Init, Active
  <1>4. Counted
    BY <1>3, FS_EmptySet DEF Init, Counted
  <1> QED
    BY <1>1, <1>2, <1>4 DEF ServerInv, AnswerInv

(* The goroutines are finitely many. *)
LEMMA ActiveFinite == IsFiniteSet(Active) /\ Cardinality(Active) \in Nat
  BY FS_Subset, FS_CardinalityType DEF Active

(* dispatch() starts one more. *)
LEMMA ActiveStarts ==
  ASSUME TypeOK, NEW r \in Requests, at[r] = "none",
         at' = [at EXCEPT ![r] = "dispatching"]
  PROVE  Cardinality(Active') = Cardinality(Active) + 1
  <1>1. Active' = Active \cup {r} /\ r \notin Active
    BY DEF TypeOK, Active
  <1> QED
    BY <1>1, ActiveFinite, FS_AddElement

(* One that is done with its request is no longer among them. *)
LEMMA ActiveEnds ==
  ASSUME TypeOK, NEW r \in Requests, at[r] # "none",
         at' = [at EXCEPT ![r] = "none"]
  PROVE  Cardinality(Active') = Cardinality(Active) - 1
  <1>1. Active' = Active \ {r} /\ r \in Active
    BY DEF TypeOK, Active
  <1> QED
    BY <1>1, ActiveFinite, FS_RemoveElement

(* One that goes on to its next step remains. *)
LEMMA ActiveGoesOn ==
  ASSUME TypeOK, NEW r \in Requests, at[r] # "none", NEW p, p # "none",
         at' = [at EXCEPT ![r] = p]
  PROVE  Active' = Active
  BY DEF TypeOK, Active

(* The goroutine of a request keeps the invariant, and so do the broker and the
   state machine where they deal with one request. *)
LEMMA AnswerInvRequest ==
  ASSUME AnswerInv, NEW r \in Requests,
         \/ SendRequest(r) \/ Deliver(r) \/ Expire(r)
         \/ Take(r) \/ RejectDelivered(r)
         \/ DispatcherGoesOn(r) \/ Respond(r) \/ HandlerReturns(r)
  PROVE  AnswerInv'
  <1> USE DEF AnswerInv, TypeOK, StopTypeOK, States, Fates, Places, OnePlace, ResponseExists, AnsweredStays,
              HasResponse, stopVars, machineVars, tableVars, brokerVars, responseVars
  <1>1. CASE SendRequest(r)
    BY <1>1 DEF SendRequest
  <1>2. CASE Deliver(r)
    BY <1>2 DEF Deliver
  <1>3. CASE Expire(r)
    BY <1>3 DEF Expire
  <1>4. CASE Take(r)
    BY <1>4 DEF Take
  <1>5. CASE RejectDelivered(r)
    BY <1>5 DEF RejectDelivered, Settled
  <1>6. CASE RejectMalformed(r)
    BY <1>6 DEF RejectMalformed, Turns, Settled
  <1>7. CASE RejectUnknown(r)
    BY <1>7 DEF RejectUnknown, Turns, Settled, Rejected
  <1>8. CASE StartHandler(r)
    BY <1>8 DEF StartHandler, Moves
  <1>9. CASE Respond(r)
    BY <1>9 DEF Respond
  <1>10. CASE HandlerReturns(r)
    BY <1>10 DEF HandlerReturns, Moves
  <1>11. CASE FinalizeResponse(r)
    BY <1>11 DEF FinalizeResponse, Moves
  <1>12. CASE AckRequest(r)
    BY <1>12 DEF AckRequest, Turns, Settled
  <1>13. CASE RejectRequest(r)
    BY <1>13 DEF RejectRequest, Turns, Settled, Rejected
  <1> QED
    BY <1>1, <1>2, <1>3, <1>4, <1>5, <1>6, <1>7, <1>8, <1>9, <1>10, <1>11, <1>12, <1>13
    DEF DispatcherGoesOn

(* No goroutine starts or ends. *)
LEMMA CountedKept ==
  ASSUME Counted, UNCHANGED <<at, pending, leaving>>
  PROVE  Counted'
  BY DEF Counted, Active

(* They also keep count. *)
LEMMA CountedRequest ==
  ASSUME ServerInv, NEW r \in Requests,
         \/ SendRequest(r) \/ Deliver(r) \/ Expire(r)
         \/ Take(r) \/ RejectDelivered(r)
         \/ DispatcherGoesOn(r) \/ Respond(r) \/ HandlerReturns(r)
  PROVE  Counted'
  <1> USE ActiveFinite DEF ServerInv, AnswerInv, Counted, machineVars
  <1>1. CASE SendRequest(r) \/ Deliver(r) \/ Expire(r) \/ RejectDelivered(r) \/ Respond(r)
    <2>1. UNCHANGED <<at, pending, leaving>>
      BY <1>1 DEF SendRequest, Deliver, Expire, RejectDelivered, Respond
    <2> QED
      BY <2>1, CountedKept
  <1>2. CASE Take(r)
    <2>1. at[r] = "none" /\ at' = [at EXCEPT ![r] = "dispatching"]
      BY <1>2 DEF Take, OnePlace
    <2>2. pending' = pending + 1 /\ leaving' = leaving
      BY <1>2 DEF Take
    <2>3. Cardinality(Active') = Cardinality(Active) + 1
      BY <2>1, ActiveStarts
    <2> QED
      BY <2>2, <2>3 DEF TypeOK
  <1>3. CASE RejectMalformed(r) \/ RejectUnknown(r) \/ AckRequest(r) \/ RejectRequest(r)
    <2>1. at[r] # "none" /\ at' = [at EXCEPT ![r] = "none"]
      BY <1>3 DEF RejectMalformed, RejectUnknown, AckRequest, RejectRequest, Turns
    <2>2. pending' = pending /\ leaving' = leaving + 1
      BY <1>3 DEF RejectMalformed, RejectUnknown, AckRequest, RejectRequest, Turns
    <2>3. Cardinality(Active') = Cardinality(Active) - 1
      BY <2>1, ActiveEnds
    <2> QED
      BY <2>2, <2>3 DEF TypeOK
  <1>4. CASE StartHandler(r) \/ HandlerReturns(r) \/ FinalizeResponse(r)
    <2>1. PICK p : at[r] # "none" /\ p # "none" /\ at' = [at EXCEPT ![r] = p]
      BY <1>4 DEF StartHandler, HandlerReturns, FinalizeResponse, Moves
    <2>2. UNCHANGED <<pending, leaving>>
      BY <1>4 DEF StartHandler, HandlerReturns, FinalizeResponse, Moves
    <2> QED
      BY <2>1, <2>2, ActiveGoesOn
  <1> QED
    BY <1>1, <1>2, <1>3, <1>4 DEF DispatcherGoesOn

(* All steps do.  When the channel ends, what is not acknowledged can go back to
   its queue: it does not come back here. *)
LEMMA ServerInvNext ==
  ASSUME ServerInv, [Next]_vars
  PROVE  ServerInv'
  <1> USE DEF ServerInv, AnswerInv, TypeOK, StopTypeOK, States, Fates, Places, OnePlace, ResponseExists,
              AnsweredStays, HasResponse, stopVars, machineVars, tableVars, brokerVars, responseVars
  <1>1. CASE Leave
    <2>1. leaving > 0 /\ leaving <= pending
      BY <1>1, ActiveFinite DEF Leave, Counted
    <2>2. leaving' = leaving - 1 /\ pending' \in {pending, pending - 1}
      BY <1>1 DEF Leave
    <2>3. UNCHANGED <<stopVars, state, tableVars, brokerVars, at, responseVars>>
      BY <1>1 DEF Leave
    <2>4. Active' = Active
      BY <2>3 DEF Active
    <2>5. pending' \in Nat /\ leaving' \in Nat
      BY <2>1, <2>2
    <2>6. Counted'
      BY <2>1, <2>2, <2>4, ActiveFinite DEF Counted
    <2> QED
      BY <2>3, <2>5, <2>6
  <1>2. CASE \/ StopRequest \/ MachineStops \/ ChannelFails \/ UNCHANGED vars
             \/ \E ns \in Namespaces : Listen(ns) \/ Unlisten(ns)
    <2>1. Counted'
      <3>1. UNCHANGED <<at, pending, leaving>>
        BY <1>2 DEF StopRequest, MachineStops, LeaveRun, StopConsuming, WaitForHandlers, CancelContext,
                    CloseChannel, Enters, ChannelFails, vars, Listen, Unlisten
      <3> QED
        BY <3>1, CountedKept
    <2>2. ASSUME NEW ns \in Namespaces, Listen(ns) \/ Unlisten(ns)
          PROVE  AnswerInv'
      BY <2>2 DEF Listen, Unlisten
    <2>3. CASE LeaveRun \/ WaitForHandlers \/ CancelContext
      BY <2>1, <2>3 DEF LeaveRun, WaitForHandlers, CancelContext, Enters
    <2>4. CASE StopConsuming
      BY <2>1, <2>4 DEF StopConsuming
    <2>5. CASE CloseChannel
      BY <2>1, <2>5 DEF CloseChannel, Close, Requeued
    <2>6. CASE ChannelFails
      BY <2>1, <2>6 DEF ChannelFails, Requeued
    <2>7. CASE StopRequest
      BY <2>1, <2>7 DEF StopRequest, Stop, GracefulStop
    <2>8. CASE UNCHANGED vars
      BY <2>1, <2>8 DEF vars
    <2> QED
      BY <1>2, <2>1, <2>2, <2>3, <2>4, <2>5, <2>6, <2>7, <2>8 DEF MachineStops
  <1> QED
    BY <1>1, <1>2, AnswerInvRequest, CountedRequest DEF Next

(* The invariant holds. *)
LEMMA ServerInvAlways == Spec => []ServerInv
  BY ServerInvInit, ServerInvNext, PTL DEF Spec

-----------------------------------------------------------------------------
(* Every variable keeps its type; in particular s.pending, which the code counts
   down, does not go below zero. *)
THEOREM ServerTypeCorrect == Spec => []TypeOK
  <1>1. ServerInv => TypeOK
    BY DEF ServerInv, AnswerInv
  <1> QED
    BY <1>1, ServerInvAlways, PTL

(* A server publishes at most one response to a request. *)
THEOREM AnswersOnce == Spec => []AnsweredOnce
  <1>1. ServerInv => AnsweredOnce
    BY DEF ServerInv, AnswerInv, TypeOK, AnsweredStays, AnsweredOnce
  <1> QED
    BY <1>1, ServerInvAlways, PTL

(* And it acknowledges a request to which it has responded. *)
THEOREM AnswersAreAcked == Spec => AnsweredIsAcked
  <1>1. ServerInv /\ [Next]_vars =>
          [\A r \in Requests :
              answers[r] > 0 /\ fate'[r] # fate[r] /\ channelOpen' => fate'[r] = "acked"]_vars
    <2> SUFFICES ASSUME ServerInv, Next, NEW q \in Requests,
                        answers[q] > 0, fate'[q] # fate[q], channelOpen'
                 PROVE  fate'[q] = "acked"
      OBVIOUS
    <2> USE DEF ServerInv, AnswerInv, TypeOK, OnePlace, AnsweredStays, HasResponse,
                stopVars, machineVars, tableVars, brokerVars, responseVars
    <2>1. ASSUME NEW r \in Requests,
                 SendRequest(r) \/ Deliver(r) \/ Take(r) \/ RejectDelivered(r)
          PROVE  fate'[q] = "acked"
      BY <2>1 DEF SendRequest, Deliver, Take, RejectDelivered, Settled
    <2>2. ASSUME NEW r \in Requests, Expire(r) \/ Respond(r) \/ HandlerReturns(r)
          PROVE  fate'[q] = "acked"
      BY <2>2 DEF Expire, Respond, HandlerReturns, Moves
    <2>3. ASSUME NEW r \in Requests, DispatcherGoesOn(r)
          PROVE  fate'[q] = "acked"
      BY <2>3 DEF DispatcherGoesOn, RejectMalformed, RejectUnknown, StartHandler, FinalizeResponse,
                  AckRequest, RejectRequest, Turns, Moves, Settled
    <2>4. CASE \/ Leave \/ StopRequest \/ \E ns \in Namespaces : Listen(ns) \/ Unlisten(ns)
      BY <2>4 DEF Leave, StopRequest, Listen, Unlisten
    <2>5. CASE MachineStops \/ ChannelFails
      BY <2>5 DEF MachineStops, LeaveRun, StopConsuming, WaitForHandlers, CancelContext, CloseChannel,
                  Enters, ChannelFails
    <2> QED
      BY <2>1, <2>2, <2>3, <2>4, <2>5 DEF Next
  <1> QED
    BY <1>1, ServerInvAlways, PTL DEF Spec, AnsweredIsAcked

(* A graceful stop of the server waits for all handlers. *)
THEOREM HandlersDoReturnFirst == Spec => HandlersReturnFirst
  <1>1. ServerInv /\ [Next]_vars =>
          [(state = "waitForHandlers" /\ state' = "finalize" /\ channelOpen /\ ~forceful) =>
              \A r \in Requests : at[r] = "none"]_vars
    <2> SUFFICES ASSUME ServerInv, Next, state = "waitForHandlers", state' = "finalize",
                        channelOpen, ~forceful
                 PROVE  pending = 0
      <3>1. ASSUME ServerInv, pending = 0, NEW r \in Requests
            PROVE  at[r] = "none"
        <4>1. Cardinality(Active) = 0
          BY <3>1, ActiveFinite DEF ServerInv, AnswerInv, TypeOK, Counted
        <4>2. Active = {}
          BY <4>1, ActiveFinite, FS_EmptySet
        <4> QED
          BY <4>2 DEF Active
      <3> QED
        BY <3>1
    <2>1. ASSUME NEW r \in Requests, Take(r) \/ RejectDelivered(r)
          PROVE  FALSE
      BY <2>1 DEF Take, RejectDelivered
    <2>2. ASSUME NEW r \in Requests, SendRequest(r) \/ Deliver(r) \/ Expire(r) \/ Respond(r)
          PROVE  FALSE
      BY <2>2 DEF SendRequest, Deliver, Expire, Respond, machineVars
    <2>3. ASSUME NEW r \in Requests, DispatcherGoesOn(r) \/ HandlerReturns(r)
          PROVE  FALSE
      BY <2>3 DEF DispatcherGoesOn, RejectMalformed, RejectUnknown, StartHandler, FinalizeResponse,
                  AckRequest, RejectRequest, HandlerReturns, Turns, Moves, machineVars
    <2>4. CASE \/ Leave \/ StopRequest \/ \E ns \in Namespaces : Listen(ns) \/ Unlisten(ns)
      BY <2>4 DEF Leave, StopRequest, Listen, Unlisten, machineVars
    <2>5. CASE MachineStops \/ ChannelFails
      BY <2>5 DEF MachineStops, LeaveRun, StopConsuming, WaitForHandlers, CancelContext, CloseChannel,
                  ChannelFails, machineVars
    <2> QED
      BY <2>1, <2>2, <2>3, <2>4, <2>5 DEF Next
  <1> QED
    BY <1>1, ServerInvAlways, PTL DEF Spec, HandlersReturnFirst

-----------------------------------------------------------------------------
(* The state machine leaves run() only if it is told to, or has no channel on which
   to reject anything. *)
StopKnown ==
    /\ state \in {"stopConsuming", "waitForHandlers"} => graceful
    /\ state \in {"finalize", "closing", "stopped"} => graceful \/ forceful \/ ~channelOpen

KeptInv == ServerInv /\ StopKnown /\ KeptWhileRunning

(* No step loses a balanced request but those of a stop. *)
LEMMA KeptNext ==
  ASSUME KeptInv, [Next]_vars
  PROVE  StopKnown' /\ KeptWhileRunning'
  <1> USE DEF KeptInv, ServerInv, AnswerInv, TypeOK, States, StopKnown, KeptWhileRunning, IsLost, IsBalanced,
              stopVars, machineVars, tableVars, brokerVars, responseVars
  <1>1. ASSUME NEW r \in Requests,
               SendRequest(r) \/ Deliver(r) \/ Expire(r) \/ Take(r) \/ RejectDelivered(r)
        PROVE  StopKnown' /\ KeptWhileRunning'
    BY <1>1 DEF SendRequest, Deliver, Expire, Take, RejectDelivered, Settled
  <1>2. ASSUME NEW r \in Requests, RejectMalformed(r) \/ RejectUnknown(r) \/ AckRequest(r)
        PROVE  StopKnown' /\ KeptWhileRunning'
    BY <1>2 DEF RejectMalformed, RejectUnknown, AckRequest, Turns, Settled, Rejected
  <1>3. ASSUME NEW r \in Requests, RejectRequest(r)
        PROVE  StopKnown' /\ KeptWhileRunning'
    BY <1>3 DEF RejectRequest, Turns, Settled, Rejected, IsContextDone
  <1>4. ASSUME NEW r \in Requests,
               StartHandler(r) \/ FinalizeResponse(r) \/ Respond(r) \/ HandlerReturns(r)
        PROVE  StopKnown' /\ KeptWhileRunning'
    BY <1>4 DEF StartHandler, FinalizeResponse, Respond, HandlerReturns, Moves
  <1>5. ASSUME NEW ns \in Namespaces, Listen(ns) \/ Unlisten(ns)
        PROVE  StopKnown' /\ KeptWhileRunning'
    BY <1>5 DEF Listen, Unlisten
  <1>6. CASE Leave
    BY <1>6 DEF Leave
  <1>7. CASE LeaveRun \/ StopConsuming \/ WaitForHandlers \/ CancelContext
    BY <1>7 DEF LeaveRun, StopConsuming, WaitForHandlers, CancelContext, Enters
  <1>8. CASE CloseChannel
    BY <1>8 DEF CloseChannel, Close
  <1>9. CASE ChannelFails
    BY <1>9 DEF ChannelFails, Requeued
  <1>10. CASE StopRequest
    BY <1>10 DEF StopRequest, Stop, GracefulStop
  <1>11. CASE UNCHANGED vars
    BY <1>11 DEF vars
  <1> QED
    BY <1>1, <1>2, <1>3, <1>4, <1>5, <1>6, <1>7, <1>8, <1>9, <1>10, <1>11
    DEF Next, DispatcherGoesOn, MachineStops

(* A balanced request that is in order is not lost while the server is not being
   stopped: whatever its handler, Unlisten() and the channel do. *)
THEOREM BalancedKept == Spec => []KeptWhileRunning
  <1>1. Init => StopKnown /\ KeptWhileRunning
    BY DEF Init, StopKnown, KeptWhileRunning, IsLost
  <1>2. KeptInv /\ [Next]_vars => (StopKnown /\ KeptWhileRunning)'
    BY KeptNext
  <1> QED
    BY <1>1, <1>2, ServerInvAlways, PTL DEF Spec, KeptInv
=============================================================================
