--------------------------- MODULE CommandServer ----------------------------
(***************************************************************************)
(* commandamqp/server.go and response.go: the peer as a server of command  *)
(* requests.                                                               *)
(*                                                                         *)
(* The broker pushes requests into s.deliveries; the server's state        *)
(* machine takes them out and starts a goroutine for each, which runs the  *)
(* application's handler, settles the delivery by whether the handler has  *)
(* answered, and tells the state machine that it is done.  A handler may   *)
(* have started goroutines that answer in its place.  Stops, deadlines and *)
(* the loss of the AMQP channel cut in anywhere.                           *)
(*                                                                         *)
(* A delivery that is requeued, here or by the broker when the channel     *)
(* ends, can be delivered again.  Answering twice with Done() or Error()   *)
(* panics, which ends the process; it is left out.  Listen() and           *)
(* Unlisten() take effect when the state machine executes them.            *)
(***************************************************************************)
EXTENDS StopChannels, Naturals, FiniteSets

CONSTANTS Requests,
          Namespaces,
          NamespaceOf,  \* the namespace of each request
          Kinds,        \* what kinds the requests may be of
          Executed,     \* the requests sent by Session.Execute(), if balanced
          MaxPending    \* bounds the goroutines of dispatch() at one time

ASSUME RequestsAssumption ==
    /\ IsFiniteSet(Requests)
    /\ Kinds \subseteq [Requests -> {"unicast", "multicast", "balanced"}]
    /\ NamespaceOf \in [Requests -> Namespaces]
    /\ MaxPending \in Nat

VARIABLES kind,         \* the exchange by which each request comes
          state,        \* the state that the state machine is in
          pending,      \* s.pending
          leaving,      \* the number of goroutines at the end of dispatch()
          handlers,     \* the keys of s.handlers
          consuming,    \* the namespaces bound and consumed from
          channelOpen,  \* s.channel is open
          buffer,       \* the requests in s.deliveries or on their way there
          fate,         \* where each request is, as the broker sees it
          at,           \* how far dispatch() is with each request
          isClosed,     \* the requests handled whose response has isClosed
          answers,      \* how many responses to each request have been published
          expired       \* the requests whose deadline has passed

machineVars  == <<state, pending>>
tableVars    == <<handlers, consuming>>
brokerVars   == <<kind, channelOpen, buffer, fate>>
responseVars == <<isClosed, answers, expired>>
vars == <<stopVars, machineVars, leaving, tableVars, brokerVars, at, responseVars>>

States == {"run", "stopConsuming", "waitForHandlers", "finalize", "closing", "stopped"}
Fates  == {"unsent", "queued", "unacked", "acked", "refused", "dropped"}
Places == {"none", "dispatching", "handling", "returned", "answered", "unanswered"}

Init ==
    /\ StopInit
    /\ kind \in Kinds
    /\ state = "run"
    /\ pending = 0
    /\ leaving = 0
    /\ handlers = {}
    /\ consuming = {}
    /\ channelOpen = TRUE
    /\ buffer = {}
    /\ fate = [r \in Requests |-> "unsent"]
    /\ at = [r \in Requests |-> "none"]
    /\ isClosed = {}
    /\ answers = [r \in Requests |-> 0]
    /\ expired = {}

-----------------------------------------------------------------------------
(***************************************************************************)
(* The broker and the senders.                                             *)
(***************************************************************************)
IsBalanced(r) == kind[r] = "balanced"

(* The peer's own queue, for unicast and multicast requests, has a consumer. *)
IsConsumed(r) ==
    IF IsBalanced(r) THEN NamespaceOf[r] \in consuming ELSE state \in {"run", "stopConsuming"}

(* A balanced request waits in its namespace's queue; the others are routed to
   the peer's queue if it is bound. *)
SendRequest(r) ==
    /\ fate[r] = "unsent"
    /\ \/ IsBalanced(r)
       \/ kind[r] = "unicast" /\ channelOpen /\ IsConsumed(r)
       \/ kind[r] = "multicast" /\ channelOpen /\ NamespaceOf[r] \in consuming
    /\ fate' = [fate EXCEPT ![r] = "queued"]
    /\ UNCHANGED <<stopVars, machineVars, leaving, tableVars, kind, channelOpen, buffer, at, responseVars>>

(* pipe() *)
Deliver(r) ==
    /\ fate[r] = "queued"
    /\ channelOpen /\ IsConsumed(r)
    /\ r \notin buffer /\ at[r] = "none"
    /\ fate' = [fate EXCEPT ![r] = "unacked"]
    /\ buffer' = buffer \cup {r}
    /\ UNCHANGED <<stopVars, machineVars, leaving, tableVars, kind, channelOpen, at, responseVars>>

(* Ack and Reject have no effect on a channel that is closed. *)
Settled(r, f) == IF channelOpen THEN [fate EXCEPT ![r] = f] ELSE fate

(* Fault: no request is requeued. *)
NeverRequeued(r) == "dropped"

(* Reject() with requeue for balanced requests. *)
Rejected(r) == IF IsBalanced(r) THEN "queued" ELSE "dropped"

(* What has not been settled goes back to the queues. *)
Requeued == [r \in Requests |-> IF fate[r] = "unacked" THEN "queued" ELSE fate[r]]

ChannelFails ==
    /\ channelOpen
    /\ channelOpen' = FALSE
    /\ fate' = Requeued
    /\ UNCHANGED <<stopVars, machineVars, leaving, tableVars, kind, buffer, at, responseVars>>

Expire(r) ==
    /\ fate[r] \in {"queued", "unacked"}
    /\ r \notin expired
    /\ expired' = expired \cup {r}
    /\ UNCHANGED <<stopVars, machineVars, leaving, tableVars, brokerVars, at, isClosed, answers>>

StopRequest ==
    /\ Stop \/ GracefulStop
    /\ UNCHANGED <<machineVars, leaving, tableVars, brokerVars, at, responseVars>>

-----------------------------------------------------------------------------
(***************************************************************************)
(* The state machine.                                                      *)
(***************************************************************************)
IsServing == state = "run" \/ (state = "waitForHandlers" /\ pending > 0)

(* Listen() binds the peer's queue and consumes the namespace's, unless the
   namespace has a handler already; if bind() fails the handler stays. *)
Listen(ns) ==
    /\ IsServing
    /\ handlers' = handlers \cup {ns}
    /\ consuming' = IF ns \notin handlers /\ channelOpen THEN consuming \cup {ns} ELSE consuming
    /\ UNCHANGED <<stopVars, machineVars, leaving, brokerVars, at, responseVars>>

Unlisten(ns) ==
    /\ IsServing
    /\ ns \in handlers
    /\ handlers' = handlers \ {ns}
    /\ consuming' = IF channelOpen THEN consuming \ {ns} ELSE consuming
    /\ UNCHANGED <<stopVars, machineVars, leaving, brokerVars, at, responseVars>>

(* run(): a request, *)
Take(r) ==
    /\ state = "run"
    /\ r \in buffer
    /\ pending < MaxPending
    /\ buffer' = buffer \ {r}
    /\ pending' = pending + 1
    /\ at' = [at EXCEPT ![r] = "dispatching"]
    /\ UNCHANGED <<stopVars, state, leaving, tableVars, kind, channelOpen, fate, responseVars>>

Enters(s) ==
    /\ state' = s
    /\ UNCHANGED <<stopVars, pending, leaving, tableVars, brokerVars, at, responseVars>>

(* or a stop, or the end of the channel. *)
LeaveRun ==
    /\ state = "run"
    /\ \/ graceful /\ Enters("stopConsuming")
       \/ (forceful \/ ~channelOpen) /\ Enters("finalize")

(* gracefulStopConsuming() cancels all consumers. *)
StopConsuming ==
    /\ state = "stopConsuming"
    /\ state' = IF channelOpen THEN "waitForHandlers" ELSE "finalize"
    /\ consuming' = IF channelOpen THEN consuming \ handlers ELSE consuming
    /\ UNCHANGED <<stopVars, pending, leaving, handlers, brokerVars, at, responseVars>>

(* waitForHandlers() rejects what had been delivered, with requeue for multicast
   requests only, *)
RejectDelivered(r) ==
    /\ state = "waitForHandlers" /\ pending > 0
    /\ r \in buffer
    /\ buffer' = buffer \ {r}
    /\ fate' = Settled(r, IF kind[r] = "multicast" THEN "queued" ELSE "dropped")
    /\ state' = IF channelOpen THEN state ELSE "finalize"
    /\ UNCHANGED <<stopVars, pending, leaving, tableVars, kind, channelOpen, at, responseVars>>

(* Fault: handlers are not waited for. *)
WaitForNobody == state = "waitForHandlers" /\ Enters("finalize")

(* until all handlers are done, or a stop. *)
WaitForHandlers ==
    /\ state = "waitForHandlers"
    /\ pending = 0 \/ forceful
    /\ Enters("finalize")

(* finalize() cancels the context of all handlers *)
CancelContext == state = "finalize" /\ Enters("closing")

(* and closes the channel; Run() closes Done. *)
CloseChannel ==
    /\ state = "closing"
    /\ state' = "stopped"
    /\ channelOpen' = FALSE
    /\ fate' = IF channelOpen THEN Requeued ELSE fate
    /\ Close
    /\ UNCHANGED <<pending, leaving, tableVars, kind, buffer, at, responseVars>>

-----------------------------------------------------------------------------
(***************************************************************************)
(* The goroutine of a request: dispatch() and handle().                    *)
(***************************************************************************)
(* ctx.Done() is closed: the deadline has passed or finalize() has been called. *)
IsContextDone(r) == r \in expired \/ state \in {"closing", "stopped"}

(* The delivery is settled, and the response forgotten. *)
Turns(r, f) ==
    /\ fate' = Settled(r, f)
    /\ at' = [at EXCEPT ![r] = "none"]
    /\ isClosed' = isClosed \ {r}
    /\ leaving' = leaving + 1
    /\ UNCHANGED <<stopVars, machineVars, tableVars, kind, channelOpen, buffer, answers, expired>>

(* The message ID, the command, the trace or the source revision is no good. *)
RejectMalformed(r) ==
    /\ at[r] = "dispatching"
    /\ Turns(r, "refused")

RejectUnknown(r) ==
    /\ at[r] = "dispatching"
    /\ NamespaceOf[r] \notin handlers
    /\ Turns(r, Rejected(r))

Moves(r, p) ==
    /\ at' = [at EXCEPT ![r] = p]
    /\ UNCHANGED <<stopVars, machineVars, leaving, tableVars, brokerVars>>

StartHandler(r) ==
    /\ at[r] = "dispatching"
    /\ NamespaceOf[r] \in handlers
    /\ Moves(r, "handling")
    /\ UNCHANGED responseVars

(* The reply mode is replyNone. *)
IsExecute(r) == kind[r] = "multicast" \/ (IsBalanced(r) /\ r \in Executed)

HasResponse(r) == at[r] \in {"handling", "returned", "answered", "unanswered"}

(* Fault: a response can be sent although it is closed. *)
RespondAgain(r) ==
    /\ HasResponse(r)
    /\ answers[r] < 2
    /\ isClosed' = isClosed \cup {r}
    /\ answers' = IF IsExecute(r) THEN answers ELSE [answers EXCEPT ![r] = @ + 1]
    /\ UNCHANGED <<stopVars, machineVars, leaving, tableVars, brokerVars, at, expired>>

(* Done(), Error(), Fail() or Close(), by the handler or by a goroutine of its own.
   Nothing is published if nobody waits, or if the context is done and has a
   deadline. *)
Respond(r) ==
    /\ HasResponse(r)
    /\ r \notin isClosed
    /\ isClosed' = isClosed \cup {r}
    /\ \/ ~IsExecute(r) /\ r \notin expired /\ answers' = [answers EXCEPT ![r] = @ + 1]
       \/ (IsExecute(r) \/ IsContextDone(r)) /\ UNCHANGED answers
    /\ UNCHANGED <<stopVars, machineVars, leaving, tableVars, brokerVars, at, expired>>

HandlerReturns(r) ==
    /\ at[r] = "handling"
    /\ Moves(r, "returned")
    /\ UNCHANGED responseVars

(* Fault: response.finalize() leaves the response open. *)
FinalizeOpen(r) ==
    /\ at[r] = "returned"
    /\ Moves(r, IF r \in isClosed THEN "answered" ELSE "unanswered")
    /\ UNCHANGED responseVars

(* response.finalize() *)
FinalizeResponse(r) ==
    /\ at[r] = "returned"
    /\ isClosed' = isClosed \cup {r}
    /\ Moves(r, IF r \in isClosed THEN "answered" ELSE "unanswered")
    /\ UNCHANGED <<answers, expired>>

AckRequest(r) ==
    /\ at[r] = "answered"
    /\ Turns(r, "acked")

RejectRequest(r) ==
    /\ at[r] = "unanswered"
    /\ Turns(r, IF IsContextDone(r) THEN "dropped" ELSE Rejected(r))

(* Fault: a goroutine that ends is not counted off. *)
LeaveUncounted ==
    /\ leaving > 0
    /\ leaving' = leaving - 1
    /\ UNCHANGED <<stopVars, machineVars, tableVars, brokerVars, at, responseVars>>

(* The deferred DoGraceful() counts the goroutine off, unless the server is
   stopped. *)
Leave ==
    /\ leaving > 0
    /\ leaving' = leaving - 1
    /\ \/ IsServing /\ pending' = pending - 1
       \/ (forceful \/ finalized) /\ UNCHANGED pending
    /\ UNCHANGED <<stopVars, state, tableVars, brokerVars, at, responseVars>>

-----------------------------------------------------------------------------
MachineStops == LeaveRun \/ StopConsuming \/ WaitForHandlers \/ CancelContext \/ CloseChannel

(* All that dispatch() and handle() do, but for what is the application's. *)
DispatcherGoesOn(r) ==
    \/ RejectMalformed(r) \/ RejectUnknown(r) \/ StartHandler(r)
    \/ FinalizeResponse(r) \/ AckRequest(r) \/ RejectRequest(r)

Next ==
    \/ \E r \in Requests :
          \/ SendRequest(r) \/ Deliver(r) \/ Expire(r)
          \/ Take(r) \/ RejectDelivered(r)
          \/ DispatcherGoesOn(r) \/ Respond(r) \/ HandlerReturns(r)
    \/ \E ns \in Namespaces : Listen(ns) \/ Unlisten(ns)
    \/ Leave \/ MachineStops \/ ChannelFails \/ StopRequest

(* Goroutines that can go on do, and a select that is offered the same thing time
   and again takes it.  Nothing is assumed of handlers. *)
Fairness ==
    /\ SF_vars(MachineStops)
    /\ SF_vars(Leave)
    /\ \A r \in Requests : WF_vars(DispatcherGoesOn(r))

Spec == Init /\ [][Next]_vars
FairSpec == Spec /\ Fairness

-----------------------------------------------------------------------------
(***************************************************************************)
(* Properties.                                                             *)
(***************************************************************************)

(* Every variable keeps its type. *)
TypeOK ==
    /\ StopTypeOK
    /\ kind \in Kinds
    /\ state \in States
    /\ pending \in Nat
    /\ leaving \in Nat
    /\ handlers \subseteq Namespaces
    /\ consuming \subseteq Namespaces
    /\ channelOpen \in BOOLEAN
    /\ buffer \subseteq Requests
    /\ fate \in [Requests -> Fates]
    /\ at \in [Requests -> Places]
    /\ isClosed \subseteq Requests
    /\ answers \in [Requests -> Nat]
    /\ expired \subseteq Requests

(* A caller gets one answer: a server never publishes two responses to a request,
   though handlers and their goroutines race to answer, and a request that has not
   been answered may be delivered again. *)
AnsweredOnce == \A r \in Requests : answers[r] <= 1

(* A request that has been answered is acknowledged: it is neither requeued, and
   executed again, nor dropped, unless the channel ends before. *)
AnsweredIsAcked ==
    [][\A r \in Requests :
          answers[r] > 0 /\ fate'[r] # fate[r] /\ channelOpen' => fate'[r] = "acked"]_vars

(* rinq/peer.go:67: "Any calls to Session.Call(), command handlers or notification
   handlers must return before the peer has stopped."  A graceful stop goes on to
   cancel the handlers' context only when there are no handlers any more. *)
HandlersReturnFirst ==
    [][(state = "waitForHandlers" /\ state' = "finalize" /\ channelOpen /\ ~forceful) =>
          \A r \in Requests : at[r] = "none"]_vars

(* A balanced request that is in order and on time is not lost as long as the
   server is not being stopped. *)
IsLost(r) == IsBalanced(r) /\ r \notin expired /\ fate[r] = "dropped"

KeptWhileRunning == ~graceful /\ ~forceful => \A r \in Requests : ~IsLost(r)

(* server.go:356 rejects a balanced request with the comment "requeue if
   "balanced"".  Then another peer may handle it: it is not lost when this one is
   stopped gracefully either. *)
BalancedNotLost == ~forceful => \A r \in Requests : ~IsLost(r)

(* A stop ends; a graceful one unless a handler never returns. *)
StopEnds ==
    /\ forceful ~> finalized
    /\ (graceful ~> finalized) \/ \E r \in Requests : <>[](at[r] = "handling")
=============================================================================
