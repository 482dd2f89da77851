------------------------------ MODULE Invoker -------------------------------
(***************************************************************************)
(* commandamqp/invoker.go: the peer's client of other peers' commands.     *)
(*                                                                         *)
(* A goroutine that makes a call meets the invoker's state machine twice   *)
(* at most, to have its call tracked and to have it cancelled; in between  *)
(* it publishes its request and waits for the reply, which the state       *)
(* machine hands over through a channel made for this call.  The caller's  *)
(* deadline, a stop, the loss of the AMQP channel and replies that come    *)
(* late or twice (a request that is requeued is executed again) cut in     *)
(* anywhere.                                                               *)
(*                                                                         *)
(* A call stands for its message ID: LocalSession.IssuedInOrder is that no *)
(* ID is used twice.  What is in requests and replies is left out.         *)
(***************************************************************************)
EXTENDS StopChannels, Naturals

CONSTANTS Calls,
          Sessions,
          Async,       \* those of them that make asynchronous calls
          MaxReplies,  \* bounds the replies in flight to one call, or to one session
          Nobody       \* neither a call nor a session

ASSUME MaxRepliesAssumption == MaxReplies \in Nat
ASSUME AsyncAssumption      == Async \subseteq Sessions
ASSUME NobodyAssumption     == Nobody \notin Calls \cup Sessions

VARIABLES state,        \* the state that the state machine is in
          pending,      \* the keys of i.pending
          replying,     \* the call whose reply has been sent, its channel not closed
          looking,      \* the session that replyAsync() is to look up
          caller,       \* how far the caller of each call is
          expired,      \* the calls whose context is done
          full,         \* the calls with a delivery in their Reply channel
          closed,       \* the calls whose Reply channel is closed
          inbox,        \* how many replies to each of them are to be received
          channelOpen   \* i.channel is open

machineVars == <<state, pending, replying, looking>>
callVars    == <<caller, expired, full, closed>>
brokerVars  == <<inbox, channelOpen>>
invokerVars == <<stopVars, machineVars, callVars, brokerVars>>

States  == {"run", "graceful", "forceful", "finalize", "stopped"}
Places  == {"idle", "tracking", "publishing", "waiting", "leaving", "cancelling", "ended"}
Senders == Calls \cup Async

InvokerInit ==
    /\ StopInit
    /\ state = "run"
    /\ pending = {}
    /\ replying = Nobody
    /\ looking = Nobody
    /\ caller = [c \in Calls |-> "idle"]
    /\ expired = {}
    /\ full = {}
    /\ closed = {}
    /\ inbox = [x \in Senders |-> 0]
    /\ channelOpen = TRUE

-----------------------------------------------------------------------------
(***************************************************************************)
(* Callers.                                                                *)
(***************************************************************************)
Moves(c, p) == caller' = [caller EXCEPT ![c] = p]

(* call() returns, and releases its context. *)
Returns(c) == Moves(c, "ended") /\ expired' = expired \ {c}

InProgress(c) == caller[c] \notin {"idle", "ended"}

(* The state machine is not in the middle of a reply, *)
IsFree == replying = Nobody /\ looking = Nobody

(* and at the select of run() or of graceful(). *)
IsReceiving ==
    /\ IsFree
    /\ state = "run" \/ (state = "graceful" /\ pending # {})

BeginCall(c) ==
    /\ caller[c] = "idle"
    /\ Moves(c, "tracking")
    /\ UNCHANGED <<stopVars, machineVars, expired, full, closed, brokerVars>>

Track(c) ==
    /\ caller[c] = "tracking"
    /\ IsReceiving
    /\ state = "run"
    /\ pending' = pending \cup {c}
    /\ Moves(c, "publishing")
    /\ UNCHANGED <<stopVars, state, replying, looking, expired, full, closed, brokerVars>>

(* The deadline has passed, at the first test of it or at the select; or the
   invoker is stopping. *)
GiveUp(c) ==
    /\ caller[c] = "tracking"
    /\ c \in expired \/ graceful \/ forceful
    /\ Returns(c)
    /\ UNCHANGED <<stopVars, machineVars, full, closed, brokerVars>>

Publish(c) ==
    /\ caller[c] = "publishing"
    /\ c \notin expired
    /\ Moves(c, "waiting")
    /\ UNCHANGED <<stopVars, machineVars, expired, full, closed, brokerVars>>

(* The deadline has passed, or no AMQP channel can be had or used. *)
PublishFails(c) ==
    /\ caller[c] = "publishing"
    /\ Moves(c, "leaving")
    /\ UNCHANGED <<stopVars, machineVars, expired, full, closed, brokerVars>>

Receive(c) ==
    /\ caller[c] = "waiting"
    /\ c \in full
    /\ full' = full \ {c}
    /\ Moves(c, "leaving")
    /\ UNCHANGED <<stopVars, machineVars, expired, closed, brokerVars>>

(* Go's select takes this also when there is a reply to be received. *)
Abandon(c) ==
    /\ caller[c] = "waiting"
    /\ c \in expired \/ forceful
    /\ Moves(c, "leaving")
    /\ UNCHANGED <<stopVars, machineVars, expired, full, closed, brokerVars>>

(* Fault: a caller that leaves does not say so. *)
LeaveSilently(c) ==
    /\ caller[c] = "leaving"
    /\ full' = full \ {c}
    /\ Returns(c)
    /\ UNCHANGED <<stopVars, machineVars, closed, brokerVars>>

(* The deferred function: nothing is left to do if the Reply channel holds a
   delivery or is closed, ... *)
Leave(c) ==
    /\ caller[c] = "leaving"
    /\ full' = full \ {c}
    /\ IF c \in full \cup closed
       THEN Returns(c)
       ELSE Moves(c, "cancelling") /\ UNCHANGED expired
    /\ UNCHANGED <<stopVars, machineVars, closed, brokerVars>>

(* ... otherwise the state machine is to forget the call, ... *)
Cancel(c) ==
    /\ caller[c] = "cancelling"
    /\ IsReceiving
    /\ pending' = pending \ {c}
    /\ Returns(c)
    /\ UNCHANGED <<stopVars, state, replying, looking, full, closed, brokerVars>>

(* ... unless it is stopped. *)
CancelStopped(c) ==
    /\ caller[c] = "cancelling"
    /\ forceful
    /\ Returns(c)
    /\ UNCHANGED <<stopVars, machineVars, full, closed, brokerVars>>

(* send(), for calls without a reply and asynchronous ones: it returns
   context.Canceled on a stop.  A reply to an asynchronous one is on its way from
   here on, and lost if the channel is. *)
Send(s) ==
    /\ ~graceful /\ ~forceful
    /\ inbox[s] < MaxReplies
    /\ inbox' = IF channelOpen THEN [inbox EXCEPT ![s] = @ + 1] ELSE inbox
    /\ UNCHANGED <<stopVars, machineVars, callVars, channelOpen>>

-----------------------------------------------------------------------------
(***************************************************************************)
(* The state machine.                                                      *)
(***************************************************************************)
TakeFrom(x) ==
    /\ IsReceiving
    /\ inbox[x] > 0
    /\ inbox' = [inbox EXCEPT ![x] = @ - 1]
    /\ UNCHANGED <<stopVars, state, caller, expired, closed, channelOpen>>

(* replySync(): the reply is sent to the caller's channel, ... *)
ReplySync(c) ==
    /\ TakeFrom(c)
    /\ c \in pending
    /\ pending' = pending \ {c}
    /\ full' = full \cup {c}
    /\ replying' = c
    /\ UNCHANGED looking

(* ... which is then closed, and the delivery acknowledged. *)
CloseReply ==
    /\ replying # Nobody
    /\ closed' = closed \cup {replying}
    /\ replying' = Nobody
    /\ UNCHANGED <<stopVars, state, pending, looking, caller, expired, full, brokerVars>>

(* Nobody waits for it any more: the delivery is rejected. *)
RejectReply(c) ==
    /\ TakeFrom(c)
    /\ c \notin pending
    /\ UNCHANGED <<pending, replying, looking, full>>

(* replyAsync() looks the session up, *)
ReplyAsync(s) ==
    /\ TakeFrom(s)
    /\ looking' = s
    /\ UNCHANGED <<pending, replying, full>>

(* and starts a goroutine for the session's handler, if there are both, or rejects
   the delivery: nothing waits for that goroutine. *)
LookUp ==
    /\ looking # Nobody
    /\ looking' = Nobody
    /\ UNCHANGED <<stopVars, state, pending, replying, callVars, brokerVars>>

Enters(s) ==
    /\ IsFree
    /\ state' = s
    /\ UNCHANGED <<stopVars, pending, replying, looking, callVars, brokerVars>>

(* run() *)
LeaveRun ==
    /\ state = "run"
    /\ \/ graceful /\ Enters("graceful")
       \/ forceful /\ Enters("forceful")
       \/ ~channelOpen /\ Enters("finalize")

(* Fault: a graceful stop does not wait for pending calls. *)
LeaveGracefulAtOnce == state = "graceful" /\ Enters("forceful")

(* graceful() *)
LeaveGraceful ==
    /\ state = "graceful"
    /\ \/ (pending = {} \/ forceful) /\ Enters("forceful")
       \/ pending # {} /\ ~channelOpen /\ Enters("finalize")

(* forceful() *)
CloseChannel ==
    /\ state = "forceful"
    /\ state' = "finalize"
    /\ channelOpen' = FALSE
    /\ UNCHANGED <<stopVars, pending, replying, looking, callVars, inbox>>

(* finalize() does nothing; Run() closes the channels of the service.  Replies that
   have not been received are lost. *)
Finalize ==
    /\ state = "finalize"
    /\ state' = "stopped"
    /\ Close
    /\ inbox' = [x \in Senders |-> 0]
    /\ UNCHANGED <<pending, replying, looking, callVars, channelOpen>>

-----------------------------------------------------------------------------

(* Calls always have a deadline, call() adds one to a context without; it matters
   until the caller leaves. *)
Expire(c) ==
    /\ caller[c] \in {"tracking", "publishing", "waiting"}
    /\ c \notin expired
    /\ expired' = expired \cup {c}
    /\ UNCHANGED <<stopVars, machineVars, caller, full, closed, brokerVars>>

(* A reply to a request that has been published, or one more. *)
Answer(c) ==
    /\ caller[c] \in {"waiting", "leaving", "cancelling", "ended"}
    /\ channelOpen
    /\ inbox[c] < MaxReplies
    /\ inbox' = [inbox EXCEPT ![c] = @ + 1]
    /\ UNCHANGED <<stopVars, machineVars, callVars, channelOpen>>

ChannelFails ==
    /\ channelOpen
    /\ channelOpen' = FALSE
    /\ UNCHANGED <<stopVars, machineVars, callVars, inbox>>

StopInvoker ==
    /\ Stop \/ GracefulStop
    /\ UNCHANGED <<machineVars, callVars, brokerVars>>

-----------------------------------------------------------------------------
CallerGoesOn(c) ==
    \/ Track(c) \/ GiveUp(c) \/ Publish(c) \/ PublishFails(c)
    \/ Receive(c) \/ Abandon(c) \/ Leave(c) \/ Cancel(c) \/ CancelStopped(c)

Replies ==
    \/ \E c \in Calls : ReplySync(c) \/ RejectReply(c)
    \/ CloseReply
    \/ \E s \in Async : ReplyAsync(s)

MachineStops == LeaveRun \/ LeaveGraceful \/ CloseChannel \/ Finalize

InvokerNext ==
    \/ \E c \in Calls : BeginCall(c) \/ CallerGoesOn(c) \/ Expire(c) \/ Answer(c)
    \/ \E s \in Async : Send(s)
    \/ Replies \/ LookUp \/ MachineStops
    \/ ChannelFails \/ StopInvoker

InvokerSpec == InvokerInit /\ [][InvokerNext]_invokerVars

-----------------------------------------------------------------------------
(***************************************************************************)
(* Properties.                                                             *)
(***************************************************************************)

(* Every variable keeps its type. *)
InvokerTypeOK ==
    /\ StopTypeOK
    /\ state \in States
    /\ pending \subseteq Calls
    /\ replying \in Calls \cup {Nobody}
    /\ looking \in Async \cup {Nobody}
    /\ caller \in [Calls -> Places]
    /\ expired \subseteq Calls
    /\ full \subseteq Calls
    /\ closed \subseteq Calls
    /\ inbox \in [Senders -> Nat]
    /\ channelOpen \in BOOLEAN

(* As long as the state machine receives, the Reply channels of pending calls are
   open and empty, so that replySync() neither blocks nor panics, and, until it is
   told to stop for good, i.pending holds calls in progress only, so that none is
   leaked: however reply, second reply, deadline and cancellation are ordered. *)
PendingCallsAreOpen ==
    state \in {"run", "graceful"} =>
        \A c \in pending :
            /\ c \notin full \cup closed
            /\ forceful \/ caller[c] \in {"publishing", "waiting", "leaving", "cancelling"}

(* peer.go:67 of rinq: on a graceful stop "Any calls to Session.Call(), command
   handlers or notification handlers must return before the peer has stopped."
   Unless it is told to stop for good meanwhile, the invoker goes on from its
   graceful state only when every call that it let in has its reply in its
   channel or is on its way out. *)
GracefulStopWaitsForCalls ==
    [][(state = "graceful" /\ state' = "forceful" /\ ~forceful) =>
          \A c \in Calls : caller[c] \in {"publishing", "waiting"} => c \in full]_invokerVars

=============================================================================
