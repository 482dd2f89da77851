------------------------------ MODULE Listener ------------------------------
(***************************************************************************)
(* Notifications on the peer that receives them: notifyamqp/listener.go,   *)
(* with the locks that it and the sessions take around each other.         *)
(*                                                                         *)
(* Three kinds of goroutine meet here.  Callers use a session: those that  *)
(* Listen or Unlisten hold the session's mutex for reading, and one that   *)
(* destroys it holds it for writing, until the listener's state machine    *)
(* has answered.  The state machine takes the listener's mutex to execute  *)
(* what they ask for.  Dispatchers, one goroutine per notification, hold   *)
(* the listener's mutex for reading while they ask a session for its ID,   *)
(* which takes the session's.                                              *)
(*                                                                         *)
(* Both are Go RWMutexes: a writer that waits keeps new readers out.       *)
(***************************************************************************)
EXTENDS StateMachine, FiniteSets, Naturals

CONSTANTS Sessions,
          Namespaces,
          Dispatchers,  \* bounds the notifications handled at one time: preFetch
          NoRequest

VARIABLES op,           \* what each caller is doing, and to which session
          isDestroyed,  \* the sessions with s.isDestroyed
          done,         \* the sessions whose Done() is closed
          phase,        \* the state that the state machine is in
          request,      \* the request that the state machine executes
          handlers,     \* l.handlers, the namespaces of each session
          count,        \* l.namespaces
          pending,      \* l.pending
          bound,        \* the namespaces the peer's queue is bound to
          channelOpen,  \* l.channel has not been closed
          job           \* what each dispatcher is doing

sessVars  == <<isDestroyed, done>>
tableVars == <<handlers, count, bound>>
vars == <<stopVars, do, op, sessVars, phase, request, tableVars, pending,
          channelOpen, job>>

Kinds  == {"none", "write", "destroy", "listen", "unlisten"}
Places == {"idle", "find", "scan", "next", "lookup", "invoke", "handling", "leaving"}
Phases == {"run", "stopConsuming", "waitForHandlers", "finalize", "stopped"}

Ops      == [kind : Kinds, sess : Sessions, ns : Namespaces]
Requests == [by : Callers, kind : Kinds, sess : Sessions, ns : Namespaces]
Jobs     == [at : Places, ns : Namespaces, sess : Sessions,
             left : SUBSET Sessions,   \* those Each() has yet to look at
             todo : SUBSET Sessions]   \* the targets not yet handled

(* There is something to do it to, and only so many goroutines. *)
ASSUME SetsAssumption ==
    /\ IsFiniteSet(Sessions) /\ Sessions # {}
    /\ IsFiniteSet(Dispatchers)
    /\ Namespaces # {}
ASSUME NoRequestAssumption == NoRequest \notin Requests

NoOp  == [kind |-> "none", sess |-> CHOOSE s \in Sessions : TRUE,
          ns |-> CHOOSE n \in Namespaces : TRUE]
NoJob == [at |-> "idle", sess |-> CHOOSE s \in Sessions : TRUE,
          ns |-> CHOOSE n \in Namespaces : TRUE, left |-> {}, todo |-> {}]

Init ==
    /\ SMInit
    /\ op = [c \in Callers |-> NoOp]
    /\ isDestroyed = {}
    /\ done = {}
    /\ phase = "run"
    /\ request = NoRequest
    /\ handlers = [s \in Sessions |-> {}]
    /\ count = [ns \in Namespaces |-> 0]
    /\ pending = 0
    /\ bound = {}
    /\ channelOpen = TRUE
    /\ job = [d \in Dispatchers |-> NoJob]

-----------------------------------------------------------------------------
(***************************************************************************)
(* The mutexes, in terms of who is where.                                  *)
(***************************************************************************)
ReadersOf(s) == {c \in Callers : op[c].kind \in {"listen", "unlisten"} /\ op[c].sess = s}

(* At most one: it holds the session's mutex for writing, or waits for it. *)
WritersOf(s) == {c \in Callers : op[c].kind \in {"write", "destroy"} /\ op[c].sess = s}

CanRead(s) == WritersOf(s) = {}

(* Fault: readers do not keep a writer out. *)
Unguarded(s) == TRUE

CanWrite(s) == ReadersOf(s) = {}

(* The listener's: dispatchers read, the state machine writes. *)
ListenerReaders  == {d \in Dispatchers : job[d].at = "lookup"}
ListenerCanRead  == request = NoRequest
ListenerCanWrite == ListenerReaders = {}

-----------------------------------------------------------------------------
(***************************************************************************)
(* Callers.  One whose request was abandoned stays aside until it has been *)
(* executed, so that a request belongs to one Do() at most.                *)
(***************************************************************************)
Free(c) ==
    /\ op[c] = NoOp
    /\ request # NoRequest => request.by # c

CallerUnchanged ==
    UNCHANGED <<stopVars, phase, request, tableVars, pending, channelOpen, job>>

(* Listen and Unlisten: the read lock, the test of isDestroyed, and Do(). *)
RegisterBegin(c, kind, s, ns) ==
    /\ Free(c)
    /\ CanRead(s)
    /\ s \notin isDestroyed
    /\ op' = [op EXCEPT ![c] = [kind |-> kind, sess |-> s, ns |-> ns]]
    /\ DoOffer(c)
    /\ UNCHANGED sessVars
    /\ CallerUnchanged

(* Destroy, or any operation that changes the session, waits for the lock. *)
LockBegin(c, kind, s) ==
    /\ Free(c)
    /\ WritersOf(s) = {}
    /\ op' = [op EXCEPT ![c] = [NoOp EXCEPT !.kind = kind, !.sess = s]]
    /\ UNCHANGED <<do, sessVars>>
    /\ CallerUnchanged

(* Updates, sends and the like, which do not call the listener; and Destroy
   of a session that is destroyed already. *)
Write(c) ==
    /\ op[c].kind = "write" \/ (op[c].kind = "destroy" /\ op[c].sess \in isDestroyed)
    /\ do[c] = "none"
    /\ CanWrite(op[c].sess)
    /\ op' = [op EXCEPT ![c] = NoOp]
    /\ UNCHANGED <<do, sessVars>>
    /\ CallerUnchanged

(* Session.destroy() marks the session and has the listener forget it. *)
Destroy(c) ==
    /\ op[c].kind = "destroy"
    /\ do[c] = "none"
    /\ op[c].sess \notin isDestroyed
    /\ CanWrite(op[c].sess)
    /\ isDestroyed' = isDestroyed \cup {op[c].sess}
    /\ DoOffer(c)
    /\ UNCHANGED <<op, done>>
    /\ CallerUnchanged

(* The caller unlocks the session and returns.  After a destroy the goroutine
   that closes Done() finds no calls to wait for: no caller makes any here. *)
Return(c) ==
    /\ DoReturn(c) \/ DoRefuse(c)
    /\ op' = [op EXCEPT ![c] = NoOp]
    /\ done' = IF op[c].kind = "destroy" THEN done \cup {op[c].sess} ELSE done
    /\ UNCHANGED isDestroyed
    /\ CallerUnchanged

-----------------------------------------------------------------------------
(***************************************************************************)
(* What the state machine executes, with the listener's mutex.  The broker *)
(* refuses to bind and unbind when the channel is closed; the error goes   *)
(* to the caller, and what was changed before it stays changed.            *)
(***************************************************************************)
TableUnchanged == UNCHANGED tableVars

BoundTo(cnt) == IF channelOpen THEN {ns \in Namespaces : cnt[ns] > 0} ELSE bound

(* Fault: a second handler for the namespace is counted again. *)
ListenAgain(s, ns) ==
    /\ handlers' = [handlers EXCEPT ![s] = @ \cup {ns}]
    /\ count' = [count EXCEPT ![ns] = @ + 1]
    /\ bound' = BoundTo(count')

Listen(s, ns) ==
    IF ns \in handlers[s]
    THEN TableUnchanged
    ELSE /\ handlers' = [handlers EXCEPT ![s] = @ \cup {ns}]
         /\ count' = [count EXCEPT ![ns] = @ + 1]
         /\ bound' = BoundTo(count')

Unlisten(s, ns) ==
    IF ns \notin handlers[s]
    THEN TableUnchanged
    ELSE /\ handlers' = [handlers EXCEPT ![s] = @ \ {ns}]
         /\ count' = [count EXCEPT ![ns] = @ - 1]
         /\ bound' = BoundTo(count')

(* If the channel is closed the loop ends at the first namespace that is to
   be unbound: the counts of those after it stay. *)
UnlistenAll(s) ==
    /\ handlers' = [handlers EXCEPT ![s] = {}]
    /\ \E N \in SUBSET handlers[s] :
          /\ channelOpen => N = handlers[s]
          /\ LET last == {ns \in N : count[ns] = 1}
             IN  \/ channelOpen
                 \/ last = {} /\ N = handlers[s]
                 \/ Cardinality(last) = 1
          /\ count' = [ns \in Namespaces |-> IF ns \in N THEN count[ns] - 1 ELSE count[ns]]
    /\ bound' = BoundTo(count')

-----------------------------------------------------------------------------
(***************************************************************************)
(* The state machine.  It serves requests while it runs, and while it      *)
(* waits for handlers as long as there are any.                            *)
(***************************************************************************)
IsServing == phase = "run" \/ (phase = "waitForHandlers" /\ pending > 0)

Accept(c) ==
    /\ IsServing
    /\ request = NoRequest
    /\ DoAccept(c)
    /\ request' = [by |-> c, kind |-> op[c].kind, sess |-> op[c].sess, ns |-> op[c].ns]
    /\ UNCHANGED <<stopVars, op, sessVars, phase, tableVars, pending, channelOpen, job>>

Execute ==
    /\ request # NoRequest
    /\ ListenerCanWrite
    /\ \/ request.kind = "listen" /\ Listen(request.sess, request.ns)
       \/ request.kind = "unlisten" /\ Unlisten(request.sess, request.ns)
       \/ request.kind = "destroy" /\ UnlistenAll(request.sess)
    /\ DoReply(request.by)
    /\ request' = NoRequest
    /\ UNCHANGED <<stopVars, op, sessVars, phase, pending, channelOpen, job>>

MachineUnchanged ==
    UNCHANGED <<do, op, sessVars, request, tableVars, pending, job>>

(* run(): a graceful stop, a stop, or the channel's end. *)
LeaveRun ==
    /\ phase = "run"
    /\ request = NoRequest
    /\ \/ graceful /\ phase' = "stopConsuming"
       \/ (forceful \/ ~channelOpen) /\ phase' = "finalize"
    /\ MachineUnchanged
    /\ UNCHANGED <<stopVars, channelOpen>>

(* Cancels the consumer and rejects what was delivered before; nobody else
   has seen it. *)
StopConsuming ==
    /\ phase = "stopConsuming"
    /\ phase' = IF channelOpen THEN "waitForHandlers" ELSE "finalize"
    /\ MachineUnchanged
    /\ UNCHANGED <<stopVars, channelOpen>>

(* Fault: the handlers are not waited for. *)
WaitForNobody ==
    /\ phase = "waitForHandlers"
    /\ request = NoRequest
    /\ phase' = "finalize"
    /\ MachineUnchanged
    /\ UNCHANGED <<stopVars, channelOpen>>

WaitForHandlers ==
    /\ phase = "waitForHandlers"
    /\ request = NoRequest
    /\ pending = 0 \/ forceful
    /\ phase' = "finalize"
    /\ MachineUnchanged
    /\ UNCHANGED <<stopVars, channelOpen>>

(* finalize() closes the channel, and Run() all of Done()'s. *)
Finalize ==
    /\ phase = "finalize"
    /\ phase' = "stopped"
    /\ channelOpen' = FALSE
    /\ Close
    /\ MachineUnchanged

-----------------------------------------------------------------------------
(***************************************************************************)
(* Dispatchers.                                                            *)
(***************************************************************************)
DispatchUnchanged ==
    UNCHANGED <<stopVars, do, op, sessVars, phase, request, tableVars, channelOpen>>

(* The state machine takes a delivery and starts a goroutine for it.  The
   namespace need not be bound any more: the queue may hold older ones. *)
Deliver(d, ns) ==
    /\ phase = "run"
    /\ request = NoRequest
    /\ job[d].at = "idle"
    /\ pending < Cardinality(Dispatchers)
    /\ pending' = pending + 1
    /\ job' = [job EXCEPT ![d] = [NoJob EXCEPT !.at = "find", !.ns = ns]]
    /\ DispatchUnchanged

Moves(d, j) ==
    /\ job' = [job EXCEPT ![d] = j]
    /\ DispatchUnchanged
    /\ UNCHANGED pending

(* The target of a unicast, if it is in the store; and no target for a message
   that is rejected. *)
FindUnicastTarget(d) ==
    /\ job[d].at = "find"
    /\ \E S \in SUBSET Sessions :
          /\ Cardinality(S) <= 1
          /\ Moves(d, [job[d] EXCEPT !.at = "next", !.todo = S])

(* For a multicast, Each() calls Attrs() of one session after the other ... *)
FindMulticastTargets(d) ==
    /\ job[d].at = "find"
    /\ Moves(d, [job[d] EXCEPT !.at = "scan", !.left = Sessions])

(* ... which may match the constraint or not. *)
MatchConstraint(d, s) ==
    /\ job[d].at = "scan"
    /\ s \in job[d].left
    /\ CanRead(s)
    /\ \E S \in {{}, {s}} :
          Moves(d, [job[d] EXCEPT !.at = IF job[d].left = {s} THEN "next" ELSE "scan",
                                  !.left = @ \ {s}, !.todo = @ \cup S])

(* handle() takes the listener's mutex ... *)
NextTarget(d, s) ==
    /\ job[d].at = "next"
    /\ s \in job[d].todo
    /\ ListenerCanRead
    /\ Moves(d, [job[d] EXCEPT !.at = "lookup", !.sess = s, !.todo = @ \ {s}])

(* ... and with it calls sess.ID(), then finds the handler. *)
LookUp(d) ==
    /\ job[d].at = "lookup"
    /\ CanRead(job[d].sess)
    /\ Moves(d, [job[d] EXCEPT !.at =
                    IF job[d].ns \in handlers[job[d].sess] THEN "invoke" ELSE "next"])

(* The function that Session.Listen() registered reads the session's ref
   before it calls the application's handler. *)
Invoke(d) ==
    /\ job[d].at = "invoke"
    /\ CanRead(job[d].sess)
    /\ Moves(d, [job[d] EXCEPT !.at = "handling"])

HandlerReturns(d) ==
    /\ job[d].at = "handling"
    /\ Moves(d, [job[d] EXCEPT !.at = "next"])

(* All targets done: the message is settled. *)
Settle(d) ==
    /\ job[d].at = "next"
    /\ job[d].todo = {}
    /\ Moves(d, [job[d] EXCEPT !.at = "leaving"])

(* DoGraceful() counts the handler off, unless the listener has stopped. *)
Leave(d) ==
    /\ job[d].at = "leaving"
    /\ \/ IsServing /\ request = NoRequest /\ pending' = pending - 1
       \/ IsHalted /\ UNCHANGED pending
    /\ job' = [job EXCEPT ![d] = NoJob]
    /\ DispatchUnchanged

-----------------------------------------------------------------------------
(***************************************************************************)
(* The peer, the broker and the senders.                                   *)
(***************************************************************************)
EnvironmentUnchanged ==
    UNCHANGED <<do, op, sessVars, phase, request, tableVars, pending, job>>

StopRequest ==
    /\ Stop \/ GracefulStop
    /\ EnvironmentUnchanged
    /\ UNCHANGED channelOpen

ChannelFails ==
    /\ channelOpen
    /\ channelOpen' = FALSE
    /\ EnvironmentUnchanged
    /\ UNCHANGED stopVars

-----------------------------------------------------------------------------
CallerGoesOn(c) == Write(c) \/ Destroy(c) \/ Return(c)

MachineStops == LeaveRun \/ StopConsuming \/ WaitForHandlers \/ Finalize

DispatcherGoesOn(d) ==
    \/ FindUnicastTarget(d) \/ FindMulticastTargets(d)
    \/ \E s \in Sessions : MatchConstraint(d, s) \/ NextTarget(d, s)
    \/ LookUp(d) \/ Invoke(d) \/ HandlerReturns(d)
    \/ Settle(d) \/ Leave(d)

CallerStep(c) ==
    \/ \E s \in Sessions, ns \in Namespaces, kind \in {"listen", "unlisten"} :
          RegisterBegin(c, kind, s, ns)
    \/ \E s \in Sessions, kind \in {"write", "destroy"} : LockBegin(c, kind, s)
    \/ CallerGoesOn(c)

MachineStep == (\E c \in Callers : Accept(c)) \/ Execute \/ MachineStops

DispatchStep(d) == (\E ns \in Namespaces : Deliver(d, ns)) \/ DispatcherGoesOn(d)

Next ==
    \/ \E c \in Callers : CallerStep(c)
    \/ MachineStep
    \/ \E d \in Dispatchers : DispatchStep(d)
    \/ StopRequest \/ ChannelFails

Spec == Init /\ [][Next]_vars

(***************************************************************************)
(* Nobody has to start anything.  Once started, a goroutine goes on when   *)
(* it can, and the application's handlers return.  Fairness is strong where*)
(* a step can be disabled for a while: Go's select chooses among what is   *)
(* ready at random, and its RWMutex lets in the readers that wait when a   *)
(* writer leaves.                                                          *)
(***************************************************************************)
Fairness ==
    /\ \A c \in Callers : WF_vars(CallerGoesOn(c)) /\ SF_vars(Accept(c))
    /\ WF_vars(Execute) /\ SF_vars(MachineStops)
    /\ \A d \in Dispatchers : SF_vars(DispatcherGoesOn(d))

FairSpec == Spec /\ Fairness

-----------------------------------------------------------------------------
(***************************************************************************)
(* Properties.                                                             *)
(***************************************************************************)

(* Every variable keeps its type. *)
TypeOK ==
    /\ SMTypeOK
    /\ op \in [Callers -> Ops]
    /\ isDestroyed \subseteq Sessions
    /\ done \subseteq isDestroyed
    /\ phase \in Phases
    /\ request \in Requests \cup {NoRequest}
    /\ handlers \in [Sessions -> SUBSET Namespaces]
    /\ count \in [Namespaces -> Nat]
    /\ pending \in Nat
    /\ bound \subseteq Namespaces
    /\ channelOpen \in BOOLEAN
    /\ job \in [Dispatchers -> Jobs]

Holders(ns) == {s \in Sessions : ns \in handlers[s]}

(* As long as the channel is open the peer's queue is bound to exactly the
   namespaces that some session has a handler for, however the sessions'
   listens, unlistens and destroys are mixed: bind() and unbind() count them. *)
BindingsMatch ==
    channelOpen =>
        /\ bound = UNION {handlers[s] : s \in Sessions}
        /\ \A ns \in Namespaces : count[ns] = Cardinality(Holders(ns))

(* peer.go:67 of rinq: on a graceful stop "Any calls to Session.Call(), command
   handlers or notification handlers must return before the peer has stopped."
   The listener leaves its last state only when no dispatcher is at work, unless
   it is stopped for good meanwhile. *)
GracefulStopWaits ==
    [][(phase = "waitForHandlers" /\ phase' = "finalize" /\ ~forceful) =>
          \A d \in Dispatchers : job[d].at = "idle"]_vars

(* The comment at session.go:309: Listen() and UnlistenAll() are serialized.
   So no notification finds a handler of a session whose Destroy has been
   completed, unless the listener was stopping when it was destroyed. *)
NoHandlerAfterDestroy ==
    [][\A d \in Dispatchers :
          (job[d].at = "lookup" /\ job'[d].at = "invoke" /\ ~IsStopping) =>
              job[d].sess \notin done]_vars

(* A stop ends the listener and releases everyone who waits for it, even those
   that wait for each other's locks.  (The loss of the channel does not: the
   state machine may never look.) *)
StopReleasesAll ==
    /\ (graceful \/ forceful) ~> (phase = "stopped")
    /\ \A c \in Callers : (IsStopping /\ do[c] # "none") ~> (do[c] = "none")

(* session.go:163 of rinq: Done() "is closed when the session is destroyed
   and any pending Session.Call() operations have completed"; no session has
   any calls here. *)
DoneCloses == \A s \in Sessions : (s \in isDestroyed) ~> (s \in done)
=============================================================================
