---------------------------- MODULE LocalSession ----------------------------
(***************************************************************************)
(* A session and the program that uses it on the peer that owns it:        *)
(* localsession/session.go, revision.go and store.go, and the goroutine of *)
(* rinqamqp/peer.go that forgets a session once it is done.                *)
(*                                                                         *)
(* Clients are goroutines.  Each holds the revision it obtained last.  The *)
(* session's RWMutex is explicit where it is held across a call into       *)
(* another component: Listen, Unlisten and SetAsyncHandler test            *)
(* isDestroyed and then call the listener or the invoker under the read    *)
(* lock, and readers is the set of clients between the two; destroy()      *)
(* waits for the listener under the write lock, and destroying holds the   *)
(* client that does.  Everything else the mutex guards is one step.        *)
(*                                                                         *)
(* The listener is known by what Do() of its state machine can do to a     *)
(* caller: answer it, keep it waiting, and, once it has been told to stop, *)
(* send it away, although what it asked for may still be executed.         *)
(***************************************************************************)
EXTENDS SessionState

CONSTANTS Clients,
          MaxSeq   \* bound on message sequence numbers, uint32 in the code

ASSUME MaxSeqAssumption == MaxSeq \in Nat

VARIABLES handle,        \* the revision each client holds
          outcome,       \* the result of each client's last operation
          calls,         \* clients in Call(): the WaitGroup s.calls
          readers,       \* clients that hold s.mutex for reading
          destroying,    \* the client in UnlistenAll(), holding it for writing
          asyncHandler,  \* the invoker has an async handler for the session
          listening,     \* namespaces the listener has a handler for
          abandoned,     \* the request the listener executes that nobody waits for
          listenerStopped, \* the listener has been told to stop, or has stopped
          ignored,       \* ghost: UnlistenAll() returned ErrStopped to destroy()
          waiting,       \* the goroutine started by destroy() is in Wait()
          done,          \* s.done is closed
          stored,        \* the session is in the peer's localsession.Store
          issued         \* ghost: the message IDs issued, in order

listenerVars == <<listening, abandoned, listenerStopped>>
endVars      == <<asyncHandler, ignored, waiting, done, stored>>
sessVars == <<calls, readers, destroying, listenerVars, endVars, issued>>
vars     == <<stateVars, handle, outcome, sessVars>>

Outcomes == {"ok", "stale", "frozen", "notFound", "stopped"}

Handles == [kind : {"none", "open", "closed"}, rev : Nat, attrs : Catalog]

(* What a session asks of the listener; UnlistenAll() is about all of them. *)
Requests == [kind : {"listen", "unlisten"}, namespaces : SUBSET Namespaces]

NoHandle   == [kind |-> "none", rev |-> 0, attrs |-> EmptyCatalog]
Closed     == [kind |-> "closed", rev |-> 0, attrs |-> EmptyCatalog]
Open(r, a) == [kind |-> "open", rev |-> r, attrs |-> a]

Init ==
    /\ StateInit
    /\ handle = [c \in Clients |-> NoHandle]
    /\ outcome = [c \in Clients |-> "ok"]
    /\ calls = {}
    /\ readers = {}
    /\ destroying = {}
    /\ asyncHandler = FALSE
    /\ listening = {}
    /\ abandoned = {}
    /\ listenerStopped = FALSE
    /\ ignored = FALSE
    /\ waiting = FALSE
    /\ done = FALSE
    /\ stored = TRUE
    /\ issued = <<>>

Idle(c)  == c \notin calls \cup readers \cup destroying
IsOpen(c) == handle[c].kind = "open"

(* Fault: the mutex is not taken. *)
Unlocked == TRUE

(* s.mutex can be locked for writing, and for reading. *)
Lockable == readers = {} /\ destroying = {}

Readable == destroying = {}

Returns(c, o) == outcome' = [outcome EXCEPT ![c] = o]
Holds(c, h)   == handle' = [handle EXCEPT ![c] = h]

-----------------------------------------------------------------------------
(***************************************************************************)
(* Reading attributes.  A read changes nothing: these are what Get and     *)
(* GetMany return, and when they fail with StaleFetchError.                *)
(***************************************************************************)
Get(h, ns, k) == IF h.rev = 0 THEN Blank ELSE ValueAt(h.attrs[ns][k], h.rev)

GetIsStale(h, ns, k) == h.rev # 0 /\ IsStale(h.attrs[ns][k], h.rev)

GetMany(h, ns, ks) == [k \in ks |-> ValueAt(h.attrs[ns][k], h.rev)]

GetManyIsStale(h, ns, ks) == \E k \in ks : IsStale(h.attrs[ns][k], h.rev)

-----------------------------------------------------------------------------
(***************************************************************************)
(* Obtaining revisions.                                                    *)
(***************************************************************************)
CurrentRevision(c) ==
    /\ Idle(c) /\ Readable
    /\ Holds(c, IF isDestroyed THEN Closed ELSE Open(rev, attrs))
    /\ Returns(c, "ok")
    /\ UNCHANGED <<stateVars, sessVars>>

Refresh(c) ==
    /\ handle[c].kind # "none"
    /\ \/ IsOpen(c) /\ CurrentRevision(c)
       \/ /\ ~IsOpen(c)
          /\ Idle(c)
          /\ Returns(c, "ok")
          /\ UNCHANGED <<stateVars, handle, sessVars>>

(* The revision a message was sent at, as its receiver obtains it. *)
GetRevision(c, r) ==
    /\ Idle(c) /\ Readable
    /\ r <= rev
    /\ Holds(c, IF stored THEN Open(r, attrs) ELSE Closed)
    /\ Returns(c, "ok")
    /\ UNCHANGED <<stateVars, sessVars>>

-----------------------------------------------------------------------------
(***************************************************************************)
(* Operations on a revision.                                               *)
(***************************************************************************)
Update(c, ns, l) ==
    /\ Idle(c) /\ IsOpen(c) /\ Lockable
    /\ l # <<>>
    /\ Returns(c, UpdateError(handle[c].rev, ns, l))
    /\ \/ /\ TryUpdate(handle[c].rev, ns, l)
          /\ Holds(c, Open(rev', attrs'))
       \/ /\ ~CanUpdate(handle[c].rev, ns, l)
          /\ UNCHANGED <<stateVars, handle>>
    /\ UNCHANGED sessVars

Clear(c, ns) ==
    /\ Idle(c) /\ IsOpen(c) /\ Lockable
    /\ Returns(c, ClearError(handle[c].rev, ns))
    /\ \/ /\ TryClear(handle[c].rev, ns)
          /\ Holds(c, Open(rev', attrs'))
       \/ /\ ~CanClear(handle[c].rev, ns)
          /\ UNCHANGED <<stateVars, handle>>
    /\ UNCHANGED sessVars

(* Session.destroy(), with the write lock held, as far as UnlistenAll(). *)
DestroyBegin(c) ==
    /\ isDestroyed' = TRUE
    /\ asyncHandler' = FALSE
    /\ destroying' = {c}
    /\ UNCHANGED <<rev, msgSeq, attrs, history, outcome, calls, readers, listenerVars,
                   ignored, waiting, done, stored, issued>>

RevisionDestroy(c) ==
    /\ Idle(c) /\ IsOpen(c) /\ Lockable
    /\ \/ /\ handle[c].rev = rev /\ ~isDestroyed
          /\ DestroyBegin(c)
       \/ /\ handle[c].rev # rev \/ isDestroyed
          /\ Returns(c, DestroyError(handle[c].rev))
          /\ UNCHANGED <<stateVars, sessVars>>
    /\ UNCHANGED handle

(* An operation on a revision that revisions.Closed() returned: Destroy
   succeeds, all others fail. *)
UseClosed(c) ==
    /\ Idle(c)
    /\ handle[c].kind = "closed"
    /\ Returns(c, "notFound") \/ Returns(c, "ok")
    /\ UNCHANGED <<stateVars, handle, sessVars>>

-----------------------------------------------------------------------------
(***************************************************************************)
(* Operations on the session.                                              *)
(***************************************************************************)
SessionDestroy(c) ==
    /\ Idle(c) /\ Lockable
    /\ \/ /\ ~isDestroyed
          /\ DestroyBegin(c)
       \/ /\ isDestroyed
          /\ Returns(c, "ok")
          /\ UNCHANGED <<stateVars, sessVars>>
    /\ UNCHANGED handle

(* nextMessageID(), with the write lock held. *)
IssueID ==
    /\ msgSeq < MaxSeq
    /\ msgSeq' = msgSeq + 1
    /\ issued' = Append(issued, <<rev, msgSeq'>>)
    /\ UNCHANGED <<rev, isDestroyed, attrs, history>>

CallBegin(c) ==
    /\ Idle(c) /\ Lockable
    /\ ~isDestroyed
    /\ IssueID
    /\ calls' = calls \cup {c}
    /\ Returns(c, "ok")
    /\ UNCHANGED <<handle, readers, destroying, listenerVars, endVars>>

(* The call is answered, its deadline passes, or the invoker stops. *)
CallEnd(c) ==
    /\ c \in calls
    /\ calls' = calls \ {c}
    /\ UNCHANGED <<stateVars, handle, outcome, readers, destroying, listenerVars,
                   endVars, issued>>

(* CallAsync, Execute, Notify and NotifyMany. *)
Send(c) ==
    /\ Idle(c) /\ Lockable
    /\ ~isDestroyed
    /\ IssueID
    /\ Returns(c, "ok")
    /\ UNCHANGED <<handle, calls, readers, destroying, listenerVars, endVars>>

(* SetAsyncHandler, Listen and Unlisten take the read lock ... *)
RegisterBegin(c) ==
    /\ Idle(c) /\ Readable
    /\ ~isDestroyed
    /\ readers' = readers \cup {c}
    /\ UNCHANGED <<stateVars, handle, outcome, calls, destroying, listenerVars,
                   endVars, issued>>

(* ... and release it after the call to the invoker or the listener. *)
RegisterEnd(c) ==
    /\ c \in readers
    /\ readers' = readers \ {c}
    /\ UNCHANGED <<stateVars, handle, calls, destroying, ignored, waiting, done,
                   stored, issued>>

SetAsyncHandler(c) ==
    /\ RegisterEnd(c)
    /\ asyncHandler' = TRUE
    /\ Returns(c, "ok")
    /\ UNCHANGED listenerVars

(* The listener's handlers after request r.  It is not undone if the broker
   refuses to bind or unbind, an error that is not told apart from success. *)
HandlersAfter(r) ==
    IF r.kind = "listen" THEN listening \cup r.namespaces ELSE listening \ r.namespaces

(* Do() of the listener, at its end: whether request r was executed, will be or
   never is, and whether the caller is told that the listener is stopping. *)
AskListener(r, stopped) ==
    /\ stopped => listenerStopped
    /\ \/ /\ abandoned = {}
          /\ listening' = HandlersAfter(r)
          /\ UNCHANGED abandoned
       \/ /\ stopped
          /\ abandoned = {}
          /\ abandoned' = {r}
          /\ UNCHANGED listening
       \/ /\ stopped
          /\ UNCHANGED <<listening, abandoned>>
    /\ UNCHANGED listenerStopped

Register(c, r) ==
    /\ RegisterEnd(c)
    /\ \E stopped \in BOOLEAN :
          /\ AskListener(r, stopped)
          /\ Returns(c, IF stopped THEN "stopped" ELSE "ok")
    /\ UNCHANGED asyncHandler

Listen(c, ns)   == Register(c, [kind |-> "listen", namespaces |-> {ns}])
Unlisten(c, ns) == Register(c, [kind |-> "unlisten", namespaces |-> {ns}])

(* Fault: destroy() gives up if UnlistenAll() fails. *)
WaitUnlessStopped(stopped) == waiting' = ~stopped

(* destroy() starts the goroutine that closes s.done, whatever it was told. *)
StartWaiting(stopped) == waiting' = TRUE

(* destroy() after UnlistenAll(), whose error it ignores, up to the return of
   the Destroy that called it. *)
DestroyEnd(c) ==
    /\ c \in destroying
    /\ \E stopped \in BOOLEAN :
          /\ AskListener([kind |-> "unlisten", namespaces |-> Namespaces], stopped)
          /\ ignored' = stopped
          /\ StartWaiting(stopped)
    /\ destroying' = {}
    /\ Returns(c, "ok")
    /\ UNCHANGED <<stateVars, handle, calls, readers, asyncHandler, done, stored, issued>>

(* Any operation of the session that finds it destroyed. *)
UseDestroyed(c) ==
    /\ Idle(c) /\ Readable
    /\ isDestroyed
    /\ Returns(c, "notFound")
    /\ UNCHANGED <<stateVars, handle, sessVars>>

-----------------------------------------------------------------------------
(***************************************************************************)
(* The goroutine of destroy(), and the one of peer.Session().              *)
(***************************************************************************)
(* Fault: the goroutine does not wait for s.calls. *)
CloseDoneAtOnce ==
    /\ waiting
    /\ done' = TRUE
    /\ waiting' = FALSE
    /\ UNCHANGED <<stateVars, handle, outcome, calls, readers, destroying, listenerVars,
                   asyncHandler, ignored, stored, issued>>

CloseDone ==
    /\ waiting
    /\ calls = {}
    /\ done' = TRUE
    /\ waiting' = FALSE
    /\ UNCHANGED <<stateVars, handle, outcome, calls, readers, destroying, listenerVars,
                   asyncHandler, ignored, stored, issued>>

RemoveFromStore ==
    /\ done
    /\ stored
    /\ stored' = FALSE
    /\ UNCHANGED <<stateVars, handle, outcome, calls, readers, destroying, listenerVars,
                   asyncHandler, ignored, waiting, done, issued>>

-----------------------------------------------------------------------------
(***************************************************************************)
(* The listener, which others stop.  What it executes then, and for whom,  *)
(* is opened up in module Listener.                                        *)
(***************************************************************************)
ListenerStops ==
    /\ ~listenerStopped
    /\ listenerStopped' = TRUE
    /\ UNCHANGED <<stateVars, handle, outcome, calls, readers, destroying, listening,
                   abandoned, endVars, issued>>

ExecuteAbandoned ==
    /\ \E r \in abandoned : listening' = HandlersAfter(r)
    /\ abandoned' = {}
    /\ UNCHANGED <<stateVars, handle, outcome, calls, readers, destroying,
                   listenerStopped, endVars, issued>>

-----------------------------------------------------------------------------
ClientStep(c) ==
    \/ CurrentRevision(c) \/ Refresh(c)
    \/ \E r \in 0..MaxRev : GetRevision(c, r)
    \/ \E ns \in Namespaces, l \in Lists : Update(c, ns, l)
    \/ \E ns \in Namespaces : Clear(c, ns)
    \/ RevisionDestroy(c) \/ UseClosed(c)
    \/ SessionDestroy(c) \/ DestroyEnd(c)
    \/ CallBegin(c) \/ CallEnd(c) \/ Send(c)
    \/ RegisterBegin(c) \/ SetAsyncHandler(c)
    \/ \E ns \in Namespaces : Listen(c, ns) \/ Unlisten(c, ns)
    \/ UseDestroyed(c)

Next ==
    \/ CloseDone \/ RemoveFromStore
    \/ ListenerStops \/ ExecuteAbandoned
    \/ \E c \in Clients : ClientStep(c)

Spec == Init /\ [][Next]_vars

(***************************************************************************)
(* A call ends because the invoker gives every call a deadline; the two    *)
(* goroutines are always runnable.  Nothing obliges a client to act, nor   *)
(* the listener to answer a destroy(): they can block each other.  But     *)
(* every select of Do() also waits for the listener's stop.                *)
(***************************************************************************)
Fairness ==
    /\ \A c \in Clients :
          /\ WF_vars(CallEnd(c))
          /\ WF_vars(listenerStopped /\ DestroyEnd(c))
    /\ WF_vars(CloseDone)
    /\ WF_vars(RemoveFromStore)

FairSpec == Spec /\ Fairness

-----------------------------------------------------------------------------
(***************************************************************************)
(* Properties.                                                             *)
(***************************************************************************)

(* Every variable keeps its type; history has one version per revision. *)
TypeOK ==
    /\ StateTypeOK
    /\ handle \in [Clients -> Handles]
    /\ outcome \in [Clients -> Outcomes]
    /\ calls \subseteq Clients
    /\ readers \subseteq Clients
    /\ destroying \subseteq Clients
    /\ asyncHandler \in BOOLEAN
    /\ listening \subseteq Namespaces
    /\ abandoned \subseteq Requests
    /\ listenerStopped \in BOOLEAN
    /\ ignored \in BOOLEAN
    /\ waiting \in BOOLEAN
    /\ done \in BOOLEAN
    /\ stored \in BOOLEAN
    /\ issued \in Seq(Nat \X Nat)

(* revision.go:34 of rinq: "The returned attribute is guaranteed to be
   correct as of Ref().Rev."  Whatever revision a client holds, from
   CurrentRevision, GetRevision at an older revision or its own update, and
   whatever happened since, a Get either fails as stale or returns what the
   attribute was at that revision. *)
ReadsAreCorrect ==
    \A c \in Clients, ns \in Namespaces, k \in Keys :
        IsOpen(c) =>
            \/ GetIsStale(handle[c], ns, k)
            \/ Get(handle[c], ns, k) = history[handle[c].rev][ns][k]

(* revision.go:41 of rinq: a Get fails as stale only "because it has already
   been modified": some revision after the client's says something else.  It
   is about update lists that do not name a key twice. *)
StaleOnlyIfModified ==
    \A c \in Clients, ns \in Namespaces, k \in Keys :
        (IsOpen(c) /\ GetIsStale(handle[c], ns, k)) =>
            \E r \in handle[c].rev + 1 .. rev :
                history[r][ns][k] # history[handle[c].rev][ns][k]

(* Once an attribute is frozen no later revision changes its value or
   thaws it, whichever operations, of whichever clients, lie between. *)
FrozenForever ==
    \A ns \in Namespaces, k \in Keys : \A r1, r2 \in 0..rev :
        (r1 <= r2 /\ history[r1][ns][k].frozen) =>
            history[r2][ns][k] = history[r1][ns][k]

IDBefore(a, b) == a[1] < b[1] \/ (a[1] = b[1] /\ a[2] < b[2])

(* Message IDs are issued in strictly increasing order, so never twice,
   although the sequence restarts with every revision (session_state.go:93
   and :144) and several clients send. *)
IssuedInOrder ==
    \A i, j \in 1..Len(issued) : i < j => IDBefore(issued[i], issued[j])

(* What a client was told stays true: an update failed as stale because
   another client's commit came after the revision it holds, as frozen
   because there is a frozen attribute, as not found because the session is
   destroyed for good, as stopped because the listener is; and only a
   destroyed session hands out closed revisions.  A list that names a key
   twice may be refused as frozen because of what it does itself, so it is
   about lists that do not. *)
ErrorsAreTruthful ==
    \A c \in Clients :
        /\ outcome[c] = "stale" => handle[c].rev < rev
        /\ outcome[c] = "frozen" =>
              \E ns \in Namespaces, k \in Keys : attrs[ns][k].frozen
        /\ outcome[c] = "notFound" => isDestroyed
        /\ outcome[c] = "stopped" => listenerStopped
        /\ handle[c].kind = "closed" => isDestroyed

(* A destroyed session has no handler with the invoker, even though
   SetAsyncHandler tests isDestroyed some time before it registers
   (session.go:165), and none with the listener, once destroy() has returned
   (session.go:309), even though Listen does the same and the listener may
   execute requests whose callers have left.  The exception is a destroy() to
   which the listener did not answer because it was stopping: the code ignores
   that, and the handlers stay. *)
DestroyedIsSilent ==
    isDestroyed =>
        /\ ~asyncHandler
        /\ \/ listening = {} /\ abandoned = {}
           \/ destroying # {}
           \/ ignored /\ listenerStopped

(* session_state.go:181: destroy() "removes any callbacks registered with the
   command and notification subsystems". *)
CallbacksRemoved == (isDestroyed /\ destroying = {}) => ~asyncHandler /\ listening = {}

(* Done() closes only when the session is destroyed and no call is pending,
   and the session leaves the store only after that; so a server can still
   answer for the session while it has calls that may query it. *)
DoneMeansQuiescent ==
    /\ done => isDestroyed /\ calls = {}
    /\ ~stored => done

(* A destroyed session issues no message, changes no attribute and never
   comes back. *)
NothingAfterDestroy ==
    [][isDestroyed => UNCHANGED <<rev, attrs, history, msgSeq, isDestroyed, issued>>]_vars

(* A destroyed session is eventually done and forgotten by its peer, whatever
   UnlistenAll() returned, unless destroy() still waits for it; and then it is
   so when the listener stops.  (ListenerDeadlock is how it can wait for ever.) *)
DestroyCompletes ==
    (isDestroyed /\ (destroying = {} \/ listenerStopped)) ~> (done /\ ~stored)

(* The session is the versioned table of VersionedSession: every new version
   was made by a client that held the one before it. *)
Versioned == INSTANCE VersionedSession
                 WITH head <- rev, versions <- history, destroyed <- isDestroyed,
                      base <- [c \in Clients |-> handle[c].rev], Shared <- FALSE

ImplementsVersioned == Versioned!Spec
=============================================================================
