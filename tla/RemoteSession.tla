---------------------------- MODULE RemoteSession ---------------------------
(***************************************************************************)
(* A session as another peer sees it: remotesession/session.go with its    *)
(* cache, client.go and server.go, and revision.go on top of them.  The    *)
(* owner's half is SessionState.                                           *)
(*                                                                         *)
(* Threads are goroutines of the other peer that share one session object. *)
(* An operation tests the cache under the mutex, releases it, makes a call *)
(* to the owner, and takes the mutex again to record the answer: a step    *)
(* each.  Between them other threads record answers of their own, the      *)
(* owner's clients change the session, and the deadline of the call may    *)
(* pass, in which case the owner may still execute it.                     *)
(***************************************************************************)
EXTENDS SessionState

CONSTANTS Threads,
          Ops      \* the operations that threads use

AllOps == {"head", "fetch", "update", "clear", "destroy"}

ASSUME OpsAssumption        == Ops \subseteq AllOps
ASSUME NamespacesAssumption == Namespaces # {}

VARIABLES stored,      \* the owner's localsession.Store has the session
          highestRev,  \* s.highestRev
          cache,       \* s.cache
          isClosed,    \* s.isClosed
          handle,      \* the revision each thread holds
          call         \* the operation each thread is in the middle of

peerVars == <<highestRev, cache, isClosed>>
vars     == <<stateVars, stored, peerVars, handle, call>>

(* cachedAttr; FetchedAt is zero when the Go map has no entry. *)
Entries == [value : Values, frozen : BOOLEAN,
            createdAt : Nat, updatedAt : Nat, fetchedAt : Nat]

NoEntry == [value |-> Empty, frozen |-> FALSE,
            createdAt |-> 0, updatedAt |-> 0, fetchedAt |-> 0]

IsCached(e) == e.fetchedAt # 0

Handles == [kind : {"none", "open", "closed"}, rev : Nat]

NoHandle == [kind |-> "none", rev |-> 0]
Closed   == [kind |-> "closed", rev |-> 0]
Open(r)  == [kind |-> "open", rev |-> r]

(***************************************************************************)
(* A call in progress.  keys are those a fetch asks the owner for, list is *)
(* what an update sends after the cache has been consulted.  Two fields    *)
(* are ghosts: asked, the list the caller passed, and afterDestroy, that   *)
(* the session was already destroyed when the operation began.             *)
(***************************************************************************)
Errors == {"ok", "notFound", "stale", "frozen"}
Phases == {"idle", "sent", "applied", "replied"}

NoCall ==
    [op |-> "head", phase |-> "idle", rev |-> 0, ns |-> CHOOSE ns \in Namespaces : TRUE,
     keys |-> {}, list |-> <<>>, asked |-> <<>>, afterDestroy |-> FALSE,
     error |-> "ok", newRev |-> 0, table |-> EmptyTable]

Calls ==
    [op : AllOps, phase : Phases, rev : Nat, ns : Namespaces,
     keys : SUBSET Keys, list : Seq(Attr), asked : Seq(Attr), afterDestroy : BOOLEAN,
     error : Errors, newRev : Nat, table : VTable]

Init ==
    /\ StateInit
    /\ stored = TRUE
    /\ highestRev = 0
    /\ cache = [ns \in Namespaces |-> [k \in Keys |-> NoEntry]]
    /\ isClosed = FALSE
    /\ handle = [t \in Threads |-> NoHandle]
    /\ call = [t \in Threads |-> NoCall]

Idle(t)    == call[t].phase = "idle"
CanUse(t)  == Idle(t) /\ handle[t].kind = "open"
Holds(t, h) == handle' = [handle EXCEPT ![t] = h]

(* Thread t sends a request for operation op at its revision. *)
Sends(t, op, ns, keys, list, asked) ==
    /\ op \in Ops
    /\ call' = [call EXCEPT ![t] =
                  [NoCall EXCEPT !.op = op, !.phase = "sent", !.rev = handle[t].rev,
                                 !.ns = ns, !.keys = keys, !.list = list,
                                 !.asked = asked, !.afterDestroy = isDestroyed]]
    /\ UNCHANGED <<stateVars, stored, peerVars, handle>>

-----------------------------------------------------------------------------
(***************************************************************************)
(* Everyone else: clients on the owner's side, other peers, and requests   *)
(* of this peer that reach the owner after their caller has given up.  An  *)
(* update that comes from a peer may be empty (see Needed).                *)
(***************************************************************************)
OwnerUnchanged == UNCHANGED <<stored, peerVars, handle, call>>

OwnerUpdate(ns, l) == TryUpdate(rev, ns, l) /\ OwnerUnchanged

OwnerClear(ns) == TryClear(rev, ns) /\ OwnerUnchanged

DestroyState ==
    /\ isDestroyed' = TRUE
    /\ UNCHANGED <<rev, msgSeq, attrs, history>>

OwnerDestroy == ~isDestroyed /\ DestroyState /\ OwnerUnchanged

(* Only once the session's pending calls have finished. *)
OwnerForget ==
    /\ isDestroyed
    /\ stored
    /\ stored' = FALSE
    /\ UNCHANGED <<stateVars, peerVars, handle, call>>

-----------------------------------------------------------------------------
(***************************************************************************)
(* What the cache says about an attribute at revision r: fetchLocal.       *)
(***************************************************************************)
KnownStale(e, r) == IsCached(e) /\ IsStale(e, r)

(* Fault: an entry is used at revisions after the one it was fetched at. *)
IsSolvedForGood(e, r) == IsCached(e) /\ (e.createdAt > r \/ e.updatedAt <= r)

IsSolved(e, r) ==
    /\ IsCached(e)
    /\ \/ e.createdAt > r
       \/ e.updatedAt <= r /\ (e.frozen \/ r <= e.fetchedAt)

Unsolved(ns, ks, r) == {k \in ks : ~IsSolved(cache[ns][k], r)}

(* Fault: the answer that arrives last wins. *)
LatestOf(r) == r

HighestOf(r) == IF r > highestRev THEN r ELSE highestRev

-----------------------------------------------------------------------------
(***************************************************************************)
(* The first half of each operation.  Where the cache alone decides the    *)
(* outcome the operation returns and nothing changes: only the requests    *)
(* that are sent are steps.                                                *)
(***************************************************************************)
At(t, r) ==
    /\ Idle(t)
    /\ r <= rev
    /\ Holds(t, IF isClosed THEN Closed ELSE Open(r))
    /\ highestRev' = IF isClosed THEN highestRev ELSE HighestOf(r)
    /\ UNCHANGED <<stateVars, stored, cache, isClosed, call>>

(* Refresh: Head() if the session is not known to be closed. *)
HeadBegin(t) ==
    /\ CanUse(t)
    /\ IF isClosed
       THEN Holds(t, Closed) /\ UNCHANGED <<stateVars, stored, peerVars, call>>
       ELSE Sends(t, "head", NoCall.ns, {}, <<>>, <<>>)

(* Get and GetMany. *)
FetchBegin(t, ns, ks) ==
    /\ CanUse(t)
    /\ handle[t].rev # 0
    /\ \A k \in ks : ~KnownStale(cache[ns][k], handle[t].rev)
    /\ Unsolved(ns, ks, handle[t].rev) # {}
    /\ ~isClosed
    /\ Sends(t, "fetch", ns, Unsolved(ns, ks, handle[t].rev), <<>>, <<>>)

(* Fault: the cache is trusted whatever revision it was filled at. *)
IsAnswered(ns, r, a) ==
    LET e == cache[ns][a.key] IN IsCached(e) /\ Content(a) = Content(e)

(* The items of an update that the cache does not answer. *)
IsRedundant(ns, r, a) ==
    LET e == cache[ns][a.key]
    IN IsCached(e) /\ Content(a) = Content(e) /\ (e.frozen \/ e.fetchedAt = r)

KnownFrozen(ns, a) ==
    LET e == cache[ns][a.key]
    IN IsCached(e) /\ e.frozen /\ Content(a) # Content(e)

Needed(ns, r, l) ==
    LET updateAttrs[n \in 0..Len(l)] ==
            IF n = 0 THEN <<>>
            ELSE IF IsRedundant(ns, r, l[n])
                 THEN updateAttrs[n - 1]
                 ELSE Append(updateAttrs[n - 1], l[n])
    IN updateAttrs[Len(l)]

CanModify(t) == CanUse(t) /\ ~isClosed /\ highestRev <= handle[t].rev

UpdateBegin(t, ns, l) ==
    /\ CanModify(t)
    /\ \A i \in 1..Len(l) : ~KnownFrozen(ns, l[i])
    /\ Sends(t, "update", ns, {}, Needed(ns, handle[t].rev, l), l)

ClearBegin(t, ns) ==
    /\ CanModify(t)
    /\ \A k \in Keys : ~(cache[ns][k].frozen /\ cache[ns][k].value # Empty)
    /\ Sends(t, "clear", ns, {}, <<>>, <<>>)

DestroyBegin(t) ==
    /\ CanModify(t)
    /\ Sends(t, "destroy", NoCall.ns, {}, <<>>, <<>>)

-----------------------------------------------------------------------------
(***************************************************************************)
(* The owner executes a request (server.go).  Execute is its effect on the *)
(* session, Reply what the thread will receive.                            *)
(***************************************************************************)
ServeError(q) ==
    IF ~stored THEN "notFound"
    ELSE CASE q.op = "update"  -> UpdateError(q.rev, q.ns, q.list)
           [] q.op = "clear"   -> ClearError(q.rev, q.ns)
           [] q.op = "destroy" -> DestroyError(q.rev)
           [] OTHER            -> "ok"

Execute(q) ==
    \/ /\ ServeError(q) = "ok"
       /\ \/ q.op = "update" /\ TryUpdate(q.rev, q.ns, q.list)
          \/ q.op = "clear" /\ TryClear(q.rev, q.ns)
          \/ q.op = "destroy" /\ DestroyState
          \/ q.op \in {"head", "fetch"} /\ UNCHANGED stateVars
    \/ /\ ServeError(q) # "ok"
       /\ UNCHANGED stateVars

(* What a fetch is answered with: the keys it asked for that exist. *)
FetchedTable(q) ==
    [k \in Keys |-> IF q.op = "fetch" /\ k \in q.keys THEN attrs[q.ns][k] ELSE Absent]

(* An update is answered with the creation revisions that the server reads in
   a second critical section; everything else from the first. *)
Serve(t) ==
    LET q  == call[t]
        ok == ServeError(q) = "ok"
    IN /\ q.phase = "sent"
       /\ Execute(q)
       /\ call' = [call EXCEPT ![t] =
             [q EXCEPT !.phase  = IF ok /\ q.op = "update" THEN "applied" ELSE "replied",
                       !.error  = ServeError(q),
                       !.newRev = IF ok THEN rev' ELSE 0,
                       !.table  = IF ok THEN FetchedTable(q) ELSE EmptyTable]]
       /\ UNCHANGED <<stored, peerVars, handle>>

ServeCreatedRevs(t) ==
    /\ call[t].phase = "applied"
    /\ call' = [call EXCEPT ![t].phase = "replied", ![t].table = attrs[call[t].ns]]
    /\ UNCHANGED <<stateVars, stored, peerVars, handle>>

-----------------------------------------------------------------------------
(***************************************************************************)
(* The second half of each operation: the answer is recorded.              *)
(***************************************************************************)
Returns(t) == call' = [call EXCEPT ![t] = NoCall]

(* Fault: any error closes the session. *)
CloseOnError(q) ==
    /\ highestRev' = IF q.error = "ok" THEN HighestOf(q.newRev) ELSE highestRev
    /\ isClosed' = (isClosed \/ q.error # "ok")

(* updateState() *)
UpdateState(q) ==
    /\ highestRev' = IF q.error = "ok" THEN HighestOf(q.newRev) ELSE highestRev
    /\ isClosed' = (isClosed \/ q.error = "notFound")

Answered(t, op) == call[t].phase = "replied" /\ call[t].op = op

HeadEnd(t) ==
    /\ Answered(t, "head")
    /\ UpdateState(call[t])
    /\ Holds(t, IF call[t].error = "ok" THEN Open(highestRev') ELSE Closed)
    /\ Returns(t)
    /\ UNCHANGED <<stateVars, stored, cache>>

(* Fault: the entry is dated by the session, not by the answer. *)
FetchedAtHighest(q, k) ==
    [value |-> q.table[k].value, frozen |-> q.table[k].frozen,
     createdAt |-> q.table[k].createdAt, updatedAt |-> q.table[k].updatedAt,
     fetchedAt |-> highestRev]

(* The attribute as the owner's answer to call q gives it. *)
Fetched(q, k) ==
    [value |-> q.table[k].value, frozen |-> q.table[k].frozen,
     createdAt |-> q.table[k].createdAt, updatedAt |-> q.table[k].updatedAt,
     fetchedAt |-> q.newRev]

FetchEnd(t) ==
    /\ Answered(t, "fetch")
    /\ UpdateState(call[t])
    /\ cache' = [cache EXCEPT ![call[t].ns] = [k \in Keys |->
          IF Exists(call[t].table[k]) /\ call[t].newRev > cache[call[t].ns][k].fetchedAt
          THEN Fetched(call[t], k)
          ELSE cache[call[t].ns][k]]]
    /\ Returns(t)
    /\ UNCHANGED <<stateVars, stored, handle>>

(* What a successful update left in key k, as the client records it: the
   loop keeps the first of two items with the same key. *)
FirstOf(S) == CHOOSE i \in S : \A j \in S : i <= j

Sent(q, k) ==
    LET a == q.list[FirstOf(Writes(q.list, Len(q.list), k))]
    IN [value |-> a.value, frozen |-> a.frozen,
        createdAt |-> q.table[k].createdAt, updatedAt |-> q.newRev,
        fetchedAt |-> q.newRev]

UpdateEnd(t) ==
    LET q == call[t]
    IN /\ Answered(t, "update")
       /\ UpdateState(q)
       /\ IF q.error = "ok"
          THEN /\ cache' = [cache EXCEPT ![q.ns] = [k \in Keys |->
                     IF /\ Writes(q.list, Len(q.list), k) # {}
                        /\ q.newRev > cache[q.ns][k].fetchedAt
                     THEN Sent(q, k)
                     ELSE cache[q.ns][k]]]
               /\ Holds(t, Open(highestRev'))
          ELSE UNCHANGED <<cache, handle>>
       /\ Returns(t)
       /\ UNCHANGED <<stateVars, stored>>

ClearEnd(t) ==
    LET q == call[t]
    IN /\ Answered(t, "clear")
       /\ UpdateState(q)
       /\ IF q.error = "ok"
          THEN /\ cache' = [cache EXCEPT ![q.ns] = [k \in Keys |->
                     IF IsCached(cache[q.ns][k]) /\ q.newRev > cache[q.ns][k].fetchedAt
                     THEN [cache[q.ns][k] EXCEPT !.value = Empty, !.fetchedAt = q.newRev]
                     ELSE cache[q.ns][k]]]
               /\ Holds(t, Open(highestRev'))
          ELSE UNCHANGED <<cache, handle>>
       /\ Returns(t)
       /\ UNCHANGED <<stateVars, stored>>

(* Only success is recorded: TryDestroy() does not call updateState(). *)
DestroyEnd(t) ==
    /\ Answered(t, "destroy")
    /\ isClosed' = (isClosed \/ call[t].error = "ok")
    /\ Returns(t)
    /\ UNCHANGED <<stateVars, stored, highestRev, cache, handle>>

(* The deadline of the caller's context passes first.  The owner may still
   execute the request: it is then one of those OwnerStep has. *)
TimeOut(t) ==
    /\ ~Idle(t)
    /\ Returns(t)
    /\ UNCHANGED <<stateVars, stored, peerVars, handle>>

-----------------------------------------------------------------------------
OwnerStep ==
    \/ \E ns \in Namespaces, l \in Lists \cup {<<>>} : OwnerUpdate(ns, l)
    \/ \E ns \in Namespaces : OwnerClear(ns)
    \/ OwnerDestroy \/ OwnerForget
    \/ \E t \in Threads : Serve(t) \/ ServeCreatedRevs(t)

Begin(t) ==
    \/ \E r \in 0..MaxRev : At(t, r)
    \/ HeadBegin(t) \/ DestroyBegin(t)
    \/ \E ns \in Namespaces, ks \in SUBSET Keys : FetchBegin(t, ns, ks)
    \/ \E ns \in Namespaces, l \in Lists : UpdateBegin(t, ns, l)
    \/ \E ns \in Namespaces : ClearBegin(t, ns)

End(t) == HeadEnd(t) \/ FetchEnd(t) \/ UpdateEnd(t) \/ ClearEnd(t) \/ DestroyEnd(t)

Next == OwnerStep \/ \E t \in Threads : Begin(t) \/ End(t) \/ TimeOut(t)

Spec == Init /\ [][Next]_vars

-----------------------------------------------------------------------------
(***************************************************************************)
(* Properties.                                                             *)
(***************************************************************************)

(* Every variable keeps its type. *)
TypeOK ==
    /\ StateTypeOK
    /\ stored \in BOOLEAN
    /\ highestRev \in Nat
    /\ cache \in [Namespaces -> [Keys -> Entries]]
    /\ isClosed \in BOOLEAN
    /\ handle \in [Threads -> Handles]
    /\ call \in [Threads -> Calls]

(* Whatever order answers arrive in, the session object never claims a
   revision that the owner has not made, and no thread holds a revision later
   than the one the object knows: a Refresh never takes a caller back. *)
RevisionsExist ==
    /\ highestRev <= rev
    /\ \A t \in Threads : handle[t].rev <= highestRev

(* The object is closed, for good, only when the session is destroyed. *)
ClosedMeansDestroyed ==
    /\ isClosed => isDestroyed
    /\ \A t \in Threads : handle[t].kind = "closed" => isDestroyed

(* revision.go:34 of rinq, for reads that the cache answers: at every
   revision up to the owner's, what fetchLocal returns is what the attribute
   was, in whatever order fetches and updates were recorded. *)
CachedReadsAreCorrect ==
    \A ns \in Namespaces, k \in Keys, r \in 1..rev :
        IsSolved(cache[ns][k], r) => ValueAt(cache[ns][k], r) = history[r][ns][k]

(* The same for a read that the owner has answered, until it returns. *)
FetchedReadsAreCorrect ==
    \A t \in Threads : (Answered(t, "fetch") /\ call[t].error = "ok") =>
        \A k \in call[t].keys :
            \/ IsStale(call[t].table[k], call[t].rev)
            \/ ValueAt(call[t].table[k], call[t].rev) = history[call[t].rev][call[t].ns][k]

(* The comment at session.go:349: a cached attribute that is frozen can not
   have changed since, so it may be used at any later revision, and an update
   of it may be refused or skipped without asking the owner. *)
FrozenEntriesAreFinal ==
    \A ns \in Namespaces, k \in Keys :
        cache[ns][k].frozen => Content(cache[ns][k]) = Content(attrs[ns][k])

(* The value of a cache entry is that of the revision it was fetched at, with
   every operation in use; no operation leaves a value from the future. *)
EntriesHoldFetchedValue ==
    \A ns \in Namespaces, k \in Keys :
        LET e == cache[ns][k]
        IN IsCached(e) => /\ e.fetchedAt <= highestRev
                          /\ e.value = history[e.fetchedAt][ns][k].value

(* Dropping the items of an update that the cache holds already does not
   change what the update does: if the owner accepts the shorter list at this
   revision it would accept the caller's, with the same contents. *)
ShorterUpdateIsSame ==
    \A t \in Threads :
        LET q == call[t]
            Result(l) == [k \in Keys |-> Content(Updated(attrs[q.ns], l, rev + 1)[k])]
        IN (q.phase = "sent" /\ q.op = "update" /\ Accepts(q.rev)) =>
              /\ ViolatesFrozen(attrs[q.ns], q.list) <=> ViolatesFrozen(attrs[q.ns], q.asked)
              /\ ~ViolatesFrozen(attrs[q.ns], q.list) => Result(q.list) = Result(q.asked)

(* What the caller of an update gets for "ok", until it returns: one revision
   was added, on top of the one that it held, which differs from that by all
   the items it passed and by nothing else, although items were dropped on the
   way, other clients compete, and the answer is put together later. *)
UpdatesTakeEffect ==
    \A t \in Threads :
        LET q == call[t]
        IN (q.op = "update" /\ q.phase \in {"applied", "replied"} /\ q.error = "ok") =>
              /\ q.newRev = q.rev + 1
              /\ history[q.newRev] = [history[q.rev] EXCEPT ![q.ns] =
                    [k \in Keys |-> WrittenBy(history[q.rev][q.ns], q.asked, Len(q.asked), k)]]

(* With every operation in use, also clears that leave old dates in the cache:
   what the cache answers at the revision that an entry was fetched at, or
   later, is the value that the attribute had. *)
LaterReadsAreCorrect ==
    \A ns \in Namespaces, k \in Keys, r \in 1..rev :
        (IsSolved(cache[ns][k], r) /\ cache[ns][k].fetchedAt <= r) =>
            ValueAt(cache[ns][k], r).value = history[r][ns][k].value

(* The session that threads share with everyone else is the versioned table of
   VersionedSession.  While its request is under way a thread looks at the
   revision that it named; once it is answered, at the one in the answer. *)
Base(t) ==
    IF Idle(t) THEN handle[t].rev
    ELSE IF call[t].phase = "sent" \/ call[t].error # "ok" THEN call[t].rev
    ELSE call[t].newRev

Versioned == INSTANCE VersionedSession
                 WITH Clients <- Threads, Shared <- TRUE,
                      head <- rev, versions <- history, destroyed <- isDestroyed,
                      base <- [t \in Threads |-> Base(t)]

SharedIsVersioned == Versioned!Spec

-----------------------------------------------------------------------------
(* What the documentation of rinq.Revision says that the code does not do. *)

(* revision.go:77: "On success, rev is the newly created revision." *)
NewRevisionReturned ==
    [][\A t \in Threads : (UpdateEnd(t) /\ call[t].error = "ok") =>
          handle'[t].rev = call[t].newRev]_vars

(* revision.go:25: after Refresh of a destroyed session "any operations on
   rev will return an error e such that IsNotFound(e) is true". *)
RefreshFindsDestroyed ==
    [][\A t \in Threads : (HeadEnd(t) /\ call[t].afterDestroy) =>
          handle'[t].kind = "closed"]_vars
=============================================================================
