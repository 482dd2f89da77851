------------------------- MODULE RemoteSessionProofs ------------------------
(***************************************************************************)
(* The safety properties of RemoteSession, for any number of threads,      *)
(* namespaces, keys, values and update lists, and any bounds.              *)
(***************************************************************************)
EXTENDS RemoteSession, SessionStateProofs

(* No thread of this peer clears a namespace. *)
NoClear == "clear" \notin Ops

(***************************************************************************)
(* The invariant of the revisions: no revision is known here that the      *)
(* owner has not made, and nobody is told that the session is gone while   *)
(* it is not.                                                              *)
(***************************************************************************)
GoneMeansDestroyed ==
    /\ ~stored => isDestroyed
    /\ \A t \in Threads :
          /\ call[t].error = "notFound" => isDestroyed
          /\ Answered(t, "head") => call[t].error \in {"ok", "notFound"}
          /\ (Answered(t, "destroy") /\ call[t].error = "ok") => isDestroyed

CallsExist ==
    \A t \in Threads :
        /\ call[t].rev <= rev
        /\ call[t].newRev <= rev
        /\ ~Idle(t) => call[t].op \in Ops
        /\ call[t].phase = "applied" => call[t].op = "update"

(***************************************************************************)
(* What an entry e with revision information says of an attribute, when it *)
(* was read at revision f, against history h that ends with revision top:  *)
(* the attribute was blank before it was created, which may be later than  *)
(* f if the creation revision was read later; it is what e says at f; and  *)
(* it was so since its last update.                                        *)
(***************************************************************************)
BlankUntil(h, top, ns, k, created) ==
    /\ created <= top
    /\ \A r \in 0..top : r < created => h[r][ns][k] = Blank

Describes(h, top, ns, k, e, f) ==
    /\ f <= top
    /\ e.updatedAt <= f
    /\ BlankUntil(h, top, ns, k, e.createdAt)
    /\ h[f][ns][k] = Content(e)
    /\ \A r \in 0..f : (e.createdAt <= r /\ e.updatedAt <= r) => h[r][ns][k] = Content(e)

(* What the owner has answered, until the thread records it. *)
FetchAnswered(q) ==
    /\ q.error # "ok" => q.table = EmptyTable
    /\ q.error = "ok" =>
          /\ q.rev <= q.newRev
          /\ \A k \in q.keys : Describes(history, rev, q.ns, k, q.table[k], q.newRev)
          /\ \A k \in Keys \ q.keys : q.table[k] = Absent

ClearAnswered(q) ==
    q.error = "ok" => \A k \in Keys : history[q.newRev][q.ns][k].value = Empty

CreationAnswered(q) ==
    q.error = "ok" => \A k \in Keys : BlankUntil(history, rev, q.ns, k, q.table[k].createdAt)

AnswersSound ==
    \A t \in Threads :
        /\ Answered(t, "fetch") => FetchAnswered(call[t])
        /\ Answered(t, "clear") => ClearAnswered(call[t])
        /\ Answered(t, "update") => CreationAnswered(call[t])

RemoteInv ==
    /\ TypeOK /\ AttrsSound /\ FrozenKept
    /\ RevisionsExist /\ ClosedMeansDestroyed
    /\ GoneMeansDestroyed /\ CallsExist /\ AnswersSound

(***************************************************************************)
(* The invariant of the cache when callers name every key once: the items  *)
(* that the owner has accepted are what it holds, and so is the value of   *)
(* an entry, and its flag if it is set.                                    *)
(***************************************************************************)
UpdatesSound ==
    \A t \in Threads : call[t].op = "update" =>
        LET q == call[t]
        IN /\ NamesOnce(q.list)
           /\ (q.phase \in {"applied", "replied"} /\ q.error = "ok") =>
                 \A i \in 1..Len(q.list) :
                    history[q.newRev][q.ns][q.list[i].key] = Content(q.list[i])

EntrySound(ns, k, e) ==
    /\ ~IsCached(e) => e = NoEntry
    /\ IsCached(e) =>
          /\ e.fetchedAt <= highestRev
          /\ e.value = history[e.fetchedAt][ns][k].value
          /\ e.frozen => history[e.fetchedAt][ns][k] = Content(e)

EntriesSound == \A ns \in Namespaces, k \in Keys : EntrySound(ns, k, cache[ns][k])

CacheInv == RemoteInv /\ UpdatesSound /\ EntriesSound

(***************************************************************************)
(* When also no thread clears a namespace, entries describe the attribute  *)
(* in full, and an item that was left out of an update is in the table.    *)
(***************************************************************************)
EntriesDescribe ==
    \A ns \in Namespaces, k \in Keys : IsCached(cache[ns][k]) =>
        Describes(history, rev, ns, k, cache[ns][k], cache[ns][k].fetchedAt)

Contains(l, a) == \E i \in 1..Len(l) : l[i] = a

ShorterSound ==
    \A t \in Threads : (call[t].op = "update" /\ call[t].phase = "sent") =>
        LET q == call[t]
        IN /\ NamesOnce(q.asked)
           /\ \A i \in 1..Len(q.list) : Contains(q.asked, q.list[i])
           /\ \A i \in 1..Len(q.asked) :
                 \/ Contains(q.list, q.asked[i])
                 \/ history[q.rev][q.ns][q.asked[i].key] = Content(q.asked[i])

FullInv == CacheInv /\ EntriesDescribe /\ ShorterSound
-----------------------------------------------------------------------------
(***************************************************************************)
(* The items of an update that are sent.                                   *)
(***************************************************************************)
Loop(ns, r, l, n, f) ==
    IF n = 0 THEN <<>>
    ELSE IF IsRedundant(ns, r, l[n]) THEN f[n - 1] ELSE Append(f[n - 1], l[n])

(* The loop over the list is well defined for every length. *)
LEMMA LoopExists ==
    ASSUME NEW ns, NEW r, NEW l, NEW N \in Nat
    PROVE  \E f : f = [n \in 0..N |-> Loop(ns, r, l, n, f)]
  <1> DEFINE IsLoop(m, f) == f = [n \in 0..m |-> Loop(ns, r, l, n, f)]
             None == {m \in Nat : ~\E f : IsLoop(m, f)}
  <1>1. None = {}
    <2> SUFFICES ASSUME None # {} PROVE FALSE
      OBVIOUS
    <2>1. None \subseteq Nat
      OBVIOUS
    <2>2. PICK m \in None : \A x \in None : m <= x
      BY <2>1, LeastElement
    <2>3. CASE m = 0
      <3> DEFINE g == [n \in 0..0 |-> <<>>]
      <3>1. IsLoop(0, g)
        BY DEF Loop
      <3> QED
        BY <2>3, <3>1
    <2>4. CASE m # 0
      <3>1. m \in Nat /\ m - 1 \in Nat /\ ~(m <= m - 1)
        BY <2>4
      <3>2. m - 1 \notin None
        BY <2>2, <3>1
      <3>3. PICK f : IsLoop(m - 1, f)
        BY <3>1, <3>2
      <3> DEFINE last == Loop(ns, r, l, m, f)
                 g == [n \in 0..m |-> IF n = m THEN last ELSE f[n]]
      <3>4. \A n \in 0..m : g[n] = Loop(ns, r, l, n, g)
        <4> SUFFICES ASSUME NEW n \in 0..m PROVE g[n] = Loop(ns, r, l, n, g)
          OBVIOUS
        <4>1. n # 0 => n - 1 \in 0..m /\ n - 1 # m /\ g[n - 1] = f[n - 1]
          BY <3>1
        <4>2. Loop(ns, r, l, n, g) = Loop(ns, r, l, n, f)
          BY <4>1 DEF Loop
        <4>3. n # m => n \in 0..m - 1 /\ f[n] = Loop(ns, r, l, n, f)
          BY <3>1, <3>3
        <4> QED
          BY <4>2, <4>3
      <3>5. IsLoop(m, g)
        BY <3>4
      <3> HIDE DEF g
      <3> QED
        BY <3>5
    <2> QED
      BY <2>3, <2>4
  <1> QED
    BY <1>1

(* What is sent is a list of the caller's items, those that are not redundant,
   and names no key twice if the caller does not. *)
LEMMA NeededItems ==
    ASSUME NEW ns, NEW r, NEW l \in Seq(Attr)
    PROVE  /\ Needed(ns, r, l) \in Seq(Attr)
           /\ \A j \in 1..Len(Needed(ns, r, l)) : Contains(l, Needed(ns, r, l)[j])
           /\ \A i \in 1..Len(l) :
                 IsRedundant(ns, r, l[i]) \/ Contains(Needed(ns, r, l), l[i])
           /\ NamesOnce(l) => NamesOnce(Needed(ns, r, l))
  <1> DEFINE F == CHOOSE f : f = [n \in 0..Len(l) |-> Loop(ns, r, l, n, f)]
  <1>1. F = [n \in 0..Len(l) |-> Loop(ns, r, l, n, F)]
    <2>1. Len(l) \in Nat
      OBVIOUS
    <2> QED
      BY <2>1, LoopExists
  <1>2. Needed(ns, r, l) = F[Len(l)]
    BY Zenon DEF Needed, Loop
  <1> HIDE DEF F
  <1>3. F[0] = <<>>
    BY <1>1 DEF Loop
  <1>4. \A n \in 1..Len(l) :
           F[n] = IF IsRedundant(ns, r, l[n]) THEN F[n - 1] ELSE Append(F[n - 1], l[n])
    <2> SUFFICES ASSUME NEW n \in 1..Len(l)
                 PROVE  F[n] = IF IsRedundant(ns, r, l[n])
                               THEN F[n - 1] ELSE Append(F[n - 1], l[n])
      OBVIOUS
    <2>1. F[n] = Loop(ns, r, l, n, F) /\ n # 0
      BY <1>1
    <2> QED
      BY <2>1 DEF Loop
  <1> DEFINE Good(n) ==
               /\ F[n] \in Seq(Attr)
               /\ \A j \in 1..Len(F[n]) : \E i \in 1..n : F[n][j] = l[i]
               /\ \A i \in 1..n : IsRedundant(ns, r, l[i]) \/ Contains(F[n], l[i])
               /\ NamesOnce(l) => NamesOnce(F[n])
             Bad == {n \in 0..Len(l) : ~Good(n)}
  <1>5. Good(0)
    BY <1>3 DEF NamesOnce
  <1>6. ASSUME NEW n \in 1..Len(l), Good(n - 1) PROVE Good(n)
    <2> DEFINE s == F[n - 1]
    <2>1. /\ s \in Seq(Attr) /\ l[n] \in Attr
          /\ \A j \in 1..Len(s) : \E i \in 1..n - 1 : s[j] = l[i]
          /\ \A i \in 1..n - 1 : IsRedundant(ns, r, l[i]) \/ Contains(s, l[i])
          /\ NamesOnce(l) => NamesOnce(s)
      BY <1>6
    <2>2. CASE IsRedundant(ns, r, l[n])
      <3>1. F[n] = s
        BY <1>4, <2>2
      <3> QED
        BY <2>1, <2>2, <3>1
    <2>3. CASE ~IsRedundant(ns, r, l[n])
      <3> DEFINE u == Append(s, l[n])
      <3>1. F[n] = u
        BY <1>4, <2>3
      <3> HIDE DEF s
      <3>2. /\ u \in Seq(Attr) /\ Len(u) = Len(s) + 1
            /\ \A j \in 1..Len(s) : u[j] = s[j]
            /\ u[Len(s) + 1] = l[n]
        BY <2>1
      <3> HIDE DEF u
      <3>3. \A j \in 1..Len(u) : \E i \in 1..n : u[j] = l[i]
        BY <2>1, <3>2
      <3>4. \A i \in 1..n : IsRedundant(ns, r, l[i]) \/ Contains(u, l[i])
        <4> SUFFICES ASSUME NEW i \in 1..n, ~IsRedundant(ns, r, l[i])
                     PROVE  Contains(u, l[i])
          OBVIOUS
        <4>1. CASE i = n
          BY <2>1, <3>2, <4>1 DEF Contains
        <4>2. CASE i # n
          <5>1. PICK j \in 1..Len(s) : s[j] = l[i]
            BY <2>1, <4>2 DEF Contains
          <5>2. j \in 1..Len(u) /\ u[j] = l[i]
            BY <2>1, <3>2, <5>1
          <5> QED
            BY <5>2 DEF Contains
        <4> QED
          BY <4>1, <4>2
      <3>5. NamesOnce(l) => NamesOnce(u)
        <4> SUFFICES ASSUME NamesOnce(l), NEW i \in 1..Len(u), NEW j \in 1..Len(u),
                            u[i].key = u[j].key
                     PROVE  i = j
          BY DEF NamesOnce
        <4>1. NamesOnce(s) /\ Len(s) \in Nat
          BY <2>1
        <4>2. \A x \in 1..Len(s) : s[x].key # l[n].key
          <5> SUFFICES ASSUME NEW x \in 1..Len(s), s[x].key = l[n].key PROVE FALSE
            OBVIOUS
          <5>1. PICK y \in 1..n - 1 : s[x] = l[y]
            BY <2>1
          <5>2. y \in 1..Len(l) /\ n \in 1..Len(l) /\ y # n
            OBVIOUS
          <5>3. l[y].key = l[n].key
            BY <5>1
          <5> QED
            BY <5>2, <5>3 DEF NamesOnce
        <4>3. CASE i \in 1..Len(s) /\ j \in 1..Len(s)
          BY <3>2, <4>1, <4>3 DEF NamesOnce
        <4>4. CASE i = Len(s) + 1 /\ j \in 1..Len(s)
          BY <3>2, <4>2, <4>4
        <4>5. CASE j = Len(s) + 1 /\ i \in 1..Len(s)
          BY <3>2, <4>2, <4>5
        <4> QED
          BY <3>2, <4>1, <4>3, <4>4, <4>5
      <3> QED
        BY <3>1, <3>2, <3>3, <3>4, <3>5
    <2> QED
      BY <2>2, <2>3
  <1> HIDE DEF Good
  <1>7. Bad = {}
    <2> SUFFICES ASSUME Bad # {} PROVE FALSE
      OBVIOUS
    <2>1. Bad \subseteq Nat
      OBVIOUS
    <2>2. PICK n \in Bad : \A x \in Bad : n <= x
      BY <2>1, LeastElement
    <2>3. n # 0
      BY <1>5
    <2>4. n \in 1..Len(l) /\ n - 1 \in 0..Len(l) /\ ~(n <= n - 1)
      BY <2>3
    <2>5. Good(n - 1)
      BY <2>2, <2>4
    <2> QED
      BY <1>6, <2>4, <2>5
  <1>8. Len(l) \in 0..Len(l)
    OBVIOUS
  <1>9. Good(Len(l))
    BY <1>7, <1>8
  <1> QED
    BY <1>2, <1>9 DEF Good, Contains
-----------------------------------------------------------------------------
(***************************************************************************)
(* What a step does to the owner's state and to the calls.                 *)
(***************************************************************************)
(* The owner only ever adds revisions, and is destroyed and forgotten for good. *)
Grows ==
    /\ rev \in Nat /\ rev' \in Nat /\ rev <= rev'
    /\ \A r \in 0..rev : history'[r] = history[r]
    /\ isDestroyed => isDestroyed'
    /\ ~stored' => isDestroyed'
    /\ stored' \in BOOLEAN
    /\ StateInv'

(* A request of thread t, as it is sent. *)
Request(t, op, ns, keys, list, asked) ==
    [op |-> op, phase |-> "sent", rev |-> handle[t].rev, ns |-> ns, keys |-> keys,
     list |-> list, asked |-> asked, afterDestroy |-> isDestroyed,
     error |-> "ok", newRev |-> 0, table |-> EmptyTable]

(* Only thread t goes on. *)
SameCalls(t) == \A u \in Threads \ {t} : call'[u] = call[u]

(* The idle call, and the empty table that it holds, are of their types. *)
LEMMA NoCallType ==
    /\ NoCall \in Calls /\ EmptyTable \in VTable
    /\ NoCall.ns \in Namespaces
    /\ NoCall.phase = "idle" /\ NoCall.op = "head" /\ NoCall.error = "ok"
    /\ NoCall.rev = 0 /\ NoCall.newRev = 0 /\ NoCall.list = <<>>
  <1>1. EmptyTable \in VTable
    BY ContentType DEF EmptyTable, VTable
  <1>2. (CHOOSE ns \in Namespaces : TRUE) \in Namespaces
    BY NamespacesAssumption
  <1> QED
    BY <1>1, <1>2 DEF NoCall, Calls, AllOps, Phases, Errors

(* Sends() puts the request in the thread's call and changes nothing else. *)
LEMMA SendsRequest ==
    ASSUME TypeOK, NEW t \in Threads, NEW op, NEW ns \in Namespaces, NEW keys \in SUBSET Keys,
           NEW list \in Seq(Attr), NEW asked \in Seq(Attr),
           Sends(t, op, ns, keys, list, asked)
    PROVE  /\ op \in Ops
           /\ call' \in [Threads -> Calls]
           /\ call'[t] = Request(t, op, ns, keys, list, asked)
           /\ SameCalls(t)
           /\ UNCHANGED <<rev, msgSeq, isDestroyed, attrs, history, stored,
                          highestRev, cache, isClosed, handle>>
  <1>1. op \in Ops /\ op \in AllOps
    BY OpsAssumption DEF Sends
  <1> PICK q : q = [NoCall EXCEPT !.op = op, !.phase = "sent", !.rev = handle[t].rev,
                                  !.ns = ns, !.keys = keys, !.list = list,
                                  !.asked = asked, !.afterDestroy = isDestroyed]
    OBVIOUS
  <1>2. q = Request(t, op, ns, keys, list, asked)
    BY DEF NoCall, Request
  <1>3. Request(t, op, ns, keys, list, asked) \in Calls
    <2>1. handle[t].rev \in Nat /\ isDestroyed \in BOOLEAN
      BY DEF TypeOK, Handles, StateTypeOK
    <2> QED
      BY <1>1, <2>1, NoCallType DEF Request, Calls, Phases, Errors
  <1>4. call' = [call EXCEPT ![t] = Request(t, op, ns, keys, list, asked)]
    BY <1>2 DEF Sends
  <1>5. call \in [Threads -> Calls]
    BY DEF TypeOK
  <1>6. UNCHANGED <<rev, msgSeq, isDestroyed, attrs, history, stored,
                    highestRev, cache, isClosed, handle>>
    BY DEF Sends, stateVars, peerVars
  <1> QED
    BY <1>1, <1>3, <1>4, <1>5, <1>6 DEF SameCalls
(* A commit, and a step that leaves the table alone, keep history. *)
LEMMA GrowsFrom ==
    ASSUME RemoteInv, stored' \in BOOLEAN, ~stored' => isDestroyed',
           \/ Appends
           \/ /\ UNCHANGED <<rev, msgSeq, attrs, history>>
              /\ isDestroyed' \in BOOLEAN
              /\ isDestroyed => isDestroyed'
    PROVE  Grows
  <1>1. StateInv
    BY DEF RemoteInv, StateInv, TypeOK
  <1>2. CASE Appends
    <2>1. StateInv'
      BY <1>1, <1>2, AppendsKeepsInv
    <2>2. rev \in Nat /\ rev' \in Nat /\ rev <= rev'
      BY <1>1, <1>2 DEF StateInv, StateTypeOK, Appends
    <2> QED
      BY <1>2, <2>1, <2>2 DEF Grows, Appends
  <1>3. CASE /\ UNCHANGED <<rev, msgSeq, attrs, history>>
             /\ isDestroyed' \in BOOLEAN
             /\ isDestroyed => isDestroyed'
    <2>1. msgSeq' \in Nat /\ rev \in Nat
      BY <1>1, <1>3 DEF StateInv, StateTypeOK
    <2>2. StateInv'
      BY <1>1, <1>3, <2>1, UnchangedKeepsInv
    <2> QED
      BY <1>3, <2>1, <2>2 DEF Grows
  <1> QED
    BY <1>2, <1>3

(* What everyone else does to the session. *)
LEMMA OwnerGrows ==
    ASSUME RemoteInv,
           \/ \E ns \in Namespaces, l \in Lists \cup {<<>>} : OwnerUpdate(ns, l)
           \/ \E ns \in Namespaces : OwnerClear(ns)
           \/ OwnerDestroy \/ OwnerForget
    PROVE  Grows /\ UNCHANGED <<highestRev, cache, isClosed, handle, call>>
  <1>1. StateInv /\ TypeOK /\ (~stored => isDestroyed)
    BY DEF RemoteInv, StateInv, TypeOK, GoneMeansDestroyed
  <1>2. stored \in BOOLEAN /\ isDestroyed \in BOOLEAN
    BY <1>1 DEF TypeOK, StateTypeOK
  <1>3. ASSUME NEW ns \in Namespaces, NEW l \in Lists \cup {<<>>}, OwnerUpdate(ns, l) PROVE Grows
    <2>1. l \in Seq(Attr)
      <3>1. CASE l \in Lists
        BY <3>1, ListsAssumption
      <3>2. CASE l = <<>>
        BY <3>2
      <3> QED
        BY <3>1, <3>2
    <2>2. Appends /\ stored' = stored
      BY <1>1, <1>3, <2>1, UpdateAppends DEF OwnerUpdate, OwnerUnchanged
    <2> QED
      BY <1>1, <1>2, <2>2, GrowsFrom DEF Appends
  <1>4. ASSUME NEW ns \in Namespaces, OwnerClear(ns) PROVE Grows
    <2>1. Appends /\ stored' = stored
      BY <1>1, <1>4, ClearAppends DEF OwnerClear, OwnerUnchanged
    <2> QED
      BY <1>1, <1>2, <2>1, GrowsFrom DEF Appends
  <1>5. ASSUME OwnerDestroy PROVE Grows
    BY <1>1, <1>2, <1>5, GrowsFrom DEF OwnerDestroy, DestroyState, OwnerUnchanged
  <1>6. ASSUME OwnerForget PROVE Grows
    BY <1>1, <1>2, <1>6, GrowsFrom DEF OwnerForget, stateVars
  <1>7. UNCHANGED <<highestRev, cache, isClosed, handle, call>>
    BY DEF OwnerUpdate, OwnerClear, OwnerDestroy, OwnerForget, OwnerUnchanged, peerVars
  <1> QED
    BY <1>3, <1>4, <1>5, <1>6, <1>7

(* The errors that the owner answers with. *)
LEMMA ServeErrors ==
    ASSUME RemoteInv, NEW q \in Calls
    PROVE  /\ ServeError(q) \in Errors
           /\ ServeError(q) = "notFound" => isDestroyed
           /\ q.op \in {"head", "fetch"} => ServeError(q) \in {"ok", "notFound"}
  <1>1. ~stored => isDestroyed
    BY DEF RemoteInv, GoneMeansDestroyed
  <1>2. q.op \in AllOps
    BY DEF Calls
  <1>3. CASE q.op = "update"
    BY <1>1, <1>3 DEF ServeError, UpdateError, TryError, Errors
  <1>4. CASE q.op = "clear"
    BY <1>1, <1>4 DEF ServeError, ClearError, TryError, Errors
  <1>5. CASE q.op = "destroy"
    BY <1>1, <1>5 DEF ServeError, DestroyError, Errors
  <1>6. CASE q.op \in {"head", "fetch"}
    BY <1>1, <1>6 DEF ServeError, Errors
  <1> QED
    BY <1>2, <1>3, <1>4, <1>5, <1>6 DEF AllOps

(* The owner executes a request: the state follows the request, and the answer
   is recorded in the call. *)
LEMMA ServeAnswers ==
    ASSUME RemoteInv, NEW t \in Threads, Serve(t)
    PROVE  /\ Grows /\ Execute(call[t])
           /\ UNCHANGED <<stored, highestRev, cache, isClosed, handle>>
           /\ call' \in [Threads -> Calls] /\ SameCalls(t)
           /\ call[t].phase = "sent"
           /\ call'[t].phase = IF ServeError(call[t]) = "ok" /\ call[t].op = "update"
                               THEN "applied" ELSE "replied"
           /\ call'[t].error = ServeError(call[t])
           /\ call'[t].newRev = IF ServeError(call[t]) = "ok" THEN rev' ELSE 0
           /\ call'[t].table = IF ServeError(call[t]) = "ok"
                               THEN FetchedTable(call[t]) ELSE EmptyTable
           /\ call'[t].op = call[t].op /\ call'[t].rev = call[t].rev
           /\ call'[t].ns = call[t].ns /\ call'[t].keys = call[t].keys
           /\ call'[t].list = call[t].list /\ call'[t].asked = call[t].asked
  <1> PICK q : q = call[t]
    OBVIOUS
  <1>1. StateInv /\ TypeOK /\ (~stored => isDestroyed) /\ q \in Calls
    BY DEF RemoteInv, StateInv, TypeOK, GoneMeansDestroyed
  <1>2. /\ Execute(q) /\ q.phase = "sent"
        /\ UNCHANGED <<stored, highestRev, cache, isClosed, handle>>
    BY DEF Serve, peerVars
  <1>3. q.ns \in Namespaces /\ q.list \in Seq(Attr)
    BY <1>1 DEF Calls
  <1>4. stored' \in BOOLEAN /\ isDestroyed \in BOOLEAN
    BY <1>1, <1>2 DEF TypeOK, StateTypeOK
  <1>5. Grows
    <2>1. CASE TryUpdate(q.rev, q.ns, q.list)
      <3>1. Appends
        BY <1>1, <1>3, <2>1, UpdateAppends
      <3> QED
        BY <1>1, <1>2, <1>4, <3>1, GrowsFrom DEF Appends
    <2>2. CASE TryClear(q.rev, q.ns)
      <3>1. Appends
        BY <1>1, <1>3, <2>2, ClearAppends
      <3> QED
        BY <1>1, <1>2, <1>4, <3>1, GrowsFrom DEF Appends
    <2>3. CASE DestroyState
      BY <1>1, <1>2, <1>4, <2>3, GrowsFrom DEF DestroyState
    <2>4. CASE UNCHANGED stateVars
      BY <1>1, <1>2, <1>4, <2>4, GrowsFrom DEF stateVars
    <2> QED
      BY <1>2, <2>1, <2>2, <2>3, <2>4 DEF Execute
  <1>6. PICK a : a = [q EXCEPT !.phase  = IF ServeError(q) = "ok" /\ q.op = "update"
                                         THEN "applied" ELSE "replied",
                              !.error  = ServeError(q),
                              !.newRev = IF ServeError(q) = "ok" THEN rev' ELSE 0,
                              !.table  = IF ServeError(q) = "ok"
                                         THEN FetchedTable(q) ELSE EmptyTable]
    OBVIOUS
  <1>7. call' = [call EXCEPT ![t] = a]
    BY <1>6 DEF Serve
  <1>8. FetchedTable(q) \in VTable
    BY <1>1, <1>3, ContentType DEF FetchedTable, TypeOK, StateTypeOK, Catalog, VTable
  <1>9. ServeError(q) \in Errors /\ rev' \in Nat
    BY <1>1, <1>5, ServeErrors DEF Grows
  <1>10. a \in Calls
    BY <1>1, <1>6, <1>8, <1>9, NoCallType DEF Calls, Phases
  <1>11. /\ a.phase = IF ServeError(q) = "ok" /\ q.op = "update" THEN "applied" ELSE "replied"
         /\ a.error = ServeError(q)
         /\ a.newRev = IF ServeError(q) = "ok" THEN rev' ELSE 0
         /\ a.table = IF ServeError(q) = "ok" THEN FetchedTable(q) ELSE EmptyTable
         /\ a.op = q.op /\ a.rev = q.rev /\ a.ns = q.ns /\ a.keys = q.keys
         /\ a.list = q.list /\ a.asked = q.asked
    BY <1>1, <1>6 DEF Calls
  <1>12. call' \in [Threads -> Calls] /\ call'[t] = a /\ SameCalls(t)
    BY <1>1, <1>7, <1>10 DEF TypeOK, SameCalls
  <1> QED
    BY <1>2, <1>5, <1>11, <1>12

(* The second critical section of an update's request. *)
LEMMA CreatedRevsAnswers ==
    ASSUME RemoteInv, NEW t \in Threads, ServeCreatedRevs(t)
    PROVE  /\ Grows
           /\ UNCHANGED <<rev, msgSeq, isDestroyed, attrs, history, stored,
                          highestRev, cache, isClosed, handle>>
           /\ call' \in [Threads -> Calls] /\ SameCalls(t)
           /\ call[t].phase = "applied" /\ call'[t].phase = "replied"
           /\ call'[t].table = attrs[call[t].ns]
           /\ call'[t].error = call[t].error /\ call'[t].newRev = call[t].newRev
           /\ call'[t].op = call[t].op /\ call'[t].rev = call[t].rev
           /\ call'[t].ns = call[t].ns /\ call'[t].keys = call[t].keys
           /\ call'[t].list = call[t].list /\ call'[t].asked = call[t].asked
  <1> PICK q : q = call[t]
    OBVIOUS
  <1>1. TypeOK /\ q \in Calls /\ (~stored => isDestroyed)
    BY DEF RemoteInv, TypeOK, GoneMeansDestroyed
  <1>2. /\ UNCHANGED <<rev, msgSeq, isDestroyed, attrs, history, stored,
                       highestRev, cache, isClosed, handle>>
        /\ q.phase = "applied"
    BY DEF ServeCreatedRevs, stateVars, peerVars
  <1>3. Grows
    BY <1>1, <1>2, GrowsFrom DEF TypeOK, StateTypeOK
  <1>4. PICK a : a = [q EXCEPT !.phase = "replied", !.table = attrs[q.ns]]
    OBVIOUS
  <1>5. call' = [call EXCEPT ![t] = a]
    BY <1>1, <1>4 DEF ServeCreatedRevs, TypeOK
  <1>6. attrs[q.ns] \in VTable
    BY <1>1 DEF TypeOK, StateTypeOK, Catalog, Calls
  <1>7. a \in Calls
    BY <1>1, <1>4, <1>6 DEF Calls, Phases
  <1>8. /\ a.phase = "replied" /\ a.table = attrs[q.ns]
        /\ a.error = q.error /\ a.newRev = q.newRev
        /\ a.op = q.op /\ a.rev = q.rev /\ a.ns = q.ns /\ a.keys = q.keys
        /\ a.list = q.list /\ a.asked = q.asked
    BY <1>1, <1>4 DEF Calls
  <1>9. call' \in [Threads -> Calls] /\ call'[t] = a /\ SameCalls(t)
    BY <1>1, <1>5, <1>7 DEF TypeOK, SameCalls
  <1> QED
    BY <1>2, <1>3, <1>8, <1>9
(***************************************************************************)
(* What a step does to the call of a thread, besides its execution.        *)
(***************************************************************************)
Asks(t) ==
    \E op \in Ops, ns \in Namespaces, keys \in SUBSET Keys, list \in Seq(Attr), asked \in Seq(Attr) :
        /\ call'[t] = Request(t, op, ns, keys, list, asked)
        /\ op = "update" => /\ CanModify(t)
                            /\ asked \in Lists
                            /\ list = Needed(ns, handle[t].rev, asked)

(* Steps that leave the owner alone, and those that leave the peer's object alone. *)
StateSame == UNCHANGED <<rev, msgSeq, isDestroyed, attrs, history, stored>>

PeerSame == UNCHANGED <<highestRev, cache, isClosed, handle>>

(* The first half of an operation that needs the owner. *)
LEMMA BeginAsks ==
    ASSUME RemoteInv, NEW t \in Threads,
           \/ HeadBegin(t) /\ ~isClosed
           \/ DestroyBegin(t)
           \/ \E ns \in Namespaces, ks \in SUBSET Keys : FetchBegin(t, ns, ks)
           \/ \E ns \in Namespaces, l \in Lists : UpdateBegin(t, ns, l)
           \/ \E ns \in Namespaces : ClearBegin(t, ns)
    PROVE  /\ Asks(t) /\ SameCalls(t) /\ StateSame /\ PeerSame
           /\ call' \in [Threads -> Calls]
  <1>1. TypeOK /\ <<>> \in Seq(Attr) /\ {} \in SUBSET Keys /\ NoCall.ns \in Namespaces
    BY NoCallType DEF RemoteInv
  <1>2. ASSUME NEW op, NEW ns \in Namespaces, NEW keys \in SUBSET Keys,
               NEW list \in Seq(Attr), NEW asked \in Seq(Attr),
               Sends(t, op, ns, keys, list, asked),
               op = "update" => /\ CanModify(t)
                                /\ asked \in Lists
                                /\ list = Needed(ns, handle[t].rev, asked)
        PROVE  /\ Asks(t) /\ SameCalls(t) /\ StateSame /\ PeerSame
               /\ call' \in [Threads -> Calls]
    <2>1. /\ op \in Ops
          /\ call' \in [Threads -> Calls]
          /\ call'[t] = Request(t, op, ns, keys, list, asked)
          /\ SameCalls(t) /\ StateSame /\ PeerSame
      BY <1>1, <1>2, SendsRequest DEF StateSame, PeerSame
    <2>2. Asks(t)
      BY <1>2, <2>1, Zenon DEF Asks
    <2> QED
      BY <2>1, <2>2
  <1>3. CASE HeadBegin(t) /\ ~isClosed
    <2>1. Sends(t, "head", NoCall.ns, {}, <<>>, <<>>)
      BY <1>3 DEF HeadBegin
    <2> QED
      BY <1>1, <1>2, <2>1
  <1>4. CASE DestroyBegin(t)
    <2>1. Sends(t, "destroy", NoCall.ns, {}, <<>>, <<>>)
      BY <1>4 DEF DestroyBegin
    <2> QED
      BY <1>1, <1>2, <2>1
  <1>5. ASSUME NEW ns \in Namespaces, NEW ks \in SUBSET Keys, FetchBegin(t, ns, ks)
        PROVE  /\ Asks(t) /\ SameCalls(t) /\ StateSame /\ PeerSame
               /\ call' \in [Threads -> Calls]
    <2> DEFINE u == Unsolved(ns, ks, handle[t].rev)
    <2>1. Sends(t, "fetch", ns, u, <<>>, <<>>)
      BY <1>5 DEF FetchBegin
    <2>2. u \in SUBSET Keys
      BY DEF Unsolved
    <2> HIDE DEF u
    <2> QED
      BY <1>1, <1>2, <2>1, <2>2
  <1>6. ASSUME NEW ns \in Namespaces, NEW l \in Lists, UpdateBegin(t, ns, l)
        PROVE  /\ Asks(t) /\ SameCalls(t) /\ StateSame /\ PeerSame
               /\ call' \in [Threads -> Calls]
    <2> DEFINE s == Needed(ns, handle[t].rev, l)
    <2>1. Sends(t, "update", ns, {}, s, l) /\ CanModify(t)
      BY <1>6 DEF UpdateBegin
    <2>2. l \in Seq(Attr)
      BY ListsAssumption
    <2>3. s \in Seq(Attr)
      BY <2>2, NeededItems
    <2> QED
      BY <1>1, <1>2, <2>1, <2>2, <2>3
  <1>7. ASSUME NEW ns \in Namespaces, ClearBegin(t, ns)
        PROVE  /\ Asks(t) /\ SameCalls(t) /\ StateSame /\ PeerSame
               /\ call' \in [Threads -> Calls]
    <2>1. Sends(t, "clear", ns, {}, <<>>, <<>>)
      BY <1>7 DEF ClearBegin
    <2> QED
      BY <1>1, <1>2, <2>1
  <1> QED
    BY <1>3, <1>4, <1>5, <1>6, <1>7

(* updateState() never records a revision that does not exist. *)
LEMMA UpdateStateExists ==
    ASSUME RemoteInv, NEW t \in Threads, UpdateState(call[t])
    PROVE  /\ highestRev' \in Nat /\ highestRev <= highestRev' /\ highestRev' <= rev
           /\ call[t].error = "ok" => call[t].newRev <= highestRev'
           /\ isClosed' \in BOOLEAN /\ (isClosed' => isDestroyed)
  <1>1. /\ highestRev \in Nat /\ highestRev <= rev /\ rev \in Nat
        /\ isClosed \in BOOLEAN /\ (isClosed => isDestroyed)
    BY DEF RemoteInv, TypeOK, StateTypeOK, RevisionsExist, ClosedMeansDestroyed
  <1>2. call[t].newRev \in Nat /\ call[t].newRev <= rev
    BY DEF RemoteInv, TypeOK, Calls, CallsExist
  <1>3. call[t].error = "notFound" => isDestroyed
    BY DEF RemoteInv, GoneMeansDestroyed
  <1> QED
    BY <1>1, <1>2, <1>3 DEF UpdateState, HighestOf

(* FirstOf picks one of the positions. *)
LEMMA FirstOfExists ==
    ASSUME NEW S, S \subseteq Nat, S # {}
    PROVE  FirstOf(S) \in S
  <1>1. \E i \in S : \A j \in S : i <= j
    BY LeastElement
  <1> QED
    BY <1>1 DEF FirstOf

(* The cache is of its type. *)
CacheType == cache \in [Namespaces -> [Keys -> Entries]]

(* Recording an answer for namespace ns, entry by entry. *)
LEMMA CacheTyped ==
    ASSUME CacheType, NEW ns \in Namespaces, NEW row \in [Keys -> Entries],
           cache' = [cache EXCEPT ![ns] = row]
    PROVE  CacheType' /\ cache'[ns] = row /\ \A n \in Namespaces \ {ns} : cache'[n] = cache[n]
  BY DEF CacheType

(* The entry of a fetched attribute. *)
LEMMA FetchedType ==
    ASSUME NEW q \in Calls, NEW k \in Keys
    PROVE  Fetched(q, k) \in Entries
  <1>1. q.table[k] \in VAttr /\ q.newRev \in Nat
    BY DEF Calls, VTable
  <1> QED
    BY <1>1 DEF Fetched, Entries, VAttr

(* The entry of an attribute that an update wrote holds one of its items. *)
LEMMA SentType ==
    ASSUME NEW q \in Calls, NEW k \in Keys, Writes(q.list, Len(q.list), k) # {}
    PROVE  /\ Sent(q, k) \in Entries
           /\ \E i \in 1..Len(q.list) :
                 /\ q.list[i].key = k
                 /\ Sent(q, k).value = q.list[i].value /\ Sent(q, k).frozen = q.list[i].frozen
           /\ Sent(q, k).createdAt = q.table[k].createdAt
           /\ Sent(q, k).updatedAt = q.newRev /\ Sent(q, k).fetchedAt = q.newRev
  <1> DEFINE W == Writes(q.list, Len(q.list), k)
             i == FirstOf(W)
  <1>1. q.table[k] \in VAttr /\ q.newRev \in Nat /\ q.list \in Seq(Attr)
    BY DEF Calls, VTable
  <1>2. W \subseteq Nat
    BY DEF Writes
  <1>3. i \in W
    BY <1>2, FirstOfExists
  <1>4. i \in 1..Len(q.list) /\ q.list[i].key = k
    BY <1>3 DEF Writes
  <1>5. q.list[i] \in Attr
    BY <1>1, <1>4
  <1>6. Sent(q, k) = [value |-> q.list[i].value, frozen |-> q.list[i].frozen,
                      createdAt |-> q.table[k].createdAt, updatedAt |-> q.newRev,
                      fetchedAt |-> q.newRev]
    BY DEF Sent
  <1> HIDE DEF i
  <1>7. Sent(q, k) \in Entries
    BY <1>1, <1>5, <1>6 DEF Entries, VAttr, Attr
  <1> QED
    BY <1>4, <1>6, <1>7

(* What a step does to the session object and to the revisions that threads
   hold: each is the one it had, a closed one, or one that the object knows. *)
PeerStep ==
    /\ highestRev' \in Nat /\ highestRev <= highestRev' /\ highestRev' <= rev
    /\ isClosed' \in BOOLEAN /\ (isClosed' => isDestroyed)
    /\ handle' \in [Threads -> Handles]
    /\ \A u \in Threads :
          \/ handle'[u] = handle[u]
          \/ handle'[u] = Closed /\ isDestroyed
          \/ \E r \in 0..highestRev' : handle'[u] = Open(r)
    /\ CacheType'

(* The revisions of this peer are of their type. *)
LEMMA HandleTypes ==
    Closed \in Handles /\ NoHandle \in Handles /\ \A r \in Nat : Open(r) \in Handles
  BY DEF Closed, NoHandle, Open, Handles

(* The answer of an operation is recorded. *)
LEMMA EndPeerStep ==
    ASSUME RemoteInv, NEW t \in Threads, End(t)
    PROVE  PeerStep /\ StateSame /\ Returns(t)
  <1> PICK q : q = call[t]
    OBVIOUS
  <1>1. /\ TypeOK /\ q \in Calls /\ q.ns \in Namespaces /\ CacheType
        /\ handle \in [Threads -> Handles]
    BY DEF RemoteInv, TypeOK, Calls, CacheType
  <1>2. StateSame /\ Returns(t)
    BY DEF End, HeadEnd, FetchEnd, UpdateEnd, ClearEnd, DestroyEnd, StateSame, stateVars
  <1>3. ASSUME UpdateState(q)
        PROVE  /\ highestRev' \in Nat /\ highestRev <= highestRev' /\ highestRev' <= rev
               /\ isClosed' \in BOOLEAN /\ (isClosed' => isDestroyed)
               /\ highestRev' \in 0..highestRev'
    BY <1>3, UpdateStateExists
  <1>4. CASE HeadEnd(t)
    <2>1. UpdateState(q) /\ CacheType'
      BY <1>1, <1>4 DEF HeadEnd, CacheType
    <2>2. q.error # "ok" => isDestroyed
      BY <1>4 DEF HeadEnd, RemoteInv, GoneMeansDestroyed
    <2>3. handle' = [handle EXCEPT ![t] = IF q.error = "ok" THEN Open(highestRev') ELSE Closed]
      BY <1>4 DEF HeadEnd, Holds
    <2> QED
      BY <1>1, <1>2, <1>3, <2>1, <2>2, <2>3, HandleTypes DEF PeerStep
  <1>5. CASE FetchEnd(t)
    <2> DEFINE row == [k \in Keys |->
                 IF Exists(q.table[k]) /\ q.newRev > cache[q.ns][k].fetchedAt
                 THEN Fetched(q, k) ELSE cache[q.ns][k]]
    <2>1. UpdateState(q) /\ cache' = [cache EXCEPT ![q.ns] = row] /\ handle' = handle
      BY <1>5 DEF FetchEnd
    <2>2. row \in [Keys -> Entries]
      BY <1>1, FetchedType DEF CacheType
    <2>3. CacheType'
      BY <1>1, <2>1, <2>2, CacheTyped
    <2> QED
      BY <1>1, <1>2, <1>3, <2>1, <2>3 DEF PeerStep
  <1>6. CASE UpdateEnd(t)
    <2> DEFINE row == [k \in Keys |->
                 IF /\ Writes(q.list, Len(q.list), k) # {}
                    /\ q.newRev > cache[q.ns][k].fetchedAt
                 THEN Sent(q, k) ELSE cache[q.ns][k]]
    <2>1. UpdateState(q)
      BY <1>6 DEF UpdateEnd
    <2>2. row \in [Keys -> Entries]
      <3>1. \A k \in Keys : Writes(q.list, Len(q.list), k) # {} => Sent(q, k) \in Entries
        BY <1>1, SentType
      <3>2. \A k \in Keys : cache[q.ns][k] \in Entries
        BY <1>1 DEF CacheType
      <3> QED
        BY <3>1, <3>2
    <2>3. CASE q.error = "ok"
      <3>1. cache' = [cache EXCEPT ![q.ns] = row] /\ handle' = [handle EXCEPT ![t] = Open(highestRev')]
        BY <1>6, <2>3 DEF UpdateEnd, Holds
      <3>2. CacheType'
        BY <1>1, <2>2, <3>1, CacheTyped
      <3> HIDE DEF row
      <3> QED
        BY <1>1, <1>2, <1>3, <2>1, <3>1, <3>2, HandleTypes DEF PeerStep
    <2>4. CASE q.error # "ok"
      <3>1. cache' = cache /\ handle' = handle
        BY <1>6, <2>4 DEF UpdateEnd
      <3> QED
        BY <1>1, <1>2, <1>3, <2>1, <3>1 DEF PeerStep, CacheType
    <2> QED
      BY <2>3, <2>4
  <1>7. CASE ClearEnd(t)
    <2> DEFINE row == [k \in Keys |->
                 IF IsCached(cache[q.ns][k]) /\ q.newRev > cache[q.ns][k].fetchedAt
                 THEN [cache[q.ns][k] EXCEPT !.value = Empty, !.fetchedAt = q.newRev]
                 ELSE cache[q.ns][k]]
    <2>1. UpdateState(q)
      BY <1>7 DEF ClearEnd
    <2>2. row \in [Keys -> Entries]
      <3> SUFFICES ASSUME NEW k \in Keys PROVE row[k] \in Entries
        OBVIOUS
      <3>1. cache[q.ns][k] \in Entries /\ q.newRev \in Nat
        BY <1>1 DEF CacheType, Calls
      <3> QED
        BY <3>1, EmptyAssumption DEF Entries
    <2>3. CASE q.error = "ok"
      <3>1. cache' = [cache EXCEPT ![q.ns] = row] /\ handle' = [handle EXCEPT ![t] = Open(highestRev')]
        BY <1>7, <2>3 DEF ClearEnd, Holds
      <3>2. CacheType'
        BY <1>1, <2>2, <3>1, CacheTyped
      <3> HIDE DEF row
      <3> QED
        BY <1>1, <1>2, <1>3, <2>1, <3>1, <3>2, HandleTypes DEF PeerStep
    <2>4. CASE q.error # "ok"
      <3>1. cache' = cache /\ handle' = handle
        BY <1>7, <2>4 DEF ClearEnd
      <3> QED
        BY <1>1, <1>2, <1>3, <2>1, <3>1 DEF PeerStep, CacheType
    <2> QED
      BY <2>3, <2>4
  <1>8. CASE DestroyEnd(t)
    <2>1. /\ UNCHANGED <<highestRev, cache, handle>> /\ Answered(t, "destroy")
          /\ isClosed' = (isClosed \/ q.error = "ok")
      BY <1>8 DEF DestroyEnd
    <2>2. isClosed' => isDestroyed
      BY <2>1 DEF RemoteInv, GoneMeansDestroyed, ClosedMeansDestroyed
    <2>3. highestRev \in Nat /\ highestRev <= rev
      BY <1>1 DEF RemoteInv, RevisionsExist, TypeOK
    <2> QED
      BY <1>1, <1>2, <2>1, <2>2, <2>3 DEF PeerStep, CacheType
  <1> QED
    BY <1>4, <1>5, <1>6, <1>7, <1>8 DEF End

(* A thread gives up, finishes, or is where it was; or it asks, or is answered. *)
CallStep ==
    /\ call' \in [Threads -> Calls]
    /\ \A u \in Threads :
          \/ call'[u] = call[u]
          \/ call'[u] = NoCall
          \/ Asks(u) /\ StateSame /\ PeerSame
          \/ Serve(u)
          \/ ServeCreatedRevs(u)

(* Returning ends the call of one thread. *)
LEMMA ReturnsCallStep ==
    ASSUME TypeOK, NEW t \in Threads, Returns(t)
    PROVE  CallStep /\ call'[t] = NoCall
  BY NoCallType DEF CallStep, Returns, TypeOK

(* A session object that nobody changes. *)
LEMMA PeerSameStep ==
    ASSUME RemoteInv, PeerSame
    PROVE  PeerStep
  BY DEF RemoteInv, TypeOK, RevisionsExist, ClosedMeansDestroyed, PeerSame, PeerStep, CacheType

(* Every step of the owner, of a thread or of the clock is of these forms. *)
LEMMA NextSteps ==
    ASSUME RemoteInv, Next
    PROVE  Grows /\ PeerStep /\ CallStep
  <1>1. TypeOK
    BY DEF RemoteInv
  <1>2. ASSUME StateSame PROVE Grows
    <2>1. stored' \in BOOLEAN /\ isDestroyed' \in BOOLEAN /\ (~stored' => isDestroyed')
      BY <1>1, <1>2 DEF StateSame, TypeOK, StateTypeOK, RemoteInv, GoneMeansDestroyed
    <2> QED
      BY <1>2, <2>1, GrowsFrom DEF StateSame
  <1>3. ASSUME UNCHANGED call PROVE CallStep
    BY <1>1, <1>3 DEF CallStep, TypeOK
  <1>4. CASE \/ \E ns \in Namespaces, l \in Lists \cup {<<>>} : OwnerUpdate(ns, l)
             \/ \E ns \in Namespaces : OwnerClear(ns)
             \/ OwnerDestroy \/ OwnerForget
    BY <1>3, <1>4, OwnerGrows, PeerSameStep DEF PeerSame
  <1>5. ASSUME NEW t \in Threads, Serve(t) PROVE Grows /\ PeerStep /\ CallStep
    <2>1. /\ Grows /\ PeerSame
          /\ call' \in [Threads -> Calls] /\ SameCalls(t)
      BY <1>5, ServeAnswers DEF PeerSame
    <2>2. CallStep
      BY <1>5, <2>1 DEF CallStep, SameCalls
    <2> QED
      BY <2>1, <2>2, PeerSameStep
  <1>6. ASSUME NEW t \in Threads, ServeCreatedRevs(t) PROVE Grows /\ PeerStep /\ CallStep
    <2>1. /\ Grows /\ PeerSame
          /\ call' \in [Threads -> Calls] /\ SameCalls(t)
      BY <1>6, CreatedRevsAnswers DEF PeerSame
    <2>2. CallStep
      BY <1>6, <2>1 DEF CallStep, SameCalls
    <2> QED
      BY <2>1, <2>2, PeerSameStep
  <1>7. ASSUME NEW t \in Threads, NEW r \in 0..MaxRev, At(t, r)
        PROVE  Grows /\ PeerStep /\ CallStep
    <2>1. /\ StateSame /\ UNCHANGED <<cache, isClosed, call>>
          /\ handle' = [handle EXCEPT ![t] = IF isClosed THEN Closed ELSE Open(r)]
          /\ highestRev' = IF isClosed THEN highestRev ELSE HighestOf(r)
          /\ r <= rev /\ r \in Nat
      BY <1>7, MaxRevAssumption DEF At, Holds, StateSame, stateVars
    <2>2. /\ highestRev \in Nat /\ highestRev <= rev
          /\ rev \in Nat /\ isClosed \in BOOLEAN /\ (isClosed => isDestroyed)
          /\ handle \in [Threads -> Handles]
      BY <1>1 DEF TypeOK, StateTypeOK, RemoteInv, RevisionsExist, ClosedMeansDestroyed
    <2>3. /\ highestRev' \in Nat /\ highestRev <= highestRev' /\ highestRev' <= rev
          /\ ~isClosed => r \in 0..highestRev'
      BY <2>1, <2>2 DEF HighestOf
    <2>4. CacheType'
      BY <1>1, <2>1 DEF TypeOK, CacheType
    <2>5. PeerStep
      BY <2>1, <2>2, <2>3, <2>4, HandleTypes DEF PeerStep
    <2> QED
      BY <1>2, <1>3, <2>1, <2>5
  <1>8. ASSUME NEW t \in Threads, HeadBegin(t), isClosed PROVE Grows /\ PeerStep /\ CallStep
    <2>1. /\ StateSame /\ UNCHANGED <<highestRev, cache, isClosed, call>>
          /\ handle' = [handle EXCEPT ![t] = Closed]
      BY <1>8 DEF HeadBegin, Holds, StateSame, stateVars, peerVars
    <2>2. /\ highestRev \in Nat /\ highestRev <= rev /\ isClosed \in BOOLEAN /\ isDestroyed
          /\ handle \in [Threads -> Handles]
      BY <1>1, <1>8 DEF TypeOK, RemoteInv, RevisionsExist, ClosedMeansDestroyed
    <2>3. CacheType'
      BY <1>1, <2>1 DEF TypeOK, CacheType
    <2>4. PeerStep
      BY <2>1, <2>2, <2>3, HandleTypes DEF PeerStep
    <2> QED
      BY <1>2, <1>3, <2>1, <2>4
  <1>9. ASSUME NEW t \in Threads,
               \/ HeadBegin(t) /\ ~isClosed
               \/ DestroyBegin(t)
               \/ \E ns \in Namespaces, ks \in SUBSET Keys : FetchBegin(t, ns, ks)
               \/ \E ns \in Namespaces, l \in Lists : UpdateBegin(t, ns, l)
               \/ \E ns \in Namespaces : ClearBegin(t, ns)
        PROVE  Grows /\ PeerStep /\ CallStep
    <2>1. /\ Asks(t) /\ SameCalls(t) /\ StateSame /\ PeerSame
          /\ call' \in [Threads -> Calls]
      BY <1>9, BeginAsks
    <2>2. CallStep
      BY <2>1 DEF CallStep, SameCalls
    <2> QED
      BY <1>2, <2>1, <2>2, PeerSameStep
  <1>10. ASSUME NEW t \in Threads, End(t) PROVE Grows /\ PeerStep /\ CallStep
    BY <1>1, <1>2, <1>10, EndPeerStep, ReturnsCallStep
  <1>11. ASSUME NEW t \in Threads, TimeOut(t) PROVE Grows /\ PeerStep /\ CallStep
    <2>1. StateSame /\ PeerSame /\ Returns(t)
      BY <1>11 DEF TimeOut, StateSame, PeerSame, stateVars, peerVars
    <2> QED
      BY <1>1, <1>2, <2>1, PeerSameStep, ReturnsCallStep
  <1> QED
    BY <1>4, <1>5, <1>6, <1>7, <1>8, <1>9, <1>10, <1>11 DEF Next, OwnerStep, Begin

-----------------------------------------------------------------------------
(***************************************************************************)
(* RemoteInv is preserved.                                                 *)
(***************************************************************************)
(* The session object knows only revisions that exist. *)
LEMMA PeerStepInv ==
    ASSUME RemoteInv, Grows, PeerStep, CallStep
    PROVE  TypeOK' /\ RevisionsExist' /\ ClosedMeansDestroyed'
  <1>1. TypeOK /\ RevisionsExist /\ ClosedMeansDestroyed
    BY DEF RemoteInv
  <1>2. TypeOK'
    BY DEF TypeOK, Grows, StateInv, PeerStep, CallStep, CacheType
  <1>3. RevisionsExist'
    <2>1. highestRev' <= rev' /\ highestRev \in Nat
      BY <1>1 DEF Grows, PeerStep, TypeOK
    <2>2. ASSUME NEW u \in Threads PROVE handle'[u].rev <= highestRev'
      <3>1. handle[u].rev \in Nat /\ handle[u].rev <= highestRev
        BY <1>1 DEF RevisionsExist, TypeOK, Handles
      <3>2. highestRev' \in Nat /\ highestRev <= highestRev'
        BY DEF PeerStep
      <3>3. CASE handle'[u] = handle[u]
        BY <2>1, <3>1, <3>2, <3>3
      <3>4. CASE handle'[u] = Closed
        BY <3>2, <3>4 DEF Closed
      <3>5. CASE \E r \in 0..highestRev' : handle'[u] = Open(r)
        BY <3>2, <3>5 DEF Open
      <3> QED
        BY <3>3, <3>4, <3>5 DEF PeerStep
    <2> QED
      BY <2>1, <2>2 DEF RevisionsExist
  <1>4. ClosedMeansDestroyed'
    BY <1>1 DEF ClosedMeansDestroyed, Grows, PeerStep, Open
  <1> QED
    BY <1>2, <1>3, <1>4
(* A request that was just sent. *)
LEMMA AsksFields ==
    ASSUME NEW t \in Threads, Asks(t)
    PROVE  /\ call'[t].phase = "sent" /\ call'[t].rev = handle[t].rev
           /\ call'[t].error = "ok" /\ call'[t].newRev = 0 /\ call'[t].op \in Ops
           /\ call'[t].op = "update" =>
                 /\ CanModify(t) /\ call'[t].asked \in Lists
                 /\ call'[t].list = Needed(call'[t].ns, handle[t].rev, call'[t].asked)
           /\ call'[t].ns \in Namespaces
  <1>1. PICK op \in Ops, ns \in Namespaces, keys \in SUBSET Keys,
             list \in Seq(Attr), asked \in Seq(Attr) :
          /\ call'[t] = Request(t, op, ns, keys, list, asked)
          /\ op = "update" => /\ CanModify(t)
                              /\ asked \in Lists
                              /\ list = Needed(ns, handle[t].rev, asked)
    BY DEF Asks
  <1>2. /\ call'[t].phase = "sent" /\ call'[t].rev = handle[t].rev
        /\ call'[t].error = "ok" /\ call'[t].newRev = 0 /\ call'[t].op = op
        /\ call'[t].ns = ns /\ call'[t].asked = asked /\ call'[t].list = list
    BY <1>1 DEF Request
  <1> QED
    BY <1>1, <1>2

(* Nobody is told that a session is gone that is not. *)
LEMMA CallStepGone ==
    ASSUME RemoteInv, Grows, CallStep
    PROVE  GoneMeansDestroyed'
  <1> SUFFICES ASSUME NEW t \in Threads
               PROVE  /\ call'[t].error = "notFound" => isDestroyed'
                      /\ (call'[t].phase = "replied" /\ call'[t].op = "head") =>
                            call'[t].error \in {"ok", "notFound"}
                      /\ (call'[t].phase = "replied" /\ call'[t].op = "destroy"
                            /\ call'[t].error = "ok") => isDestroyed'
    BY DEF GoneMeansDestroyed, Answered, Grows
  <1>1. CASE call'[t] = call[t]
    BY <1>1 DEF RemoteInv, GoneMeansDestroyed, Answered, Grows
  <1>2. CASE call'[t] = NoCall
    BY <1>2, NoCallType
  <1>3. CASE Asks(t)
    BY <1>3, AsksFields
  <1>4. CASE Serve(t)
    <2> PICK q : q = call[t]
      OBVIOUS
    <2>1. q \in Calls
      BY DEF RemoteInv, TypeOK
    <2>2. call'[t].error = ServeError(q) /\ call'[t].op = q.op /\ Execute(q)
      BY <1>4, ServeAnswers
    <2>3. /\ ServeError(q) = "notFound" => isDestroyed
          /\ q.op \in {"head", "fetch"} => ServeError(q) \in {"ok", "notFound"}
      BY <2>1, ServeErrors
    <2>4. q.op = "destroy" /\ ServeError(q) = "ok" => isDestroyed'
      BY <2>2 DEF Execute, DestroyState
    <2> QED
      BY <2>2, <2>3, <2>4 DEF Grows
  <1>5. CASE ServeCreatedRevs(t)
    <2>1. /\ call'[t].error = call[t].error /\ call'[t].op = call[t].op
          /\ call[t].phase = "applied" /\ isDestroyed' = isDestroyed
      BY <1>5, CreatedRevsAnswers
    <2>2. call[t].op = "update"
      BY <2>1 DEF RemoteInv, CallsExist
    <2> QED
      BY <2>1, <2>2 DEF RemoteInv, GoneMeansDestroyed
  <1> QED
    BY <1>1, <1>2, <1>3, <1>4, <1>5 DEF CallStep

(* No call carries a revision that does not exist, before or after. *)
LEMMA CallStepExist ==
    ASSUME RemoteInv, Grows, CallStep
    PROVE  CallsExist'
  <1> SUFFICES ASSUME NEW t \in Threads
               PROVE  /\ call'[t].rev <= rev' /\ call'[t].newRev <= rev'
                      /\ call'[t].phase # "idle" => call'[t].op \in Ops
                      /\ call'[t].phase = "applied" => call'[t].op = "update"
    BY DEF CallsExist, Idle
  <1>1. rev \in Nat /\ rev' \in Nat /\ rev <= rev'
    BY DEF Grows
  <1>2. /\ call[t].rev \in Nat /\ call[t].newRev \in Nat
        /\ call[t].rev <= rev /\ call[t].newRev <= rev
        /\ call[t].phase # "idle" => call[t].op \in Ops
        /\ call[t].phase = "applied" => call[t].op = "update"
    BY DEF RemoteInv, TypeOK, CallsExist, Calls, Idle
  <1>3. CASE call'[t] = call[t]
    BY <1>1, <1>2, <1>3
  <1>4. CASE call'[t] = NoCall
    BY <1>1, <1>4, NoCallType
  <1>5. CASE Asks(t)
    <2>1. handle[t].rev \in Nat /\ handle[t].rev <= highestRev /\ highestRev \in Nat /\ highestRev <= rev
      BY DEF RemoteInv, TypeOK, Handles, RevisionsExist
    <2> QED
      BY <1>1, <1>5, <2>1, AsksFields
  <1>6. CASE Serve(t)
    BY <1>1, <1>2, <1>6, ServeAnswers
  <1>7. CASE ServeCreatedRevs(t)
    BY <1>1, <1>2, <1>7, CreatedRevsAnswers
  <1> QED
    BY <1>3, <1>4, <1>5, <1>6, <1>7 DEF CallStep
-----------------------------------------------------------------------------
(***************************************************************************)
(* What answers say stays true while the history grows.                    *)
(***************************************************************************)
(* An attribute that was blank until a revision stays so in a longer history. *)
LEMMA BlankGrows ==
    ASSUME Grows, NEW ns, NEW k, NEW created \in Nat, BlankUntil(history, rev, ns, k, created)
    PROVE  BlankUntil(history', rev', ns, k, created)
  <1>1. /\ rev \in Nat /\ rev' \in Nat /\ rev <= rev' /\ created <= rev
        /\ \A r \in 0..rev : history'[r] = history[r]
    BY DEF Grows, BlankUntil
  <1>2. \A r \in 0..rev' : r < created => r \in 0..rev
    BY <1>1
  <1> QED
    BY <1>1, <1>2 DEF BlankUntil

(* A longer history tells the same of an entry that describes an attribute. *)
LEMMA DescribesGrows ==
    ASSUME Grows, NEW ns, NEW k, NEW e, e.createdAt \in Nat, NEW f \in Nat,
           Describes(history, rev, ns, k, e, f)
    PROVE  Describes(history', rev', ns, k, e, f)
  <1>1. /\ rev \in Nat /\ rev' \in Nat /\ rev <= rev'
        /\ \A r \in 0..rev : history'[r] = history[r]
    BY DEF Grows
  <1>2. BlankUntil(history', rev', ns, k, e.createdAt)
    BY <1>1 DEF Describes, BlankUntil
  <1>3. f \in 0..rev /\ \A r \in 0..f : r \in 0..rev
    BY <1>1 DEF Describes
  <1> QED
    BY <1>1, <1>2, <1>3 DEF Describes

(* The owner's table describes every attribute as of its revision. *)
LEMMA AttrsDescribe ==
    ASSUME StateInv, NEW ns \in Namespaces, NEW k \in Keys
    PROVE  Describes(history, rev, ns, k, attrs[ns][k], rev)
  <1>1. /\ rev \in Nat /\ attrs[ns][k].createdAt \in Nat /\ attrs[ns][k].updatedAt \in Nat
        /\ attrs[ns][k].createdAt <= rev /\ attrs[ns][k].updatedAt <= rev
        /\ \A r \in 0..rev : SoundAt(attrs[ns][k], ns, k, r)
    BY DEF StateInv, StateTypeOK, AttrsSound, Catalog, VTable, VAttr
  <1> QED
    BY <1>1 DEF Describes, BlankUntil, SoundAt

(* A clear that the owner has executed has left nothing in the namespace. *)
LEMMA ClearEmpties ==
    ASSUME StateInv, NEW r, NEW ns \in Namespaces, TryClear(r, ns), NEW k \in Keys
    PROVE  history'[rev'][ns][k].value = Empty
  <1>1. attrs \in Catalog /\ rev \in Nat
    BY DEF StateInv, StateTypeOK
  <1>2. /\ attrs' = [attrs EXCEPT ![ns] = Cleared(attrs[ns], rev + 1)]
        /\ rev' = rev + 1
    BY DEF TryClear, Commit, WithNamespace
  <1>3. history'[rev'] = ContentsOf(attrs')
    BY <1>2, ClearAppends DEF Appends
  <1>4. attrs'[ns] = Cleared(attrs[ns], rev + 1) /\ attrs[ns][k] \in VAttr
    BY <1>1, <1>2 DEF Catalog, VTable
  <1>5. attrs'[ns][k].value = Empty
    BY <1>4 DEF Cleared, VAttr
  <1> QED
    BY <1>3, <1>5 DEF ContentsOf, Content

(* What has been answered stays true until the thread records it. *)
LEMMA CallStepAnswers ==
    ASSUME RemoteInv, Grows, CallStep
    PROVE  AnswersSound'
  <1> SUFFICES ASSUME NEW t \in Threads
               PROVE  /\ Answered(t, "fetch")' => FetchAnswered(call[t])'
                      /\ Answered(t, "clear")' => ClearAnswered(call[t])'
                      /\ Answered(t, "update")' => CreationAnswered(call[t])'
    BY DEF AnswersSound
  <1> PICK q : q = call[t]
    OBVIOUS
  <1> PICK a : a = call'[t]
    OBVIOUS
  <1>1. /\ q \in Calls /\ a \in Calls
        /\ StateInv /\ q.rev <= rev /\ q.newRev <= rev
        /\ rev \in Nat /\ rev' \in Nat /\ rev <= rev'
        /\ \A r \in 0..rev : history'[r] = history[r]
    BY DEF RemoteInv, StateInv, TypeOK, CallsExist, CallStep, Grows
  <1>2. q.newRev \in 0..rev /\ \A k \in Keys : q.table[k].createdAt \in Nat
    BY <1>1 DEF Calls, VTable, VAttr
  <1>3. CASE a = q
    <2>1. ASSUME a.phase = "replied", a.op = "fetch" PROVE FetchAnswered(call[t])'
      <3>1. FetchAnswered(q)
        BY <1>3, <2>1 DEF RemoteInv, AnswersSound, Answered
      <3>2. ASSUME q.error = "ok", NEW k \in q.keys
            PROVE  Describes(history', rev', q.ns, k, q.table[k], q.newRev)
        <4>1. Describes(history, rev, q.ns, k, q.table[k], q.newRev)
          BY <3>1, <3>2 DEF FetchAnswered
        <4>2. q.newRev \in Nat /\ k \in Keys
          BY <1>1, <3>2 DEF Calls
        <4> QED
          BY <1>2, <4>1, <4>2, DescribesGrows
      <3> QED
        BY <1>3, <3>1, <3>2 DEF FetchAnswered
    <2>2. ASSUME a.phase = "replied", a.op = "clear" PROVE ClearAnswered(call[t])'
      BY <1>1, <1>2, <1>3, <2>2 DEF RemoteInv, AnswersSound, Answered, ClearAnswered
    <2>3. ASSUME a.phase = "replied", a.op = "update" PROVE CreationAnswered(call[t])'
      <3>1. CreationAnswered(q)
        BY <1>3, <2>3 DEF RemoteInv, AnswersSound, Answered
      <3>2. ASSUME NEW k \in Keys, BlankUntil(history, rev, q.ns, k, q.table[k].createdAt)
            PROVE  BlankUntil(history', rev', q.ns, k, q.table[k].createdAt)
        BY <1>1, <1>2, <3>2 DEF BlankUntil
      <3> QED
        BY <1>3, <3>1, <3>2 DEF CreationAnswered
    <2> QED
      BY <2>1, <2>2, <2>3 DEF Answered
  <1>4. CASE a = NoCall \/ Asks(t)
    BY <1>4, NoCallType, AsksFields DEF Answered
  <1>5. CASE Serve(t)
    <2>1. /\ Execute(q) /\ a.error = ServeError(q) /\ a.op = q.op /\ a.ns = q.ns
          /\ a.rev = q.rev /\ a.keys = q.keys
          /\ a.newRev = IF ServeError(q) = "ok" THEN rev' ELSE 0
          /\ a.table = IF ServeError(q) = "ok" THEN FetchedTable(q) ELSE EmptyTable
          /\ a.phase = IF ServeError(q) = "ok" /\ q.op = "update" THEN "applied" ELSE "replied"
      BY <1>5, ServeAnswers
    <2>2. q.ns \in Namespaces /\ q.keys \in SUBSET Keys
      BY <1>1 DEF Calls
    <2>3. ASSUME a.op = "fetch" PROVE FetchAnswered(call[t])'
      <3>1. CASE ServeError(q) # "ok"
        BY <2>1, <3>1 DEF FetchAnswered
      <3>2. CASE ServeError(q) = "ok"
        <4>1. UNCHANGED <<rev, history, attrs>>
          BY <2>1, <2>3, <3>2 DEF Execute, stateVars
        <4>2. \A k \in Keys : a.table[k] = IF k \in q.keys THEN attrs[q.ns][k] ELSE Absent
          BY <2>1, <2>3, <3>2 DEF FetchedTable
        <4>3. \A k \in Keys : Describes(history, rev, q.ns, k, attrs[q.ns][k], rev)
          BY <1>1, <2>2, AttrsDescribe
        <4>4. \A k \in q.keys : k \in Keys
          BY <2>2
        <4> QED
          BY <1>1, <2>1, <3>2, <4>1, <4>2, <4>3, <4>4 DEF FetchAnswered
      <3> QED
        BY <3>1, <3>2
    <2>4. ASSUME a.op = "clear" PROVE ClearAnswered(call[t])'
      <3>1. ServeError(q) = "ok" => TryClear(q.rev, q.ns)
        BY <2>1, <2>4 DEF Execute
      <3> QED
        BY <1>1, <2>1, <2>2, <3>1, ClearEmpties DEF ClearAnswered
    <2>5. ASSUME a.op = "update", a.phase = "replied" PROVE CreationAnswered(call[t])'
      BY <2>1, <2>5 DEF CreationAnswered
    <2> QED
      BY <2>3, <2>4, <2>5 DEF Answered
  <1>6. CASE ServeCreatedRevs(t)
    <2>1. /\ UNCHANGED <<rev, history, attrs>>
          /\ a.op = q.op /\ a.ns = q.ns /\ a.table = attrs[q.ns] /\ q.phase = "applied"
      BY <1>6, CreatedRevsAnswers
    <2>2. q.op = "update" /\ q.ns \in Namespaces
      BY <1>1, <2>1 DEF RemoteInv, CallsExist, Calls
    <2>3. \A k \in Keys : BlankUntil(history, rev, q.ns, k, attrs[q.ns][k].createdAt)
      BY <1>1, <2>2, AttrsDescribe DEF Describes
    <2> QED
      BY <2>1, <2>2, <2>3 DEF Answered, CreationAnswered
  <1> QED
    BY <1>3, <1>4, <1>5, <1>6 DEF CallStep
-----------------------------------------------------------------------------
(***************************************************************************)
(* Revisions, and reads that the owner answers.                            *)
(***************************************************************************)
(* At first nothing is known of the session. *)
LEMMA InitRemoteInv == Init => RemoteInv
  <1> SUFFICES ASSUME Init PROVE RemoteInv
    OBVIOUS
  <1>1. StateInv
    BY StateInitInv DEF Init
  <1>2. rev = 0 /\ isDestroyed = FALSE
    BY DEF Init, StateInit
  <1>3. \A t \in Threads : call[t] = NoCall /\ handle[t] = NoHandle
    BY DEF Init
  <1>4. TypeOK
    <2>1. NoEntry \in Entries
      BY EmptyAssumption DEF NoEntry, Entries
    <2>2. cache \in [Namespaces -> [Keys -> Entries]]
      BY <2>1 DEF Init
    <2>3. call \in [Threads -> Calls] /\ handle \in [Threads -> Handles]
      BY NoCallType, HandleTypes DEF Init
    <2> QED
      BY <1>1, <2>2, <2>3 DEF Init, TypeOK, StateInv
  <1>5. RevisionsExist /\ ClosedMeansDestroyed
    BY <1>2, <1>3 DEF Init, RevisionsExist, ClosedMeansDestroyed, NoHandle
  <1>6. GoneMeansDestroyed /\ CallsExist /\ AnswersSound
    BY <1>2, <1>3, NoCallType DEF Init, GoneMeansDestroyed, CallsExist, AnswersSound, Answered, Idle
  <1> QED
    BY <1>1, <1>4, <1>5, <1>6 DEF RemoteInv, StateInv

(* A step in which nothing happens. *)
LEMMA StutterRemoteInv ==
    ASSUME RemoteInv, UNCHANGED vars
    PROVE  RemoteInv'
  <1>1. UNCHANGED <<rev, msgSeq, isDestroyed, attrs, history, stored, highestRev, cache, isClosed,
                    handle, call>>
    BY DEF vars, stateVars, peerVars
  <1>2. TypeOK' /\ RevisionsExist' /\ ClosedMeansDestroyed'
    BY <1>1 DEF RemoteInv, TypeOK, StateTypeOK, RevisionsExist, ClosedMeansDestroyed
  <1>3. AttrsSound' /\ FrozenKept'
    BY <1>1 DEF RemoteInv, AttrsSound, SoundAt, FrozenKept
  <1>4. GoneMeansDestroyed' /\ CallsExist'
    BY <1>1 DEF RemoteInv, GoneMeansDestroyed, CallsExist, Answered, Idle
  <1>5. AnswersSound'
    BY <1>1 DEF RemoteInv, AnswersSound, Answered, FetchAnswered, ClearAnswered, CreationAnswered
  <1> QED
    BY <1>2, <1>3, <1>4, <1>5 DEF RemoteInv

(* Every step preserves the invariant. *)
LEMMA NextRemoteInv == RemoteInv /\ [Next]_vars => RemoteInv'
  <1> SUFFICES ASSUME RemoteInv, [Next]_vars PROVE RemoteInv'
    OBVIOUS
  <1>1. CASE Next
    <2>1. Grows /\ PeerStep /\ CallStep
      BY <1>1, NextSteps
    <2>2. TypeOK' /\ RevisionsExist' /\ ClosedMeansDestroyed'
      BY <2>1, PeerStepInv
    <2>3. GoneMeansDestroyed' /\ CallsExist' /\ AnswersSound'
      BY <2>1, CallStepGone, CallStepExist, CallStepAnswers
    <2> QED
      BY <2>1, <2>2, <2>3 DEF RemoteInv, Grows, StateInv
  <1>2. CASE UNCHANGED vars
    BY <1>2, StutterRemoteInv
  <1> QED
    BY <1>1, <1>2

(* The invariant holds throughout. *)
LEMMA RemoteInvariant == Spec => []RemoteInv
  BY InitRemoteInv, NextRemoteInv, PTL DEF Spec

(* Whatever order answers arrive in, nobody here knows or holds a revision that
   the owner has not made, and no thread is ahead of the session object. *)
THEOREM KnownRevisionsExist == Spec => []RevisionsExist
  <1>1. RemoteInv => RevisionsExist
    BY DEF RemoteInv
  <1> QED
    BY <1>1, RemoteInvariant, PTL

(* A session object, or a revision of it, is closed only if the owner has
   destroyed the session. *)
THEOREM ClosedOnlyIfDestroyed == Spec => []ClosedMeansDestroyed
  <1>1. RemoteInv => ClosedMeansDestroyed
    BY DEF RemoteInv
  <1> QED
    BY <1>1, RemoteInvariant, PTL

(* What the owner answers to a fetch is right at the revision that was asked for,
   or recognized as stale there, however late it is recorded. *)
THEOREM FetchedReadsCorrect == Spec => []FetchedReadsAreCorrect
  <1>1. RemoteInv => FetchedReadsAreCorrect
    <2> SUFFICES ASSUME RemoteInv, NEW t \in Threads, Answered(t, "fetch"), call[t].error = "ok",
                        NEW k \in call[t].keys, ~IsStale(call[t].table[k], call[t].rev)
                 PROVE  ValueAt(call[t].table[k], call[t].rev) = history[call[t].rev][call[t].ns][k]
      BY DEF FetchedReadsAreCorrect
    <2> PICK q : q = call[t]
      OBVIOUS
    <2> PICK e : e = q.table[k]
      OBVIOUS
    <2>1. /\ q \in Calls /\ q.rev \in Nat /\ q.newRev \in Nat /\ k \in Keys
          /\ e.createdAt \in Nat /\ e.updatedAt \in Nat
      BY DEF RemoteInv, TypeOK, Calls, VTable, VAttr
    <2>2. q.rev <= q.newRev /\ Describes(history, rev, q.ns, k, e, q.newRev)
      BY DEF RemoteInv, AnswersSound, FetchAnswered
    <2>3. rev \in Nat /\ q.rev \in 0..q.newRev /\ q.rev \in 0..rev
      BY <2>1, <2>2 DEF RemoteInv, TypeOK, StateTypeOK, Describes
    <2> QED
      BY <2>1, <2>2, <2>3 DEF IsStale, ValueAt, Describes, BlankUntil
  <1> QED
    BY <1>1, RemoteInvariant, PTL
-----------------------------------------------------------------------------
(***************************************************************************)
(* The cache, when callers name every key once.                            *)
(***************************************************************************)
(* The new revision holds what the items of an accepted update say. *)
LEMMA UpdateWritesItems ==
    ASSUME StateInv, NEW r, NEW ns \in Namespaces, NEW l \in Seq(Attr), NamesOnce(l),
           TryUpdate(r, ns, l), NEW i \in 1..Len(l)
    PROVE  history'[rev'][ns][l[i].key] = Content(l[i])
  <1>1. attrs \in Catalog /\ rev \in Nat
    BY DEF StateInv, StateTypeOK
  <1>2. /\ attrs' = [attrs EXCEPT ![ns] = Updated(attrs[ns], l, rev + 1)]
        /\ rev' = rev + 1
    BY DEF TryUpdate, Commit, WithNamespace
  <1>3. history'[rev'] = ContentsOf(attrs')
    BY <1>2, UpdateAppends DEF Appends
  <1>4. attrs'[ns] = Updated(attrs[ns], l, rev + 1) /\ attrs[ns] \in VTable
    BY <1>1, <1>2 DEF Catalog
  <1>5. l[i] \in Attr
    OBVIOUS
  <1>6. l[i].key \in Keys
    BY <1>5 DEF Attr
  <1>7. Content(Updated(attrs[ns], l, rev + 1)[l[i].key]) = WrittenBy(attrs[ns], l, Len(l), l[i].key)
    BY <1>1, <1>4, <1>6, UpdatedContent
  <1>8. WrittenBy(attrs[ns], l, Len(l), l[i].key) = Content(l[i])
    BY NamedOnce, ZenonT(30)
  <1> QED
    BY <1>3, <1>4, <1>6, <1>7, <1>8 DEF ContentsOf

(* What an update has written is what its revision holds. *)
LEMMA CallStepUpdates ==
    ASSUME DistinctKeys, RemoteInv, UpdatesSound, Grows, CallStep
    PROVE  UpdatesSound'
  <1> SUFFICES ASSUME NEW t \in Threads, call'[t].op = "update"
               PROVE  /\ NamesOnce(call'[t].list)
                      /\ (call'[t].phase \in {"applied", "replied"} /\ call'[t].error = "ok") =>
                           \A i \in 1..Len(call'[t].list) :
                              history'[call'[t].newRev][call'[t].ns][call'[t].list[i].key]
                                 = Content(call'[t].list[i])
    BY DEF UpdatesSound
  <1> PICK q : q = call[t]
    OBVIOUS
  <1> PICK a : a = call'[t]
    OBVIOUS
  <1>1. /\ q \in Calls /\ StateInv /\ q.newRev \in 0..rev
        /\ \A r \in 0..rev : history'[r] = history[r]
    BY DEF RemoteInv, StateInv, TypeOK, StateTypeOK, CallsExist, Calls, Grows
  <1>2. q.op = "update" =>
          /\ NamesOnce(q.list)
          /\ (q.phase \in {"applied", "replied"} /\ q.error = "ok") =>
                \A i \in 1..Len(q.list) :
                   history[q.newRev][q.ns][q.list[i].key] = Content(q.list[i])
    BY DEF UpdatesSound
  <1>3. CASE a = q
    <2>1. history'[q.newRev] = history[q.newRev]
      BY <1>1
    <2>2. call'[t] = q /\ q.op = "update"
      BY <1>3
    <2>3. NamesOnce(q.list)
      BY <1>2, <2>2, Zenon
    <2>4. ASSUME q.phase \in {"applied", "replied"}, q.error = "ok", NEW i \in 1..Len(q.list)
          PROVE  history'[q.newRev][q.ns][q.list[i].key] = Content(q.list[i])
      BY <1>2, <2>1, <2>2, <2>4, Zenon
    <2> QED
      BY <2>2, <2>3, <2>4, Zenon
  <1>4. CASE a = NoCall
    BY <1>4, NoCallType
  <1>5. CASE Asks(t)
    <2>1. /\ a.phase = "sent" /\ a.asked \in Lists
          /\ a.list = Needed(a.ns, handle[t].rev, a.asked)
      BY <1>5, AsksFields
    <2>2. a.asked \in Seq(Attr) /\ NamesOnce(a.asked)
      BY <2>1, ListsAssumption DEF DistinctKeys
    <2>3. NamesOnce(a.list)
      BY <2>1, <2>2, NeededItems
    <2> QED
      BY <2>1, <2>3
  <1>6. CASE Serve(t)
    <2>1. /\ Execute(q) /\ a.error = ServeError(q) /\ a.op = q.op /\ a.ns = q.ns
          /\ a.list = q.list
          /\ a.newRev = IF ServeError(q) = "ok" THEN rev' ELSE 0
      BY <1>6, ServeAnswers
    <2>2. q.ns \in Namespaces /\ q.list \in Seq(Attr) /\ NamesOnce(q.list)
      BY <1>1, <1>2, <2>1 DEF Calls
    <2>3. ServeError(q) = "ok" => TryUpdate(q.rev, q.ns, q.list)
      BY <2>1 DEF Execute
    <2>4. ServeError(q) = "ok" =>
             \A i \in 1..Len(q.list) : history'[rev'][q.ns][q.list[i].key] = Content(q.list[i])
      BY <1>1, <2>2, <2>3, UpdateWritesItems
    <2> QED
      BY <2>1, <2>2, <2>4
  <1>7. CASE ServeCreatedRevs(t)
    <2>1. /\ history' = history /\ a.op = q.op /\ a.ns = q.ns /\ a.list = q.list
          /\ a.error = q.error /\ a.newRev = q.newRev /\ q.phase = "applied"
      BY <1>7, CreatedRevsAnswers
    <2> QED
      BY <1>2, <2>1
  <1> QED
    BY <1>3, <1>4, <1>5, <1>6, <1>7 DEF CallStep

(* The cache changes only when an answer is recorded. *)
LEMMA CacheKept ==
    ASSUME RemoteInv, Next
    PROVE  \/ UNCHANGED cache
           \/ \E t \in Threads : /\ FetchEnd(t) \/ UpdateEnd(t) \/ ClearEnd(t)
                                 /\ StateSame /\ UpdateState(call[t])
  <1>1. ASSUME NEW t \in Threads, FetchEnd(t) \/ UpdateEnd(t) \/ ClearEnd(t)
        PROVE  StateSame /\ UpdateState(call[t])
    BY <1>1 DEF FetchEnd, UpdateEnd, ClearEnd, StateSame, stateVars
  <1>2. ASSUME OwnerStep PROVE UNCHANGED cache
    BY <1>2 DEF OwnerStep, OwnerUpdate, OwnerClear, OwnerDestroy, OwnerForget, OwnerUnchanged,
                Serve, ServeCreatedRevs, peerVars
  <1>3. ASSUME NEW t \in Threads, Begin(t) PROVE UNCHANGED cache
    BY <1>3 DEF Begin, At, HeadBegin, FetchBegin, UpdateBegin, ClearBegin, DestroyBegin, Sends, peerVars
  <1>4. ASSUME NEW t \in Threads, HeadEnd(t) \/ DestroyEnd(t) \/ TimeOut(t) PROVE UNCHANGED cache
    BY <1>4 DEF HeadEnd, DestroyEnd, TimeOut, peerVars
  <1> QED
    BY <1>1, <1>2, <1>3, <1>4 DEF Next, End

(* An entry that a clear which made revision r has emptied. *)
Emptied(e, r) == [e EXCEPT !.value = Empty, !.fetchedAt = r]

(* What a clear that succeeded leaves of an entry that it changes. *)
LEMMA ClearedEntry ==
    ASSUME CacheType, NEW t \in Threads, ClearEnd(t), call[t].error = "ok",
           call[t].ns \in Namespaces, NEW ns \in Namespaces, NEW k \in Keys,
           cache'[ns][k] # cache[ns][k]
    PROVE  /\ ns = call[t].ns /\ IsCached(cache[ns][k]) /\ call[t].newRev > cache[ns][k].fetchedAt
           /\ cache'[ns][k] = Emptied(cache[ns][k], call[t].newRev)
  <1> PICK q : q = call[t]
    OBVIOUS
  <1> DEFINE row == [x \in Keys |->
               IF IsCached(cache[q.ns][x]) /\ q.newRev > cache[q.ns][x].fetchedAt
               THEN [cache[q.ns][x] EXCEPT !.value = Empty, !.fetchedAt = q.newRev]
               ELSE cache[q.ns][x]]
  <1>1. cache' = [cache EXCEPT ![q.ns] = row]
    BY DEF ClearEnd
  <1>2. row[k] = IF IsCached(cache[q.ns][k]) /\ q.newRev > cache[q.ns][k].fetchedAt
                 THEN [cache[q.ns][k] EXCEPT !.value = Empty, !.fetchedAt = q.newRev]
                 ELSE cache[q.ns][k]
    OBVIOUS
  <1> HIDE DEF row
  <1>3. ns = q.ns /\ cache'[ns][k] = row[k]
    BY <1>1 DEF CacheType
  <1> QED
    BY <1>2, <1>3 DEF Emptied

(* The value, and a set flag, of an entry are those of its revision. *)
LEMMA NextEntries ==
    ASSUME CacheInv, Next
    PROVE  EntriesSound'
  <1>1. RemoteInv /\ UpdatesSound /\ EntriesSound
    BY DEF CacheInv
  <1>2. Grows /\ PeerStep
    BY <1>1, NextSteps
  <1>3. /\ rev \in Nat /\ rev <= rev' /\ highestRev \in Nat /\ highestRev <= rev
        /\ highestRev' \in Nat /\ highestRev <= highestRev'
        /\ \A r \in 0..rev : history'[r] = history[r]
        /\ cache \in [Namespaces -> [Keys -> Entries]] /\ FrozenKept
    BY <1>1, <1>2 DEF Grows, PeerStep, RemoteInv, TypeOK, RevisionsExist
  <1> SUFFICES ASSUME NEW ns \in Namespaces, NEW k \in Keys
               PROVE  EntrySound(ns, k, cache[ns][k])'
    BY DEF EntriesSound
  <1> PICK e : e = cache[ns][k]
    OBVIOUS
  <1>4. e \in Entries /\ EntrySound(ns, k, e)
    BY <1>1, <1>3 DEF EntriesSound
  <1>5. e.fetchedAt \in Nat
    BY <1>4 DEF Entries
  <1>6. CASE cache'[ns][k] = e
    <2>1. IsCached(e) => e.fetchedAt <= highestRev' /\ e.fetchedAt \in 0..rev
      BY <1>3, <1>4, <1>5 DEF EntrySound
    <2> QED
      BY <1>3, <1>4, <1>6, <2>1 DEF EntrySound
  <1>7. ASSUME NEW t \in Threads, FetchEnd(t) \/ UpdateEnd(t) \/ ClearEnd(t),
               StateSame, UpdateState(call[t]), cache'[ns][k] # e
        PROVE  EntrySound(ns, k, cache[ns][k])'
    <2> PICK q : q = call[t]
      OBVIOUS
    <2>1. /\ q \in Calls /\ q.newRev \in Nat /\ q.newRev <= rev
          /\ q.error = "ok" => q.newRev <= highestRev'
          /\ history' = history
      BY <1>1, <1>7, UpdateStateExists DEF RemoteInv, TypeOK, Calls, CallsExist, StateSame
    <2>2. CASE FetchEnd(t)
      <3>1. /\ ns = q.ns /\ Exists(q.table[k])
            /\ cache'[ns][k] = Fetched(q, k)
        BY <1>3, <1>7, <2>2 DEF FetchEnd
      <3>2. FetchAnswered(q)
        BY <1>1, <2>2 DEF RemoteInv, AnswersSound, FetchEnd
      <3>3. q.error = "ok" /\ k \in q.keys
        BY <3>1, <3>2 DEF FetchAnswered, EmptyTable, Absent, Exists
      <3>4. history[q.newRev][ns][k] = Content(q.table[k])
        BY <3>1, <3>2, <3>3 DEF FetchAnswered, Describes
      <3>5. /\ cache'[ns][k].fetchedAt = q.newRev
            /\ cache'[ns][k].value = q.table[k].value /\ cache'[ns][k].frozen = q.table[k].frozen
        BY <3>1 DEF Fetched
      <3>6. q.newRev # 0
        BY <1>5, <1>7, <2>1, <2>2, <3>1 DEF FetchEnd
      <3> QED
        BY <2>1, <3>3, <3>4, <3>5, <3>6 DEF EntrySound, IsCached, Content
    <2>3. CASE UpdateEnd(t)
      <3>1. q.error = "ok"
        BY <1>7, <2>3 DEF UpdateEnd
      <3>2. /\ ns = q.ns /\ Writes(q.list, Len(q.list), k) # {} /\ q.newRev > e.fetchedAt
            /\ cache'[ns][k] = Sent(q, k)
        BY <1>3, <1>7, <2>3, <3>1 DEF UpdateEnd
      <3>3. PICK i \in 1..Len(q.list) :
               /\ q.list[i].key = k
               /\ Sent(q, k).value = q.list[i].value /\ Sent(q, k).frozen = q.list[i].frozen
        BY <2>1, <3>2, SentType
      <3>4. Sent(q, k).fetchedAt = q.newRev
        BY <2>1, <3>2, SentType
      <3>5. history[q.newRev][ns][k] = Content(q.list[i])
        <4>1. q.phase = "replied" /\ q.op = "update"
          BY <2>3 DEF UpdateEnd, Answered
        <4> QED
          BY <1>1, <3>1, <3>2, <3>3, <4>1 DEF UpdatesSound
      <3>6. q.newRev # 0
        BY <1>5, <2>1, <3>2
      <3> QED
        BY <2>1, <3>1, <3>2, <3>3, <3>4, <3>5, <3>6 DEF EntrySound, IsCached, Content
    <2>4. CASE ClearEnd(t)
      <3>1. q.error = "ok"
        BY <1>7, <2>4 DEF ClearEnd
      <3>2. /\ ns = q.ns /\ IsCached(e) /\ q.newRev > e.fetchedAt
            /\ cache'[ns][k] = Emptied(e, q.newRev)
        <4>1. CacheType /\ call[t].ns \in Namespaces /\ call[t].error = "ok"
          BY <1>3, <2>1, <3>1 DEF Calls, CacheType
        <4>2. cache'[ns][k] # cache[ns][k]
          BY <1>7
        <4>3. /\ ns = call[t].ns /\ IsCached(cache[ns][k])
              /\ call[t].newRev > cache[ns][k].fetchedAt
              /\ cache'[ns][k] = Emptied(cache[ns][k], call[t].newRev)
          BY <2>4, <4>1, <4>2, ClearedEntry, Zenon
        <4> QED
          BY <4>3
      <3>3. /\ cache'[ns][k].value = Empty /\ cache'[ns][k].fetchedAt = q.newRev
            /\ cache'[ns][k].frozen = e.frozen
        BY <1>4, <3>2 DEF Entries, Emptied
      <3>4. history[q.newRev][ns][k].value = Empty
        BY <1>1, <2>4, <3>1, <3>2 DEF ClearEnd, RemoteInv, AnswersSound, ClearAnswered
      <3>5. e.frozen => history[q.newRev][ns][k] = Content(e)
        <4>1. e.fetchedAt \in 0..rev /\ q.newRev \in 0..rev /\ e.fetchedAt <= q.newRev
          BY <1>3, <1>5, <2>1, <3>2
        <4>2. e.frozen => history[e.fetchedAt][ns][k] = Content(e)
          BY <1>4, <3>2 DEF EntrySound
        <4>3. Content(e).frozen = e.frozen
          BY DEF Content
        <4>4. history[e.fetchedAt][ns][k].frozen =>
                 history[q.newRev][ns][k] = history[e.fetchedAt][ns][k]
          BY <1>3, <4>1 DEF FrozenKept
        <4> QED
          BY <4>2, <4>3, <4>4
      <3>6. e.frozen => history[q.newRev][ns][k] = Content(cache'[ns][k])
        <4>1. e.frozen => e.value = Empty
          BY <3>4, <3>5 DEF Content
        <4>2. Content(cache'[ns][k]) = [value |-> Empty, frozen |-> e.frozen]
          BY <3>3 DEF Content
        <4> QED
          BY <3>5, <4>1, <4>2 DEF Content
      <3>7. q.newRev # 0
        BY <1>5, <2>1, <3>2
      <3> QED
        BY <2>1, <3>1, <3>3, <3>4, <3>6, <3>7 DEF EntrySound, IsCached
    <2> QED
      BY <1>7, <2>2, <2>3, <2>4
  <1> QED
    BY <1>1, <1>6, <1>7, CacheKept
(* The invariant of the cache holds throughout. *)
LEMMA CacheInvariant ==
    ASSUME DistinctKeys
    PROVE  Spec => []CacheInv
  <1>1. Init => CacheInv
    <2> SUFFICES ASSUME Init PROVE CacheInv
      OBVIOUS
    <2>1. UpdatesSound
      BY NoCallType DEF Init, UpdatesSound
    <2>2. EntriesSound
      BY DEF Init, EntriesSound, EntrySound, IsCached, NoEntry
    <2> QED
      BY <2>1, <2>2, InitRemoteInv DEF CacheInv
  <1>2. CacheInv /\ [Next]_vars => CacheInv'
    <2> SUFFICES ASSUME CacheInv, [Next]_vars PROVE CacheInv'
      OBVIOUS
    <2>1. RemoteInv'
      BY NextRemoteInv DEF CacheInv
    <2>2. CASE Next
      BY <2>1, <2>2, NextSteps, CallStepUpdates, NextEntries DEF CacheInv
    <2>3. CASE UNCHANGED vars
      <3>1. UNCHANGED <<history, highestRev, cache, call>>
        BY <2>3 DEF vars, stateVars, peerVars
      <3>2. UpdatesSound' /\ EntriesSound'
        BY <3>1 DEF CacheInv, UpdatesSound, EntriesSound, EntrySound
      <3> QED
        BY <2>1, <3>2 DEF CacheInv
    <2> QED
      BY <2>2, <2>3
  <1> QED
    BY <1>1, <1>2, PTL DEF Spec

(* With every operation in use, and answers recorded in any order, the value of a
   cache entry is that of the revision it claims. *)
THEOREM EntriesHoldValue ==
    ASSUME DistinctKeys
    PROVE  Spec => []EntriesHoldFetchedValue
  <1>1. CacheInv => EntriesHoldFetchedValue
    BY DEF CacheInv, EntriesSound, EntrySound, EntriesHoldFetchedValue
  <1> QED
    BY <1>1, CacheInvariant, PTL

(* A frozen entry is what the owner holds, at its revision and ever after. *)
THEOREM FrozenEntriesFinal ==
    ASSUME DistinctKeys
    PROVE  Spec => []FrozenEntriesAreFinal
  <1>1. CacheInv => FrozenEntriesAreFinal
    <2> SUFFICES ASSUME CacheInv, NEW ns \in Namespaces, NEW k \in Keys, cache[ns][k].frozen
                 PROVE  Content(cache[ns][k]) = Content(attrs[ns][k])
      BY DEF FrozenEntriesAreFinal
    <2> PICK e : e = cache[ns][k]
      OBVIOUS
    <2>1. e \in Entries /\ EntrySound(ns, k, e) /\ StateInv
      BY DEF CacheInv, RemoteInv, TypeOK, StateInv, EntriesSound
    <2>2. IsCached(e)
      BY <2>1 DEF EntrySound, NoEntry
    <2>3. e.fetchedAt \in 0..rev /\ rev \in 0..rev /\ e.fetchedAt <= rev
      BY <2>1, <2>2 DEF EntrySound, Entries, CacheInv, RemoteInv, RevisionsExist, TypeOK, StateTypeOK
    <2>4. history[e.fetchedAt][ns][k] = Content(e) /\ Content(e).frozen
      BY <2>1, <2>2 DEF EntrySound, Content
    <2>5. history[rev][ns][k] = Content(e)
      BY <2>1, <2>3, <2>4 DEF StateInv, FrozenKept
    <2>6. history[rev][ns][k] = Content(attrs[ns][k])
      BY <2>1, AttrsDescribe DEF Describes
    <2> QED
      BY <2>5, <2>6
  <1> QED
    BY <1>1, CacheInvariant, PTL

-----------------------------------------------------------------------------
(***************************************************************************)
(* The cache, when also no thread of this peer clears a namespace.         *)
(***************************************************************************)
(* Entries describe their attribute in full. *)
LEMMA NextDescribe ==
    ASSUME NoClear, FullInv, Next
    PROVE  EntriesDescribe'
  <1>1. RemoteInv /\ UpdatesSound /\ EntriesSound /\ EntriesDescribe
    BY DEF CacheInv, FullInv
  <1>2. Grows
    BY <1>1, NextSteps
  <1>3. cache \in [Namespaces -> [Keys -> Entries]] /\ rev \in Nat
    BY <1>1, <1>2 DEF Grows, RemoteInv, TypeOK
  <1> SUFFICES ASSUME NEW ns \in Namespaces, NEW k \in Keys, IsCached(cache'[ns][k])
               PROVE  Describes(history', rev', ns, k, cache'[ns][k], cache'[ns][k].fetchedAt)
    BY DEF EntriesDescribe
  <1> PICK e : e = cache[ns][k]
    OBVIOUS
  <1>4. e \in Entries /\ e.fetchedAt \in Nat /\ e.createdAt \in Nat
    BY <1>3 DEF Entries
  <1>5. CASE cache'[ns][k] = e
    <2>1. Describes(history, rev, ns, k, e, e.fetchedAt)
      BY <1>1, <1>5 DEF EntriesDescribe
    <2> QED
      BY <1>2, <1>4, <1>5, <2>1, DescribesGrows
  <1>6. ASSUME NEW t \in Threads, FetchEnd(t) \/ UpdateEnd(t) \/ ClearEnd(t),
               StateSame, cache'[ns][k] # e
        PROVE  Describes(history', rev', ns, k, cache'[ns][k], cache'[ns][k].fetchedAt)
    <2> PICK q : q = call[t]
      OBVIOUS
    <2>1. /\ q \in Calls /\ q.newRev \in Nat /\ q.newRev <= rev
          /\ history' = history /\ rev' = rev
      BY <1>1, <1>6 DEF RemoteInv, TypeOK, Calls, CallsExist, StateSame
    <2>2. CASE FetchEnd(t)
      <3>1. /\ ns = q.ns /\ Exists(q.table[k])
            /\ cache'[ns][k] = Fetched(q, k)
        BY <1>3, <1>6, <2>2 DEF FetchEnd
      <3>2. FetchAnswered(q)
        BY <1>1, <2>2 DEF RemoteInv, AnswersSound, FetchEnd
      <3>3. q.error = "ok" /\ k \in q.keys
        BY <3>1, <3>2 DEF FetchAnswered, EmptyTable, Absent, Exists
      <3>4. Describes(history, rev, ns, k, q.table[k], q.newRev)
        BY <3>1, <3>2, <3>3 DEF FetchAnswered
      <3>5. /\ Fetched(q, k).fetchedAt = q.newRev
            /\ Content(Fetched(q, k)) = Content(q.table[k])
            /\ Fetched(q, k).createdAt = q.table[k].createdAt
            /\ Fetched(q, k).updatedAt = q.table[k].updatedAt
        BY DEF Fetched, Content
      <3> QED
        BY <2>1, <3>1, <3>4, <3>5 DEF Describes
    <2>3. CASE UpdateEnd(t)
      <3>1. q.error = "ok"
        BY <1>6, <2>3 DEF UpdateEnd
      <3>2. /\ ns = q.ns /\ Writes(q.list, Len(q.list), k) # {}
            /\ cache'[ns][k] = Sent(q, k)
        BY <1>3, <1>6, <2>3, <3>1 DEF UpdateEnd
      <3>3. PICK i \in 1..Len(q.list) :
               /\ q.list[i].key = k
               /\ Sent(q, k).value = q.list[i].value /\ Sent(q, k).frozen = q.list[i].frozen
        BY <2>1, <3>2, SentType
      <3>4. /\ Sent(q, k).fetchedAt = q.newRev /\ Sent(q, k).updatedAt = q.newRev
            /\ Sent(q, k).createdAt = q.table[k].createdAt
        BY <2>1, <3>2, SentType
      <3>5. Answered(t, "update") /\ q.phase = "replied" /\ q.op = "update"
        BY <2>3 DEF UpdateEnd, Answered
      <3>6. history[q.newRev][ns][k] = Content(q.list[i])
        BY <1>1, <3>1, <3>2, <3>3, <3>5 DEF UpdatesSound
      <3>7. Content(Sent(q, k)) = Content(q.list[i])
        BY <3>3 DEF Content
      <3>8. BlankUntil(history, rev, ns, k, q.table[k].createdAt)
        BY <1>1, <3>1, <3>2, <3>5 DEF RemoteInv, AnswersSound, CreationAnswered
      <3>9. \A r \in 0..q.newRev : q.newRev <= r => r = q.newRev
        BY <2>1
      <3> QED
        BY <2>1, <3>2, <3>4, <3>6, <3>7, <3>8, <3>9 DEF Describes
    <2>4. CASE ClearEnd(t)
      BY <1>1, <2>4 DEF NoClear, ClearEnd, Answered, RemoteInv, CallsExist, Idle
    <2> QED
      BY <1>6, <2>2, <2>3, <2>4
  <1> QED
    BY <1>1, <1>5, <1>6, CacheKept

(* An item that the cache answers is in the owner's table at the revision of
   the update: the entry was fetched then, or is frozen and was fetched before. *)
LEMMA RedundantIsHeld ==
    ASSUME FullInv, NEW t \in Threads, CanModify(t), NEW ns \in Namespaces, NEW a \in Attr,
           IsRedundant(ns, handle[t].rev, a)
    PROVE  history[handle[t].rev][ns][a.key] = Content(a)
  <1>1. RemoteInv /\ EntriesSound /\ EntriesDescribe
    BY DEF FullInv, CacheInv
  <1> PICK k \in Keys : k = a.key
    BY DEF Attr
  <1> PICK e : e = cache[ns][k]
    OBVIOUS
  <1>2. IsCached(e) /\ Content(a) = Content(e) /\ (e.frozen \/ e.fetchedAt = handle[t].rev)
    BY DEF IsRedundant
  <1>3. /\ history[e.fetchedAt][ns][k] = Content(e)
        /\ e.fetchedAt <= highestRev
    BY <1>1, <1>2 DEF EntriesDescribe, Describes, EntriesSound, EntrySound
  <1>4. /\ e.fetchedAt \in Nat /\ handle[t].rev \in Nat /\ rev \in Nat /\ highestRev \in Nat
        /\ highestRev <= handle[t].rev /\ handle[t].rev <= highestRev /\ highestRev <= rev
    BY <1>1 DEF RemoteInv, TypeOK, StateTypeOK, Handles, Entries, CanModify, RevisionsExist
  <1>5. e.fetchedAt \in 0..rev /\ handle[t].rev \in 0..rev /\ e.fetchedAt <= handle[t].rev
    BY <1>3, <1>4
  <1>6. CASE e.frozen
    <2>1. history[e.fetchedAt][ns][k].frozen
      BY <1>3, <1>6 DEF Content
    <2>2. FrozenKept
      BY <1>1 DEF RemoteInv
    <2>3. \A r1, r2 \in 0..rev : (r1 <= r2 /\ history[r1][ns][k].frozen) =>
             history[r2][ns][k] = history[r1][ns][k]
      BY <2>2, Zenon DEF FrozenKept
    <2>4. history[handle[t].rev][ns][k] = history[e.fetchedAt][ns][k]
      BY <1>5, <2>1, <2>3, Zenon
    <2> QED
      BY <1>2, <1>3, <2>4
  <1>7. CASE e.fetchedAt = handle[t].rev
    BY <1>2, <1>3, <1>7
  <1> QED
    BY <1>2, <1>6, <1>7
(* An update that is under way was shortened by what the table holds. *)
LEMMA NextShorter ==
    ASSUME DistinctKeys, FullInv, Next
    PROVE  ShorterSound'
  <1>1. RemoteInv /\ ShorterSound
    BY DEF FullInv, CacheInv
  <1>2. Grows /\ CallStep
    BY <1>1, NextSteps
  <1> SUFFICES ASSUME NEW t \in Threads, call'[t].op = "update", call'[t].phase = "sent"
               PROVE  /\ NamesOnce(call'[t].asked)
                      /\ \A i \in 1..Len(call'[t].list) : Contains(call'[t].asked, call'[t].list[i])
                      /\ \A i \in 1..Len(call'[t].asked) :
                            \/ Contains(call'[t].list, call'[t].asked[i])
                            \/ history'[call'[t].rev][call'[t].ns][call'[t].asked[i].key]
                                  = Content(call'[t].asked[i])
    BY DEF ShorterSound
  <1> PICK q : q = call[t]
    OBVIOUS
  <1> PICK a : a = call'[t]
    OBVIOUS
  <1>3. CASE a = q
    <2>1. q.rev \in 0..rev /\ \A r \in 0..rev : history'[r] = history[r]
      BY <1>1, <1>2 DEF RemoteInv, TypeOK, Calls, CallsExist, Grows
    <2>2. /\ NamesOnce(q.asked)
          /\ \A i \in 1..Len(q.list) : Contains(q.asked, q.list[i])
          /\ \A i \in 1..Len(q.asked) :
                \/ Contains(q.list, q.asked[i])
                \/ history[q.rev][q.ns][q.asked[i].key] = Content(q.asked[i])
      BY <1>1, <1>3 DEF ShorterSound
    <2>3. history'[q.rev] = history[q.rev]
      BY <2>1
    <2>4. call'[t] = q
      BY <1>3
    <2>5. ASSUME NEW i \in 1..Len(q.asked)
          PROVE  \/ Contains(q.list, q.asked[i])
                 \/ history'[q.rev][q.ns][q.asked[i].key] = Content(q.asked[i])
      BY <2>2, <2>3, <2>5, Zenon
    <2> QED
      BY <2>2, <2>4, <2>5, Zenon
  <1>4. CASE Asks(t) /\ StateSame
    <2>1. /\ a.rev = handle[t].rev /\ CanModify(t) /\ a.asked \in Lists /\ a.ns \in Namespaces
          /\ a.list = Needed(a.ns, handle[t].rev, a.asked)
          /\ history' = history
      BY <1>4, AsksFields DEF StateSame
    <2>2. a.asked \in Seq(Attr) /\ NamesOnce(a.asked)
      BY <2>1, ListsAssumption DEF DistinctKeys
    <2>3. /\ \A i \in 1..Len(a.list) : Contains(a.asked, a.list[i])
          /\ \A i \in 1..Len(a.asked) :
                IsRedundant(a.ns, handle[t].rev, a.asked[i]) \/ Contains(a.list, a.asked[i])
      BY <2>1, <2>2, NeededItems
    <2>4. \A i \in 1..Len(a.asked) : a.asked[i] \in Attr
      BY <2>2
    <2>5. \A i \in 1..Len(a.asked) : IsRedundant(a.ns, handle[t].rev, a.asked[i]) =>
              history[handle[t].rev][a.ns][a.asked[i].key] = Content(a.asked[i])
      BY <2>1, <2>4, RedundantIsHeld
    <2> QED
      BY <2>1, <2>2, <2>3, <2>5
  <1>5. CASE a = NoCall
    BY <1>5, NoCallType
  <1>6. CASE Serve(t)
    BY <1>1, <1>6, ServeAnswers
  <1>7. CASE ServeCreatedRevs(t)
    BY <1>1, <1>7, CreatedRevsAnswers
  <1> QED
    BY <1>2, <1>3, <1>4, <1>5, <1>6, <1>7 DEF CallStep

(* The invariant holds throughout. *)
LEMMA FullInvariant ==
    ASSUME DistinctKeys, NoClear
    PROVE  Spec => []FullInv
  <1>1. Init => EntriesDescribe /\ ShorterSound
    BY NoCallType DEF Init, EntriesDescribe, ShorterSound, IsCached, NoEntry
  <1>2. CacheInv /\ CacheInv' /\ EntriesDescribe /\ ShorterSound /\ [Next]_vars
           => EntriesDescribe' /\ ShorterSound'
    <2> SUFFICES ASSUME CacheInv, EntriesDescribe, ShorterSound, [Next]_vars
                 PROVE  EntriesDescribe' /\ ShorterSound'
      OBVIOUS
    <2>1. FullInv
      BY DEF FullInv
    <2>2. CASE Next
      BY <2>1, <2>2, NextDescribe, NextShorter
    <2>3. CASE UNCHANGED vars
      <3>1. UNCHANGED <<rev, history, cache, call>>
        BY <2>3 DEF vars, stateVars, peerVars
      <3> QED
        BY <3>1 DEF EntriesDescribe, ShorterSound
    <2> QED
      BY <2>2, <2>3
  <1>3. FullInv <=> CacheInv /\ EntriesDescribe /\ ShorterSound
    BY DEF FullInv
  <1> QED
    BY <1>1, <1>2, <1>3, CacheInvariant, PTL DEF Spec

(* What the cache answers, without asking the owner, is what the attribute was
   at the revision asked for, in whatever order answers were recorded. *)
THEOREM CachedReadsCorrect ==
    ASSUME DistinctKeys, NoClear
    PROVE  Spec => []CachedReadsAreCorrect
  <1>1. FullInv => CachedReadsAreCorrect
    <2> SUFFICES ASSUME FullInv, NEW ns \in Namespaces, NEW k \in Keys, NEW r \in 1..rev,
                        IsSolved(cache[ns][k], r)
                 PROVE  ValueAt(cache[ns][k], r) = history[r][ns][k]
      BY DEF CachedReadsAreCorrect
    <2> PICK e : e = cache[ns][k]
      OBVIOUS
    <2>1. RemoteInv /\ rev \in Nat /\ r \in 0..rev /\ e \in Entries
      BY DEF FullInv, CacheInv, RemoteInv, TypeOK, StateTypeOK
    <2>2. e.createdAt \in Nat /\ e.updatedAt \in Nat /\ e.fetchedAt \in Nat
      BY <2>1 DEF Entries
    <2>3. IsCached(e) /\ Describes(history, rev, ns, k, e, e.fetchedAt)
      BY DEF FullInv, EntriesDescribe, IsSolved
    <2>4. CASE e.createdAt > r
      BY <2>1, <2>2, <2>3, <2>4 DEF ValueAt, Describes, BlankUntil
    <2>5. CASE ~(e.createdAt > r) /\ e.updatedAt <= r /\ r <= e.fetchedAt
      <3>1. r \in 0..e.fetchedAt /\ e.createdAt <= r
        BY <2>1, <2>2, <2>5
      <3> QED
        BY <2>3, <2>5, <3>1 DEF ValueAt, Describes
    <2>6. CASE ~(e.createdAt > r) /\ e.frozen /\ ~(r <= e.fetchedAt)
      <3>1. e.fetchedAt \in 0..rev /\ e.fetchedAt <= r
        BY <2>1, <2>2, <2>6
      <3>2. history[e.fetchedAt][ns][k] = Content(e) /\ Content(e).frozen
        BY <2>3, <2>6 DEF Describes, Content
      <3>3. history[r][ns][k] = Content(e)
        BY <2>1, <3>1, <3>2 DEF RemoteInv, FrozenKept
      <3> QED
        BY <2>6, <3>3 DEF ValueAt
    <2> QED
      BY <2>4, <2>5, <2>6 DEF IsSolved
  <1> QED
    BY <1>1, FullInvariant, PTL

(* A list without items that a table holds already does the same to the table. *)
LEMMA ShorterListSame ==
    ASSUME NEW t \in VTable, NEW r \in Nat, NEW short \in Seq(Attr), NEW long \in Seq(Attr),
           NamesOnce(short), NamesOnce(long),
           \A i \in 1..Len(short) : Contains(long, short[i]),
           \A i \in 1..Len(long) :
              Contains(short, long[i]) \/ Content(t[long[i].key]) = Content(long[i])
    PROVE  /\ ViolatesFrozen(t, short) <=> ViolatesFrozen(t, long)
           /\ \A k \in Keys : Content(Updated(t, short, r)[k]) = Content(Updated(t, long, r)[k])
  <1> DEFINE Bad(a) == Content(a) # Content(t[a.key]) /\ t[a.key].frozen
  <1>1. /\ ViolatesFrozen(t, short) <=> \E i \in 1..Len(short) : Bad(short[i])
        /\ ViolatesFrozen(t, long) <=> \E i \in 1..Len(long) : Bad(long[i])
    BY NamedOnceViolates
  <1>2. \A i \in 1..Len(long) : Bad(long[i]) => Contains(short, long[i])
    OBVIOUS
  <1> HIDE DEF Bad
  <1>3. ViolatesFrozen(t, short) <=> ViolatesFrozen(t, long)
    BY <1>1, <1>2 DEF Contains
  <1>4. ASSUME NEW k \in Keys
        PROVE  Content(Updated(t, short, r)[k]) = Content(Updated(t, long, r)[k])
    <2>1. /\ Content(Updated(t, short, r)[k]) = WrittenBy(t, short, Len(short), k)
          /\ Content(Updated(t, long, r)[k]) = WrittenBy(t, long, Len(long), k)
      BY UpdatedContent
    <2>2. /\ \A j \in 1..Len(short) : short[j].key = k =>
                WrittenBy(t, short, Len(short), k) = Content(short[j])
          /\ \A i \in 1..Len(long) : long[i].key = k =>
                WrittenBy(t, long, Len(long), k) = Content(long[i])
      BY NamedOnce
    <2>3. CASE \E j \in 1..Len(short) : short[j].key = k
      <3>1. PICK j \in 1..Len(short) : short[j].key = k
        BY <2>3
      <3>2. PICK i \in 1..Len(long) : long[i] = short[j]
        BY DEF Contains
      <3> QED
        BY <2>1, <2>2, <3>1, <3>2
    <2>4. CASE ~\E j \in 1..Len(short) : short[j].key = k
      <3>1. WrittenBy(t, short, Len(short), k) = Content(t[k])
        BY <2>4 DEF WrittenBy, Writes
      <3>2. CASE \E i \in 1..Len(long) : long[i].key = k
        BY <2>1, <2>2, <2>4, <3>1, <3>2 DEF Contains
      <3>3. CASE ~\E i \in 1..Len(long) : long[i].key = k
        BY <2>1, <3>1, <3>3 DEF WrittenBy, Writes
      <3> QED
        BY <3>2, <3>3
    <2> QED
      BY <2>3, <2>4
  <1> QED
    BY <1>3, <1>4

(* The invariant says that a list that was shortened does what the caller's would. *)
LEMMA InvShorterSame == FullInv => ShorterUpdateIsSame
  <1> SUFFICES ASSUME FullInv, NEW t \in Threads,
                      call[t].phase = "sent", call[t].op = "update", Accepts(call[t].rev)
               PROVE  LET q == call[t]
                          Result(l) == [k \in Keys |-> Content(Updated(attrs[q.ns], l, rev + 1)[k])]
                      IN /\ ViolatesFrozen(attrs[q.ns], q.list) <=> ViolatesFrozen(attrs[q.ns], q.asked)
                         /\ ~ViolatesFrozen(attrs[q.ns], q.list) => Result(q.list) = Result(q.asked)
    BY DEF ShorterUpdateIsSame
  <1> PICK q : q = call[t]
    OBVIOUS
  <1> PICK T : T = attrs[q.ns]
    OBVIOUS
  <1>1. /\ q.rev = rev /\ rev + 1 \in Nat /\ q.list \in Seq(Attr) /\ q.asked \in Seq(Attr)
        /\ q.ns \in Namespaces /\ T \in VTable /\ StateInv
    BY DEF FullInv, CacheInv, RemoteInv, TypeOK, StateTypeOK, StateInv, Calls, Catalog, Accepts
  <1>2. /\ NamesOnce(q.list) /\ NamesOnce(q.asked)
        /\ \A i \in 1..Len(q.list) : Contains(q.asked, q.list[i])
        /\ \A i \in 1..Len(q.asked) :
              \/ Contains(q.list, q.asked[i])
              \/ history[q.rev][q.ns][q.asked[i].key] = Content(q.asked[i])
    BY DEF FullInv, CacheInv, UpdatesSound, ShorterSound
  <1>3. \A k \in Keys : history[rev][q.ns][k] = Content(T[k])
    BY <1>1, AttrsDescribe DEF Describes
  <1>4. \A i \in 1..Len(q.asked) : q.asked[i].key \in Keys
    <2>1. \A i \in 1..Len(q.asked) : q.asked[i] \in Attr
      BY <1>1
    <2> QED
      BY <2>1 DEF Attr
  <1>5. \A i \in 1..Len(q.asked) :
           Contains(q.list, q.asked[i]) \/ Content(T[q.asked[i].key]) = Content(q.asked[i])
    BY <1>1, <1>2, <1>3, <1>4
  <1>6. /\ ViolatesFrozen(T, q.list) <=> ViolatesFrozen(T, q.asked)
        /\ \A k \in Keys : Content(Updated(T, q.list, rev + 1)[k])
                           = Content(Updated(T, q.asked, rev + 1)[k])
    <2> PICK short, long : short = q.list /\ long = q.asked
      OBVIOUS
    <2>1. /\ short \in Seq(Attr) /\ long \in Seq(Attr) /\ NamesOnce(short) /\ NamesOnce(long)
          /\ \A i \in 1..Len(short) : Contains(long, short[i])
          /\ \A i \in 1..Len(long) :
                Contains(short, long[i]) \/ Content(T[long[i].key]) = Content(long[i])
          /\ T \in VTable /\ rev + 1 \in Nat
      BY <1>1, <1>2, <1>5
    <2>2. /\ ViolatesFrozen(T, short) <=> ViolatesFrozen(T, long)
          /\ \A k \in Keys : Content(Updated(T, short, rev + 1)[k])
                             = Content(Updated(T, long, rev + 1)[k])
      BY ONLY <2>1, ShorterListSame
    <2> QED
      BY <2>2
  <1> QED
    BY <1>6

(* Leaving out of an update what the cache holds changes neither whether the owner
   accepts it nor what it makes of the table. *)
THEOREM ShorterUpdatesSame ==
    ASSUME DistinctKeys, NoClear
    PROVE  Spec => []ShorterUpdateIsSame
  BY InvShorterSame, FullInvariant, PTL

(* Readers see no difference between namespaces that are the same. *)
LEMMA SameContents ==
    ASSUME NEW c, NEW d, NEW n \in Namespaces, c[n] = d[n]
    PROVE  ContentsOf(c)[n] = ContentsOf(d)[n]
  BY DEF ContentsOf

(* The latest version is the table that the owner has. *)
LEMMA HistoryIsTable ==
    ASSUME StateInv
    PROVE  /\ history[rev] = ContentsOf(attrs)
           /\ \A ns \in Namespaces, k \in Keys : history[rev][ns][k] = Content(attrs[ns][k])
  <1>1. rev \in 0..rev /\ history[rev] \in AllContents
    BY DEF StateInv, StateTypeOK
  <1>2. \A ns \in Namespaces, k \in Keys : history[rev][ns][k] = Content(attrs[ns][k])
    BY AttrsDescribe DEF Describes
  <1> QED
    BY <1>1, <1>2 DEF ContentsOf, AllContents

(* What the version that an update adds has in the update's namespace is what the
   items make of the version before; the other namespaces are as they were. *)
LEMMA UpdateAddsItems ==
    ASSUME StateInv, NEW r, NEW ns \in Namespaces, NEW l \in Seq(Attr), TryUpdate(r, ns, l)
    PROVE  /\ r = rev /\ rev' = rev + 1 /\ history'[rev] = history[rev]
           /\ history'[rev'] \in AllContents
           /\ \A n \in Namespaces \ {ns} : history'[rev'][n] = history[rev][n]
           /\ \A k \in Keys :
                 history'[rev'][ns][k] = Content(Updated(attrs[ns], l, rev + 1)[k])
  <1>1. attrs \in Catalog /\ rev \in Nat /\ rev \in 0..rev
    BY DEF StateInv, StateTypeOK
  <1>2. /\ attrs' = [attrs EXCEPT ![ns] = Updated(attrs[ns], l, rev + 1)]
        /\ rev' = rev + 1 /\ r = rev
    BY DEF TryUpdate, CanUpdate, Accepts, Commit, WithNamespace
  <1>3. /\ history'[rev'] = ContentsOf(attrs') /\ history'[rev] = history[rev]
        /\ attrs' \in Catalog
    BY <1>1, <1>2, UpdateAppends DEF Appends
  <1>4. attrs'[ns] = Updated(attrs[ns], l, rev + 1)
    BY <1>1, <1>2 DEF Catalog
  <1>5. \A n \in Namespaces \ {ns} : attrs'[n] = attrs[n]
    BY <1>1, <1>2 DEF Catalog
  <1>6. ASSUME NEW n \in Namespaces \ {ns} PROVE history'[rev'][n] = history[rev][n]
    <2>1. attrs'[n] = attrs[n]
      BY <1>5
    <2>2. history'[rev'] = ContentsOf(attrs') /\ history[rev] = ContentsOf(attrs)
      BY <1>3, HistoryIsTable
    <2>3. ContentsOf(attrs')[n] = ContentsOf(attrs)[n]
      BY <2>1, SameContents
    <2> QED
      BY <2>2, <2>3, Zenon
  <1>7. \A k \in Keys : history'[rev'][ns][k] = Content(Updated(attrs[ns], l, rev + 1)[k])
    BY <1>3, <1>4 DEF ContentsOf
  <1>8. history'[rev'] \in AllContents
    BY <1>3, ContentsOfType
  <1> QED
    BY <1>2, <1>3, <1>6, <1>7, <1>8

(* Items make the same of a table as of what readers see of it. *)
LEMMA WrittenBySame ==
    ASSUME NEW h, NEW t, NEW l, NEW n, NEW k, h[k] = Content(t[k])
    PROVE  WrittenBy(h, l, n, k) = WrittenBy(t, l, n, k)
  <1>1. Content(h[k]) = Content(t[k])
    BY DEF Content
  <1> QED
    BY <1>1, Zenon DEF WrittenBy

(* The request of an update that the owner accepts has the effect that its caller
   asked for. *)
LEMMA ServeTakesEffect ==
    ASSUME FullInv, NEW t \in Threads, NEW q, q = call[t], q.phase = "sent", q.op = "update",
           TryUpdate(q.rev, q.ns, q.list)
    PROVE  /\ rev' = q.rev + 1
           /\ history'[rev'] = [history'[q.rev] EXCEPT ![q.ns] =
                 [k \in Keys |-> WrittenBy(history'[q.rev][q.ns], q.asked, Len(q.asked), k)]]
  <1>1. /\ StateInv /\ q \in Calls /\ rev \in Nat /\ attrs \in Catalog
        /\ history[rev] \in AllContents
    BY DEF FullInv, CacheInv, RemoteInv, TypeOK, StateInv, StateTypeOK
  <1>2. PICK ns \in Namespaces, list \in Seq(Attr), asked \in Seq(Attr) :
           ns = q.ns /\ list = q.list /\ asked = q.asked
    BY <1>1 DEF Calls
  <1>3. attrs[ns] \in VTable /\ rev + 1 \in Nat
    BY <1>1 DEF Catalog
  <1>4. /\ q.rev = rev /\ rev' = rev + 1 /\ history'[rev] = history[rev]
        /\ history'[rev'] \in AllContents
        /\ \A n \in Namespaces \ {ns} : history'[rev'][n] = history[rev][n]
        /\ \A k \in Keys :
              history'[rev'][ns][k] = Content(Updated(attrs[ns], list, rev + 1)[k])
    BY <1>1, <1>2, UpdateAddsItems
  <1>5. Accepts(q.rev) /\ ~ViolatesFrozen(attrs[ns], list)
    BY <1>2 DEF TryUpdate, CanUpdate
  <1>6. [k \in Keys |-> Content(Updated(attrs[ns], list, rev + 1)[k])]
           = [k \in Keys |-> Content(Updated(attrs[ns], asked, rev + 1)[k])]
    BY <1>2, <1>5, InvShorterSame DEF ShorterUpdateIsSame
  <1>7. ASSUME NEW k \in Keys
        PROVE  history'[rev'][ns][k] = WrittenBy(history[rev][ns], asked, Len(asked), k)
    <2>1. Content(Updated(attrs[ns], list, rev + 1)[k])
             = Content(Updated(attrs[ns], asked, rev + 1)[k])
      BY <1>6
    <2>2. Content(Updated(attrs[ns], asked, rev + 1)[k])
             = WrittenBy(attrs[ns], asked, Len(asked), k)
      BY <1>3, UpdatedContent
    <2>3. history[rev][ns][k] = Content(attrs[ns][k])
      BY <1>1, HistoryIsTable
    <2>4. WrittenBy(history[rev][ns], asked, Len(asked), k)
             = WrittenBy(attrs[ns], asked, Len(asked), k)
      BY <2>3, WrittenBySame
    <2> QED
      BY <1>4, <2>1, <2>2, <2>4
  <1> PICK H, H1 : H = history[rev] /\ H1 = history'[rev']
    OBVIOUS
  <1>8. H1 = [H EXCEPT ![ns] = [k \in Keys |-> WrittenBy(H[ns], asked, Len(asked), k)]]
    <2> DEFINE row == [k \in Keys |-> WrittenBy(H[ns], asked, Len(asked), k)]
    <2>1. H1 \in AllContents /\ H \in AllContents /\ \A n \in Namespaces \ {ns} : H1[n] = H[n]
      BY <1>1, <1>4
    <2>2. H1[ns] = row
      BY <1>7, <2>1 DEF AllContents
    <2> HIDE DEF row
    <2>3. H1 = [H EXCEPT ![ns] = row]
      BY <2>1, <2>2 DEF AllContents
    <2> QED
      BY <2>3 DEF row
  <1> QED
    BY <1>2, <1>4, <1>8

(* The effect of an update stays what it was, until its caller knows. *)
LEMMA CallStepTakesEffect ==
    ASSUME FullInv, UpdatesTakeEffect, Grows, CallStep
    PROVE  UpdatesTakeEffect'
  <1>1. RemoteInv
    BY DEF FullInv, CacheInv
  <1> SUFFICES ASSUME NEW t \in Threads, NEW a, a = call'[t],
                      a.op = "update", a.phase \in {"applied", "replied"}, a.error = "ok"
               PROVE  /\ a.newRev = a.rev + 1
                      /\ history'[a.newRev] = [history'[a.rev] EXCEPT ![a.ns] =
                            [k \in Keys |->
                               WrittenBy(history'[a.rev][a.ns], a.asked, Len(a.asked), k)]]
    BY DEF UpdatesTakeEffect
  <1> PICK q : q = call[t]
    OBVIOUS
  <1>2. (q.op = "update" /\ q.phase \in {"applied", "replied"} /\ q.error = "ok") =>
          /\ q.newRev = q.rev + 1
          /\ history[q.newRev] = [history[q.rev] EXCEPT ![q.ns] =
                [k \in Keys |-> WrittenBy(history[q.rev][q.ns], q.asked, Len(q.asked), k)]]
    BY DEF UpdatesTakeEffect
  <1>3. CASE a = q
    <2>1. q.rev \in 0..rev /\ q.newRev \in 0..rev /\ \A r \in 0..rev : history'[r] = history[r]
      BY <1>1 DEF RemoteInv, TypeOK, Calls, CallsExist, Grows
    <2>2. history'[q.rev] = history[q.rev] /\ history'[q.newRev] = history[q.newRev]
      BY <2>1
    <2> QED
      BY <1>2, <1>3, <2>2
  <1>4. CASE Asks(t) \/ a = NoCall
    BY <1>4, AsksFields, NoCallType
  <1>5. CASE Serve(t)
    <2>1. /\ Execute(q) /\ q.phase = "sent" /\ a.error = ServeError(q) /\ a.op = q.op
          /\ a.rev = q.rev /\ a.ns = q.ns /\ a.asked = q.asked
          /\ a.newRev = IF ServeError(q) = "ok" THEN rev' ELSE 0
      BY <1>1, <1>5, ServeAnswers
    <2>2. TryUpdate(q.rev, q.ns, q.list)
      BY <2>1 DEF Execute
    <2>3. /\ rev' = q.rev + 1
          /\ history'[rev'] = [history'[q.rev] EXCEPT ![q.ns] =
                [k \in Keys |-> WrittenBy(history'[q.rev][q.ns], q.asked, Len(q.asked), k)]]
      BY <2>1, <2>2, ServeTakesEffect
    <2> QED
      BY <2>1, <2>3
  <1>6. CASE ServeCreatedRevs(t)
    <2>1. /\ history' = history /\ a.op = q.op /\ a.rev = q.rev /\ a.ns = q.ns
          /\ a.asked = q.asked /\ a.error = q.error /\ a.newRev = q.newRev
          /\ q.phase = "applied"
      BY <1>1, <1>6, CreatedRevsAnswers
    <2> QED
      BY <1>2, <2>1
  <1> QED
    BY <1>3, <1>4, <1>5, <1>6 DEF CallStep

(* An update that the owner has accepted added one revision on top of the caller's,
   with all the items that the caller passed and nothing else. *)
THEOREM UpdatesDoTakeEffect ==
    ASSUME DistinctKeys, NoClear
    PROVE  Spec => []UpdatesTakeEffect
  <1>1. Init => UpdatesTakeEffect
    BY NoCallType DEF Init, UpdatesTakeEffect
  <1>2. FullInv /\ UpdatesTakeEffect /\ [Next]_vars => UpdatesTakeEffect'
    <2> SUFFICES ASSUME FullInv, UpdatesTakeEffect, [Next]_vars
                 PROVE  UpdatesTakeEffect'
      OBVIOUS
    <2>1. RemoteInv
      BY DEF FullInv, CacheInv
    <2>2. CASE Next
      BY <2>1, <2>2, NextSteps, CallStepTakesEffect
    <2>3. CASE UNCHANGED vars
      <3>1. /\ UNCHANGED <<rev, msgSeq, attrs, history, isDestroyed, stored, call>>
            /\ TypeOK /\ (~stored => isDestroyed)
        BY <2>1, <2>3 DEF vars, stateVars, RemoteInv, GoneMeansDestroyed
      <3>2. Grows
        BY <2>1, <3>1, GrowsFrom DEF TypeOK, StateTypeOK
      <3>3. CallStep
        BY <3>1 DEF CallStep, TypeOK
      <3> QED
        BY <3>2, <3>3, CallStepTakesEffect
    <2> QED
      BY <2>2, <2>3
  <1> QED
    BY <1>1, <1>2, FullInvariant, PTL DEF Spec

-----------------------------------------------------------------------------
(***************************************************************************)
(* The cache with every operation in use.  A clear leaves the creation     *)
(* revision of an entry alone, and that stays right: the attribute was     *)
(* blank before.                                                           *)
(***************************************************************************)
EntriesCreated ==
    \A ns \in Namespaces, k \in Keys : IsCached(cache[ns][k]) =>
        BlankUntil(history, rev, ns, k, cache[ns][k].createdAt)

(* Every entry keeps a creation revision before which the attribute was blank. *)
LEMMA NextCreated ==
    ASSUME CacheInv, EntriesCreated, Next
    PROVE  EntriesCreated'
  <1>1. RemoteInv
    BY DEF CacheInv
  <1>2. Grows
    BY <1>1, NextSteps
  <1>3. cache \in [Namespaces -> [Keys -> Entries]]
    BY <1>1 DEF RemoteInv, TypeOK
  <1> SUFFICES ASSUME NEW ns \in Namespaces, NEW k \in Keys, IsCached(cache'[ns][k])
               PROVE  BlankUntil(history', rev', ns, k, cache'[ns][k].createdAt)
    BY DEF EntriesCreated
  <1> PICK e : e = cache[ns][k]
    OBVIOUS
  <1>4. e \in Entries /\ e.createdAt \in Nat /\ e.fetchedAt \in Nat
    BY <1>3 DEF Entries
  <1>5. IsCached(e) => BlankUntil(history, rev, ns, k, e.createdAt)
    BY DEF EntriesCreated
  <1>6. CASE cache'[ns][k] = e
    BY <1>2, <1>4, <1>5, <1>6, BlankGrows
  <1>7. ASSUME NEW t \in Threads, FetchEnd(t) \/ UpdateEnd(t) \/ ClearEnd(t),
               StateSame, cache'[ns][k] # e
        PROVE  BlankUntil(history', rev', ns, k, cache'[ns][k].createdAt)
    <2> PICK q : q = call[t]
      OBVIOUS
    <2>1. q \in Calls /\ q.ns \in Namespaces /\ history' = history /\ rev' = rev
      BY <1>1, <1>7 DEF RemoteInv, TypeOK, Calls, StateSame
    <2>2. CASE FetchEnd(t)
      <3>1. /\ ns = q.ns /\ Exists(q.table[k])
            /\ cache'[ns][k] = Fetched(q, k)
        BY <1>3, <1>7, <2>2 DEF FetchEnd
      <3>2. FetchAnswered(q)
        BY <1>1, <2>2 DEF RemoteInv, AnswersSound, FetchEnd
      <3>3. q.error = "ok" /\ k \in q.keys
        BY <3>1, <3>2 DEF FetchAnswered, EmptyTable, Absent, Exists
      <3>4. BlankUntil(history, rev, ns, k, q.table[k].createdAt)
        BY <3>1, <3>2, <3>3 DEF FetchAnswered, Describes
      <3>5. Fetched(q, k).createdAt = q.table[k].createdAt
        BY DEF Fetched
      <3> QED
        BY <2>1, <3>1, <3>4, <3>5
    <2>3. CASE UpdateEnd(t)
      <3>1. q.error = "ok" /\ Answered(t, "update")
        BY <1>7, <2>3 DEF UpdateEnd
      <3>2. /\ ns = q.ns /\ Writes(q.list, Len(q.list), k) # {}
            /\ cache'[ns][k] = Sent(q, k)
        BY <1>3, <1>7, <2>3, <3>1 DEF UpdateEnd
      <3>3. Sent(q, k).createdAt = q.table[k].createdAt
        BY <2>1, <3>2, SentType
      <3>4. BlankUntil(history, rev, ns, k, q.table[k].createdAt)
        BY <1>1, <3>1, <3>2 DEF RemoteInv, AnswersSound, CreationAnswered
      <3> QED
        BY <2>1, <3>2, <3>3, <3>4
    <2>4. CASE ClearEnd(t)
      <3>1. q.error = "ok"
        BY <1>7, <2>4 DEF ClearEnd
      <3>2. /\ IsCached(e)
            /\ cache'[ns][k] = Emptied(e, q.newRev)
        <4>1. CacheType /\ call[t].ns \in Namespaces /\ call[t].error = "ok"
          BY <1>3, <2>1, <3>1 DEF CacheType
        <4>2. cache'[ns][k] # cache[ns][k]
          BY <1>7
        <4>3. /\ IsCached(cache[ns][k])
              /\ cache'[ns][k] = Emptied(cache[ns][k], call[t].newRev)
          BY <2>4, <4>1, <4>2, ClearedEntry, Zenon
        <4> QED
          BY <4>3
      <3>3. cache'[ns][k].createdAt = e.createdAt
        BY <1>4, <3>2 DEF Entries, Emptied
      <3> QED
        BY <1>5, <2>1, <3>2, <3>3
    <2> QED
      BY <1>7, <2>2, <2>3, <2>4
  <1> QED
    BY <1>1, <1>6, <1>7, CacheKept

(* What the cache answers at or after the revision that an entry was fetched at has
   the value that the attribute had, whatever operations are in use. *)
THEOREM LaterReadsCorrect ==
    ASSUME DistinctKeys
    PROVE  Spec => []LaterReadsAreCorrect
  <1>1. Init => EntriesCreated
    BY DEF Init, EntriesCreated, IsCached, NoEntry
  <1>2. CacheInv /\ EntriesCreated /\ [Next]_vars => EntriesCreated'
    <2> SUFFICES ASSUME CacheInv, EntriesCreated, UNCHANGED vars PROVE EntriesCreated'
      BY NextCreated
    <2>1. UNCHANGED <<rev, history, cache>>
      BY DEF vars, stateVars, peerVars
    <2> QED
      BY <2>1 DEF EntriesCreated
  <1>3. CacheInv /\ EntriesCreated => LaterReadsAreCorrect
    <2> SUFFICES ASSUME CacheInv, EntriesCreated,
                        NEW ns \in Namespaces, NEW k \in Keys, NEW r \in 1..rev,
                        IsSolved(cache[ns][k], r), cache[ns][k].fetchedAt <= r
                 PROVE  ValueAt(cache[ns][k], r).value = history[r][ns][k].value
      BY DEF LaterReadsAreCorrect
    <2> PICK e : e = cache[ns][k]
      OBVIOUS
    <2>1. RemoteInv /\ rev \in Nat /\ r \in 0..rev /\ e \in Entries /\ EntrySound(ns, k, e)
      BY DEF CacheInv, RemoteInv, TypeOK, StateTypeOK, EntriesSound
    <2>2. e.createdAt \in Nat /\ e.updatedAt \in Nat /\ e.fetchedAt \in Nat
      BY <2>1 DEF Entries
    <2>3. /\ IsCached(e) /\ e.value = history[e.fetchedAt][ns][k].value
          /\ e.frozen => history[e.fetchedAt][ns][k] = Content(e)
      BY <2>1 DEF EntrySound, IsSolved
    <2>4. CASE e.createdAt > r
      <3>1. BlankUntil(history, rev, ns, k, e.createdAt)
        BY <2>3 DEF EntriesCreated
      <3>2. history[r][ns][k] = Blank
        BY <2>1, <2>2, <2>4, <3>1 DEF BlankUntil
      <3> QED
        BY <2>4, <3>2 DEF ValueAt
    <2>5. CASE ~(e.createdAt > r) /\ r = e.fetchedAt
      BY <2>3, <2>5 DEF ValueAt, Content
    <2>6. CASE ~(e.createdAt > r) /\ r # e.fetchedAt
      <3>1. e.frozen
        BY <2>2, <2>6 DEF IsSolved
      <3>2. e.fetchedAt \in 0..rev /\ e.fetchedAt <= r
        BY <2>1, <2>2
      <3>3. Content(e).frozen
        BY <3>1 DEF Content
      <3>4. history[e.fetchedAt][ns][k].frozen => history[r][ns][k] = history[e.fetchedAt][ns][k]
        BY <2>1, <3>2 DEF RemoteInv, FrozenKept
      <3>5. history[r][ns][k] = Content(e)
        BY <2>3, <3>1, <3>3, <3>4
      <3> QED
        BY <2>6, <3>5 DEF ValueAt
    <2> QED
      BY <2>4, <2>5, <2>6
  <1> QED
    BY <1>1, <1>2, <1>3, CacheInvariant, PTL DEF Spec

-----------------------------------------------------------------------------
(***************************************************************************)
(* The refinement of VersionedSession.                                     *)
(***************************************************************************)
Bases == [t \in Threads |-> Base(t)]

(* The other threads keep the revisions that they hold. *)
OthersLookOn(t) == \A u \in Threads \ {t} : handle'[u] = handle[u]

(* A session that was just created is a list with one, empty, version. *)
LEMMA InitShared == Init => Versioned!Init
  <1> SUFFICES ASSUME Init PROVE Versioned!Init
    OBVIOUS
  <1>1. ContentsOf(EmptyCatalog) = [ns \in Namespaces |-> [k \in Keys |-> Blank]]
    BY DEF ContentsOf, EmptyCatalog, EmptyTable, Absent, Content, Blank
  <1>2. \A t \in Threads : Base(t) = 0
    BY NoCallType DEF Base, Idle, Init, NoHandle
  <1>3. Bases = [t \in Threads |-> 0]
    BY <1>2 DEF Bases
  <1>4. /\ rev = 0 /\ isDestroyed = FALSE
        /\ history = [r \in {0} |-> ContentsOf(EmptyCatalog)]
    BY DEF Init, StateInit
  <1>5. history = [r \in {0} |-> [ns \in Namespaces |-> [k \in Keys |-> Blank]]]
    BY <1>1, <1>4, Zenon
  <1> QED
    BY <1>3, <1>4, <1>5, Zenon DEF Versioned!Init, Bases

(* A commit of the owner adds a version. *)
LEMMA AppendsVersion ==
    ASSUME StateInv, Appends
    PROVE  Versioned!Append
  <1>1. rev \in Nat /\ isDestroyed = FALSE
    BY DEF StateInv, StateTypeOK, Appends
  <1>2. history'[rev'] = ContentsOf(attrs')
    BY DEF Appends
  <1>3. Versioned!Follows(history'[rev'])
    <2>1. PICK ns \in Namespaces :
             \A other \in Namespaces \ {ns} : attrs'[other] = attrs[other]
      BY DEF Appends
    <2>2. ASSUME NEW other \in Namespaces \ {ns}
          PROVE  history'[rev'][other] = history[rev][other]
      <3>1. ContentsOf(attrs')[other] = ContentsOf(attrs)[other]
        BY <2>1, SameContents
      <3>2. history[rev] = ContentsOf(attrs)
        BY HistoryIsTable
      <3> QED
        BY <1>2, <3>1, <3>2, Zenon
    <2>3. ASSUME NEW n \in Namespaces, NEW k \in Keys, history[rev][n][k].frozen
          PROVE  history'[rev'][n][k] = history[rev][n][k]
      <3>1. history[rev][n][k] = Content(attrs[n][k])
        BY HistoryIsTable
      <3>2. attrs[n][k].frozen
        BY <2>3, <3>1 DEF Content
      <3>3. Content(attrs'[n][k]) = Content(attrs[n][k])
        BY <3>2 DEF Appends
      <3>4. history'[rev'][n][k] = Content(attrs'[n][k])
        BY <1>2 DEF ContentsOf
      <3> QED
        BY <3>1, <3>3, <3>4
    <2> QED
      BY <2>2, <2>3 DEF Versioned!Follows
  <1>4. history' \in [0..rev' -> Versioned!Tables]
    BY DEF Appends, Versioned!Tables, AllContents
  <1> QED
    BY <1>1, <1>3, <1>4 DEF Versioned!Append, Appends

(* When threads other than t stay where they are, so does what they look at. *)
LEMMA OthersBases ==
    ASSUME NEW t \in Threads, SameCalls(t), OthersLookOn(t)
    PROVE  Bases' = [Bases EXCEPT ![t] = Base(t)']
  <1>1. \A u \in Threads \ {t} : Base(u)' = Base(u)
    BY DEF Base, Idle, SameCalls, OthersLookOn
  <1> QED
    BY <1>1 DEF Bases

(* A step in which at most one thread turns to another version that exists. *)
LEMMA LooksElsewhere ==
    ASSUME NEW t \in Threads, SameCalls(t), OthersLookOn(t), Base(t)' \in 0..rev,
           UNCHANGED <<rev, history, isDestroyed>>
    PROVE  Versioned!Look(t)
  <1>1. Bases' = [Bases EXCEPT ![t] = Base(t)']
    BY OthersBases
  <1> QED
    BY <1>1 DEF Versioned!Look, Bases

(* A thread that is idle, or becomes idle, looks at the version of its revision. *)
LEMMA IdleLooks ==
    ASSUME RemoteInv', NEW t \in Threads, SameCalls(t), OthersLookOn(t), Idle(t)',
           StateSame
    PROVE  Versioned!Look(t)
  <1>1. Base(t)' = handle'[t].rev
    BY DEF Base
  <1>2. /\ handle'[t].rev \in Nat /\ handle'[t].rev <= highestRev' /\ highestRev' <= rev'
        /\ highestRev' \in Nat /\ rev' = rev /\ rev \in Nat
    BY DEF RemoteInv, TypeOK, StateTypeOK, RevisionsExist, Handles, StateSame
  <1>3. Base(t)' \in 0..rev
    BY <1>1, <1>2
  <1> QED
    BY <1>3, LooksElsewhere DEF StateSame

(* What everyone else does: versions are added elsewhere, or the session ends. *)
LEMMA OwnerShared ==
    ASSUME RemoteInv,
           \/ \E ns \in Namespaces, l \in Lists \cup {<<>>} : OwnerUpdate(ns, l)
           \/ \E ns \in Namespaces : OwnerClear(ns)
           \/ OwnerDestroy \/ OwnerForget
    PROVE  [Versioned!Next]_(Versioned!vars)
  <1>1. StateInv
    BY DEF RemoteInv, StateInv, TypeOK
  <1>2. UNCHANGED <<handle, call>>
    BY OwnerGrows
  <1>3. Bases' = Bases
    BY <1>2 DEF Bases, Base, Idle
  <1>4. ASSUME Appends PROVE Versioned!ReplaceElsewhere
    BY <1>1, <1>3, <1>4, AppendsVersion DEF Versioned!ReplaceElsewhere, Bases
  <1>5. ASSUME NEW ns \in Namespaces, NEW l \in Lists \cup {<<>>}, OwnerUpdate(ns, l)
        PROVE  Appends
    <2>1. l \in Seq(Attr)
      <3>1. CASE l \in Lists
        BY <3>1, ListsAssumption
      <3>2. CASE l = <<>>
        BY <3>2
      <3> QED
        BY <3>1, <3>2
    <2> QED
      BY <1>1, <1>5, <2>1, UpdateAppends DEF OwnerUpdate
  <1>6. ASSUME NEW ns \in Namespaces, OwnerClear(ns) PROVE Appends
    BY <1>1, <1>6, ClearAppends DEF OwnerClear
  <1>7. ASSUME OwnerDestroy PROVE Versioned!Destroy
    BY <1>3, <1>7 DEF OwnerDestroy, DestroyState, Versioned!Destroy, Bases
  <1>8. ASSUME OwnerForget PROVE UNCHANGED Versioned!vars
    BY <1>3, <1>8 DEF OwnerForget, stateVars, Versioned!vars, Bases
  <1> QED
    BY <1>4, <1>5, <1>6, <1>7, <1>8 DEF Versioned!Next

(* The owner executes a thread's request: it replaces the version that the thread
   was looking at, ends the session, or tells the thread the latest version. *)
LEMMA ServeShared ==
    ASSUME RemoteInv, NEW t \in Threads, Serve(t)
    PROVE  [Versioned!Next]_(Versioned!vars)
  <1> PICK q : q = call[t]
    OBVIOUS
  <1>1. /\ StateInv /\ rev \in Nat /\ rev \in 0..rev
        /\ q \in Calls /\ q.rev \in 0..rev
        /\ q.ns \in Namespaces /\ q.list \in Seq(Attr)
    BY DEF RemoteInv, StateInv, TypeOK, StateTypeOK, Calls, CallsExist
  <1>2. /\ Execute(q) /\ q.phase = "sent" /\ SameCalls(t) /\ UNCHANGED handle
        /\ call'[t].phase \in {"applied", "replied"}
        /\ call'[t].error = ServeError(q) /\ call'[t].rev = q.rev
        /\ call'[t].newRev = IF ServeError(q) = "ok" THEN rev' ELSE 0
    BY ServeAnswers
  <1>3. OthersLookOn(t)
    BY <1>2 DEF OthersLookOn
  <1>4. Base(t) = q.rev
    BY <1>2 DEF Base, Idle
  <1>5. Base(t)' = IF ServeError(q) = "ok" THEN rev' ELSE q.rev
    BY <1>2 DEF Base, Idle
  <1>6. Bases' = [Bases EXCEPT ![t] = Base(t)']
    BY <1>2, <1>3, OthersBases
  <1>7. ASSUME Appends, q.rev = rev, ServeError(q) = "ok" PROVE Versioned!Replace(t)
    <2>1. Versioned!Append
      BY <1>1, <1>7, AppendsVersion
    <2>2. Bases[t] = rev /\ Bases' = [Bases EXCEPT ![t] = rev']
      BY <1>4, <1>5, <1>6, <1>7 DEF Bases
    <2> QED
      BY <2>1, <2>2 DEF Versioned!Replace, Bases
  <1>8. ASSUME UNCHANGED stateVars PROVE Versioned!Look(t)
    <2>1. UNCHANGED <<rev, history, isDestroyed>>
      BY <1>8 DEF stateVars
    <2>2. Base(t)' \in 0..rev
      BY <1>1, <1>5, <2>1
    <2> QED
      BY <1>2, <1>3, <2>1, <2>2, LooksElsewhere
  <1>9. CASE ServeError(q) = "ok" /\ q.op = "update" /\ TryUpdate(q.rev, q.ns, q.list)
    <2>1. Appends
      BY <1>1, <1>9, UpdateAppends
    <2>2. q.rev = rev
      BY <1>9 DEF TryUpdate, CanUpdate, Accepts
    <2> QED
      BY <1>7, <1>9, <2>1, <2>2 DEF Versioned!Next
  <1>10. CASE ServeError(q) = "ok" /\ q.op = "clear" /\ TryClear(q.rev, q.ns)
    <2>1. Appends
      BY <1>1, <1>10, ClearAppends
    <2>2. q.rev = rev
      BY <1>10 DEF TryClear, CanClear, Accepts
    <2> QED
      BY <1>7, <1>10, <2>1, <2>2 DEF Versioned!Next
  <1>11. CASE ServeError(q) = "ok" /\ q.op = "destroy" /\ DestroyState
    <2>1. q.rev = rev /\ rev' = rev /\ history' = history /\ isDestroyed' = TRUE
      BY <1>11 DEF ServeError, DestroyError, DestroyState
    <2>2. Base(t)' = Base(t)
      BY <1>4, <1>5, <2>1
    <2>3. Bases' = Bases
      BY <1>6, <2>2 DEF Bases
    <2> QED
      BY <2>1, <2>3 DEF Versioned!Next, Versioned!Destroy, Bases
  <1>12. CASE UNCHANGED stateVars
    BY <1>8, <1>12 DEF Versioned!Next
  <1> QED
    BY <1>2, <1>9, <1>10, <1>11, <1>12 DEF Execute

(* The second critical section of the server adds no version. *)
LEMMA CreatedRevsShared ==
    ASSUME RemoteInv, NEW t \in Threads, ServeCreatedRevs(t)
    PROVE  [Versioned!Next]_(Versioned!vars)
  <1>1. /\ UNCHANGED <<rev, history, isDestroyed, handle>> /\ SameCalls(t)
        /\ call[t].phase = "applied" /\ call'[t].phase = "replied"
        /\ call'[t].error = call[t].error /\ call'[t].newRev = call[t].newRev
        /\ call'[t].rev = call[t].rev
    BY CreatedRevsAnswers
  <1>2. OthersLookOn(t)
    BY <1>1 DEF OthersLookOn
  <1>3. Base(t)' = Base(t)
    BY <1>1 DEF Base, Idle
  <1>4. Bases' = Bases
    BY <1>1, <1>2, <1>3, OthersBases DEF Bases
  <1> QED
    BY <1>1, <1>4 DEF Versioned!vars, Bases

(* A thread that sends a request goes on looking at the version of its revision. *)
LEMMA AsksShared ==
    ASSUME NEW t \in Threads, Asks(t), SameCalls(t), StateSame, PeerSame, Idle(t)
    PROVE  [Versioned!Next]_(Versioned!vars)
  <1>1. OthersLookOn(t)
    BY DEF OthersLookOn, PeerSame
  <1>2. call'[t].phase = "sent" /\ call'[t].rev = handle[t].rev
    BY AsksFields
  <1>3. Base(t) = handle[t].rev /\ Base(t)' = handle[t].rev
    BY <1>2 DEF Base, Idle
  <1>4. Bases' = Bases
    BY <1>1, <1>3, OthersBases DEF Bases
  <1> QED
    BY <1>4 DEF StateSame, Versioned!vars, Bases

(* Every step adds a version on top of the one its thread was looking at, or
   elsewhere, lets a thread look at a version, ends the list, or does none of these. *)
LEMMA NextShared ==
    RemoteInv /\ RemoteInv' /\ [Next]_vars => [Versioned!Next]_(Versioned!vars)
  <1> SUFFICES ASSUME RemoteInv, RemoteInv', [Next]_vars
               PROVE  [Versioned!Next]_(Versioned!vars)
    OBVIOUS
  <1>1. TypeOK /\ call \in [Threads -> Calls] /\ handle \in [Threads -> Handles]
    BY DEF RemoteInv, TypeOK
  <1>2. CASE \/ \E ns \in Namespaces, l \in Lists \cup {<<>>} : OwnerUpdate(ns, l)
             \/ \E ns \in Namespaces : OwnerClear(ns)
             \/ OwnerDestroy \/ OwnerForget
    BY <1>2, OwnerShared
  <1>3. ASSUME NEW t \in Threads, Serve(t) \/ ServeCreatedRevs(t)
        PROVE  [Versioned!Next]_(Versioned!vars)
    BY <1>3, ServeShared, CreatedRevsShared
  <1>4. ASSUME NEW t \in Threads,
               \/ HeadBegin(t) /\ ~isClosed
               \/ DestroyBegin(t)
               \/ \E ns \in Namespaces, ks \in SUBSET Keys : FetchBegin(t, ns, ks)
               \/ \E ns \in Namespaces, l \in Lists : UpdateBegin(t, ns, l)
               \/ \E ns \in Namespaces : ClearBegin(t, ns)
        PROVE  [Versioned!Next]_(Versioned!vars)
    <2>1. Asks(t) /\ SameCalls(t) /\ StateSame /\ PeerSame
      BY <1>4, BeginAsks
    <2>2. Idle(t)
      BY <1>4 DEF HeadBegin, DestroyBegin, FetchBegin, UpdateBegin, ClearBegin, CanModify, CanUse
    <2> QED
      BY <2>1, <2>2, AsksShared
  <1>5. ASSUME NEW t \in Threads, NEW h, Holds(t, h) \/ UNCHANGED handle
        PROVE  OthersLookOn(t)
    BY <1>1, <1>5 DEF Holds, OthersLookOn
  <1>6. ASSUME NEW t \in Threads, NEW r \in 0..MaxRev, At(t, r) PROVE Versioned!Look(t)
    <2>1. StateSame /\ SameCalls(t) /\ Idle(t)'
      BY <1>6 DEF At, StateSame, stateVars, SameCalls, Idle
    <2>2. OthersLookOn(t)
      BY <1>5, <1>6 DEF At
    <2> QED
      BY <2>1, <2>2, IdleLooks
  <1>7. ASSUME NEW t \in Threads, HeadBegin(t), isClosed PROVE Versioned!Look(t)
    <2>1. StateSame /\ SameCalls(t) /\ Idle(t)'
      BY <1>7 DEF HeadBegin, CanUse, StateSame, stateVars, SameCalls, Idle
    <2>2. OthersLookOn(t)
      BY <1>5, <1>7 DEF HeadBegin
    <2> QED
      BY <2>1, <2>2, IdleLooks
  <1>8. ASSUME NEW t \in Threads, End(t) \/ TimeOut(t) PROVE Versioned!Look(t)
    <2>1. StateSame /\ Returns(t)
      BY <1>8, EndPeerStep DEF TimeOut, StateSame, stateVars
    <2>2. SameCalls(t) /\ Idle(t)'
      BY <1>1, <2>1, NoCallType DEF Returns, SameCalls, Idle
    <2>3. OthersLookOn(t)
      BY <1>5, <1>8 DEF End, HeadEnd, FetchEnd, UpdateEnd, ClearEnd, DestroyEnd, TimeOut
    <2> QED
      BY <2>1, <2>2, <2>3, IdleLooks
  <1>9. CASE UNCHANGED vars
    <2>1. UNCHANGED <<rev, history, isDestroyed, handle, call>>
      BY <1>9 DEF vars, stateVars
    <2>2. Bases' = Bases
      BY <2>1 DEF Bases, Base, Idle
    <2> QED
      BY <2>1, <2>2 DEF Versioned!vars, Bases
  <1>10. ASSUME NEW t \in Threads, Versioned!Look(t) PROVE Versioned!Next
    BY <1>10 DEF Versioned!Next
  <1> QED
    BY <1>2, <1>3, <1>4, <1>6, <1>7, <1>8, <1>9, <1>10 DEF Next, OwnerStep, Begin

(* A session is, for the threads of another peer that share it with each other and
   with everyone else, a list of versions that each adds on top of the one it was
   looking at: answers that arrive late or never lose no version. *)
THEOREM SharedImplements == Spec => SharedIsVersioned
  BY InitShared, NextShared, RemoteInvariant, PTL
  DEF Spec, SharedIsVersioned, Versioned!Spec
=============================================================================
