------------------------- MODULE LocalSessionProofs -------------------------
(***************************************************************************)
(* The safety properties of LocalSession, for any clients, namespaces,     *)
(* keys, values and update lists, and any bounds.                          *)
(***************************************************************************)
EXTENDS LocalSession, SessionStateProofs

(* A client's revision exists, and the catalog it carries is sound there. *)
HandlesSound ==
    \A c \in Clients :
        /\ handle[c].rev <= rev
        /\ IsOpen(c) =>
              \A ns \in Namespaces, k \in Keys :
                  SoundAt(handle[c].attrs[ns][k], ns, k, handle[c].rev)

TableInv == TypeOK /\ AttrsSound /\ FrozenKept /\ HandlesSound

(* Every step either commits or leaves the table alone ... *)
SameTable ==
    UNCHANGED <<rev, attrs, history>> /\ msgSeq' \in Nat /\ isDestroyed' \in BOOLEAN

(* ... and a client's revision is the one it had, a closed one, or one that
   exists after the step and carries the catalog of that moment. *)
HandleStep ==
    /\ handle' \in [Clients -> Handles]
    /\ \A c \in Clients :
          \/ handle'[c] = handle[c]
          \/ handle'[c] = Closed
          \/ \E r \in 0..rev' : handle'[c] = Open(r, attrs')

(* The variables that are neither the owner's state nor the handles. *)
SessTypeOK ==
    /\ outcome \in [Clients -> Outcomes]
    /\ calls \subseteq Clients
    /\ readers \subseteq Clients
    /\ destroying \subseteq Clients
    /\ asyncHandler \in BOOLEAN
    /\ listening \subseteq Namespaces
    /\ abandoned \subseteq Requests
    /\ listenerStopped \in BOOLEAN
    /\ ignored \in BOOLEAN
    /\ waiting \in BOOLEAN
    /\ done \in BOOLEAN
    /\ stored \in BOOLEAN
    /\ issued \in Seq(Nat \X Nat)

TableStep ==
    /\ Appends \/ SameTable
    /\ HandleStep
    /\ SessTypeOK'
    /\ listenerStopped => listenerStopped'

(* The revisions that CurrentRevision, GetRevision, Update and Clear return,
   and revisions.Closed(), are all of the type of a handle. *)
LEMMA OpenType ==
    /\ \A r \in Nat, a \in Catalog : Open(r, a) \in Handles
    /\ Closed \in Handles /\ NoHandle \in Handles
  <1>1. EmptyCatalog \in Catalog
    BY ContentType DEF EmptyCatalog, EmptyTable, Catalog, VTable
  <1> QED
    BY <1>1 DEF Open, Closed, NoHandle, Handles

(* What appending to a sequence does to its length and elements; the IDs that
   nextMessageID issues are recorded that way. *)
LEMMA AppendType ==
    ASSUME NEW S, NEW s \in Seq(S), NEW e \in S
    PROVE  /\ Append(s, e) \in Seq(S)
           /\ Len(Append(s, e)) = Len(s) + 1
           /\ \A i \in 1..Len(s) : Append(s, e)[i] = s[i]
           /\ Append(s, e)[Len(s) + 1] = e
  OBVIOUS

(* TryUpdate, TryClear and TryDestroy return one of the four results. *)
LEMMA ErrorType ==
    /\ \A r, ns, l : UpdateError(r, ns, l) \in Outcomes
    /\ \A r, ns : ClearError(r, ns) \in Outcomes
    /\ \A r : DestroyError(r) \in Outcomes
  BY DEF UpdateError, ClearError, DestroyError, TryError, Outcomes

(* What a session asks of the listener is a request, and whatever Do() made of
   it, the listener's handlers are for namespaces. *)
LEMMA AskType ==
    /\ \A ns \in Namespaces :
          /\ [kind |-> "listen", namespaces |-> {ns}] \in Requests
          /\ [kind |-> "unlisten", namespaces |-> {ns}] \in Requests
    /\ [kind |-> "unlisten", namespaces |-> Namespaces] \in Requests
    /\ \A r \in Requests : listening \subseteq Namespaces => HandlersAfter(r) \subseteq Namespaces
    /\ \A r \in Requests, stopped \in BOOLEAN :
          SessTypeOK /\ AskListener(r, stopped) =>
              /\ listening' \subseteq Namespaces
              /\ abandoned' \subseteq Requests
              /\ listenerStopped' = listenerStopped
  <1>1. \A r \in Requests : listening \subseteq Namespaces => HandlersAfter(r) \subseteq Namespaces
    BY DEF Requests, HandlersAfter
  <1>2. ASSUME NEW r \in Requests, NEW stopped \in BOOLEAN, SessTypeOK, AskListener(r, stopped)
        PROVE  /\ listening' \subseteq Namespaces
               /\ abandoned' \subseteq Requests
               /\ listenerStopped' = listenerStopped
    BY <1>1, <1>2 DEF AskListener, SessTypeOK
  <1> QED
    BY <1>1, <1>2 DEF Requests

(* Each operation of the session either commits through SessionState or leaves
   the table alone, and hands out only revisions that exist. *)
LEMMA NextTableStep ==
    ASSUME TableInv, Next
    PROVE  TableStep
  <1> USE DEF TableStep, SameTable, HandleStep, TypeOK, StateTypeOK, SessTypeOK, Holds,
              Returns, stateVars, sessVars, listenerVars, endVars
  <1>1. StateInv /\ TypeOK
    BY DEF TableInv, StateInv
  <1>2. rev \in 0..rev /\ 0..rev \subseteq Nat
    BY <1>1
  <1>3. "ok" \in Outcomes /\ "notFound" \in Outcomes /\ "stopped" \in Outcomes
    BY DEF Outcomes
  <1>4. ASSUME NEW c \in Clients, CurrentRevision(c) PROVE TableStep
    BY <1>1, <1>2, <1>3, <1>4, OpenType DEF CurrentRevision
  <1>5. ASSUME NEW c \in Clients, Refresh(c) PROVE TableStep
    BY <1>1, <1>3, <1>4, <1>5 DEF Refresh
  <1>6. ASSUME NEW c \in Clients, NEW r \in 0..MaxRev, GetRevision(c, r) PROVE TableStep
    <2>1. r \in 0..rev
      BY <1>1, <1>6, MaxRevAssumption DEF GetRevision
    <2> QED
      BY <1>1, <1>3, <1>6, <2>1, OpenType DEF GetRevision
  <1>7. ASSUME NEW c \in Clients, NEW ns \in Namespaces, NEW l \in Lists, Update(c, ns, l)
        PROVE  TableStep
    <2>1. SessTypeOK' /\ UNCHANGED listenerStopped
      BY <1>1, <1>7, ErrorType DEF Update
    <2>2. CASE TryUpdate(handle[c].rev, ns, l) /\ Holds(c, Open(rev', attrs'))
      <3>1. Appends
        BY <1>1, <2>2, ListsAssumption, UpdateAppends
      <3>2. rev' \in 0..rev' /\ rev' \in Nat /\ attrs' \in Catalog
        BY <1>1, <3>1 DEF Appends
      <3> QED
        BY <1>1, <2>1, <2>2, <3>1, <3>2, OpenType
    <2>3. CASE UNCHANGED <<stateVars, handle>>
      BY <1>1, <2>1, <2>3
    <2> QED
      BY <1>7, <2>2, <2>3 DEF Update
  <1>8. ASSUME NEW c \in Clients, NEW ns \in Namespaces, Clear(c, ns) PROVE TableStep
    <2>1. SessTypeOK' /\ UNCHANGED listenerStopped
      BY <1>1, <1>8, ErrorType DEF Clear
    <2>2. CASE TryClear(handle[c].rev, ns) /\ Holds(c, Open(rev', attrs'))
      <3>1. Appends
        BY <1>1, <2>2, ClearAppends
      <3>2. rev' \in 0..rev' /\ rev' \in Nat /\ attrs' \in Catalog
        BY <1>1, <3>1 DEF Appends
      <3> QED
        BY <1>1, <2>1, <2>2, <3>1, <3>2, OpenType
    <2>3. CASE UNCHANGED <<stateVars, handle>>
      BY <1>1, <2>1, <2>3
    <2> QED
      BY <1>8, <2>2, <2>3 DEF Clear
  <1>9. ASSUME NEW c \in Clients, RevisionDestroy(c) PROVE TableStep
    <2>1. CASE DestroyBegin(c) /\ handle' = handle
      BY <1>1, <2>1 DEF DestroyBegin
    <2>2. CASE Returns(c, DestroyError(handle[c].rev)) /\ UNCHANGED <<stateVars, sessVars, handle>>
      BY <1>1, <2>2, ErrorType
    <2> QED
      BY <1>9, <2>1, <2>2 DEF RevisionDestroy
  <1>10. ASSUME NEW c \in Clients, UseClosed(c) \/ UseDestroyed(c) PROVE TableStep
    BY <1>1, <1>3, <1>10 DEF UseClosed, UseDestroyed
  <1>11. ASSUME NEW c \in Clients, SessionDestroy(c) PROVE TableStep
    <2>1. CASE DestroyBegin(c) /\ handle' = handle
      BY <1>1, <2>1 DEF DestroyBegin
    <2>2. CASE Returns(c, "ok") /\ UNCHANGED <<stateVars, sessVars, handle>>
      BY <1>1, <1>3, <2>2
    <2> QED
      BY <1>11, <2>1, <2>2 DEF SessionDestroy
  <1>12. ASSUME NEW c \in Clients, CallBegin(c) \/ Send(c) PROVE TableStep
    <2>1. msgSeq' \in Nat /\ <<rev, msgSeq'>> \in Nat \X Nat
      BY <1>1, <1>12 DEF CallBegin, Send, IssueID
    <2>2. issued' = Append(issued, <<rev, msgSeq'>>) /\ issued \in Seq(Nat \X Nat)
      BY <1>1, <1>12 DEF CallBegin, Send, IssueID
    <2>3. issued' \in Seq(Nat \X Nat)
      BY ONLY <2>1, <2>2, AppendType
    <2> QED
      BY <1>1, <1>3, <1>12, <2>1, <2>3 DEF CallBegin, Send, IssueID
  <1>13. ASSUME NEW c \in Clients, CallEnd(c) \/ RegisterBegin(c) PROVE TableStep
    BY <1>1, <1>13 DEF CallEnd, RegisterBegin
  <1>14. ASSUME NEW c \in Clients, SetAsyncHandler(c) PROVE TableStep
    BY <1>1, <1>3, <1>14 DEF SetAsyncHandler, RegisterEnd
  <1>15. ASSUME NEW c \in Clients, NEW ns \in Namespaces, Listen(c, ns) \/ Unlisten(c, ns)
         PROVE  TableStep
    <2>1. PICK q \in Requests : Register(c, q)
      BY <1>15, AskType DEF Listen, Unlisten
    <2>2. PICK stopped \in BOOLEAN :
             /\ AskListener(q, stopped)
             /\ outcome' = [outcome EXCEPT ![c] = IF stopped THEN "stopped" ELSE "ok"]
      BY <2>1 DEF Register
    <2>3. /\ listening' \subseteq Namespaces
          /\ abandoned' \subseteq Requests
          /\ listenerStopped' = listenerStopped
      BY <1>1, <2>2, AskType
    <2> QED
      BY <1>1, <1>3, <2>1, <2>2, <2>3 DEF Register, RegisterEnd
  <1>16. ASSUME NEW c \in Clients, DestroyEnd(c) PROVE TableStep
    <2>1. PICK stopped \in BOOLEAN :
             /\ AskListener([kind |-> "unlisten", namespaces |-> Namespaces], stopped)
             /\ ignored' = stopped
             /\ waiting' = TRUE
      BY <1>16 DEF DestroyEnd, StartWaiting
    <2>2. /\ listening' \subseteq Namespaces
          /\ abandoned' \subseteq Requests
          /\ listenerStopped' = listenerStopped
      BY <1>1, <2>1, AskType
    <2> QED
      BY <1>1, <1>3, <1>16, <2>1, <2>2 DEF DestroyEnd
  <1>17. CASE CloseDone \/ RemoveFromStore
    BY <1>1, <1>17 DEF CloseDone, RemoveFromStore
  <1>18. CASE ListenerStops
    BY <1>1, <1>18 DEF ListenerStops
  <1>19. CASE ExecuteAbandoned
    <2>1. listening' \subseteq Namespaces
      BY <1>1, <1>19, AskType DEF ExecuteAbandoned
    <2> QED
      BY <1>1, <1>19, <2>1 DEF ExecuteAbandoned
  <1> QED
    BY <1>4, <1>5, <1>6, <1>7, <1>8, <1>9, <1>10, <1>11, <1>12, <1>13, <1>14, <1>15, <1>16,
       <1>17, <1>18, <1>19
    DEF Next, ClientStep

-----------------------------------------------------------------------------
(* A session that was just created satisfies the invariant of the table. *)
LEMMA InitTableInv == Init => TableInv
  <1> SUFFICES ASSUME Init PROVE TableInv
    OBVIOUS
  <1>1. StateInv
    BY StateInitInv DEF Init
  <1>2. handle \in [Clients -> Handles]
    BY OpenType DEF Init
  <1>3. outcome \in [Clients -> Outcomes]
    BY DEF Init, Outcomes
  <1>4. issued \in Seq(Nat \X Nat)
    BY DEF Init
  <1>5. TypeOK
    BY <1>1, <1>2, <1>3, <1>4 DEF Init, TypeOK, StateInv
  <1>6. HandlesSound
    BY <1>5 DEF HandlesSound, Init, StateInit, IsOpen, NoHandle
  <1> QED
    BY <1>1, <1>5, <1>6 DEF TableInv, StateInv

(* The revisions that clients hold stay sound: an old one because history is
   not rewritten, a new one because the catalog it carries is sound. *)
LEMMA StepHandlesSound ==
    ASSUME TableInv, TableStep, StateInv'
    PROVE  HandlesSound'
  <1>1. /\ rev \in Nat /\ rev' \in Nat /\ rev <= rev'
        /\ \A r \in 0..rev : history'[r] = history[r]
    BY DEF TableStep, SameTable, Appends, TableInv, TypeOK, StateTypeOK
  <1> SUFFICES ASSUME NEW c \in Clients
               PROVE  /\ handle'[c].rev <= rev'
                      /\ handle'[c].kind = "open" =>
                            \A ns \in Namespaces, k \in Keys :
                                SoundAt(handle[c].attrs[ns][k], ns, k, handle[c].rev)'
    BY DEF HandlesSound, IsOpen
  <1>2. CASE handle'[c] = handle[c]
    <2>1. handle[c].rev \in 0..rev
      BY <1>1 DEF TableInv, TypeOK, Handles, HandlesSound
    <2> QED
      BY <1>1, <1>2, <2>1 DEF TableInv, HandlesSound, SoundAt, IsOpen
  <1>3. CASE handle'[c] = Closed
    BY <1>1, <1>3 DEF Closed
  <1>4. ASSUME NEW r \in 0..rev', handle'[c] = Open(r, attrs')
        PROVE  /\ handle'[c].rev <= rev'
               /\ \A ns \in Namespaces, k \in Keys :
                     SoundAt(handle[c].attrs[ns][k], ns, k, handle[c].rev)'
    BY <1>1, <1>4 DEF StateInv, AttrsSound, SoundAt, Open
  <1> QED
    BY <1>2, <1>3, <1>4 DEF TableStep, HandleStep

(* Every operation, of any client, preserves the invariant of the table. *)
LEMMA NextTableInv == TableInv /\ [Next]_vars => TableInv'
  <1> SUFFICES ASSUME TableInv, [Next]_vars PROVE TableInv'
    OBVIOUS
  <1>1. CASE Next
    <2>1. TableStep
      BY <1>1, NextTableStep
    <2>2. StateInv
      BY DEF TableInv, StateInv, TypeOK
    <2>3. StateInv'
      BY <2>1, <2>2, AppendsKeepsInv, UnchangedKeepsInv DEF TableStep, SameTable
    <2>4. HandlesSound'
      BY <2>1, <2>3, StepHandlesSound
    <2> QED
      BY <2>1, <2>3, <2>4 DEF TableInv, TypeOK, StateInv, TableStep, HandleStep, SessTypeOK
  <1>2. CASE UNCHANGED vars
    <2>1. TypeOK'
      BY <1>2 DEF TableInv, TypeOK, StateTypeOK, vars, stateVars, sessVars, listenerVars, endVars
    <2>2. /\ rev' = rev /\ attrs' = attrs /\ history' = history /\ handle' = handle
          /\ AttrsSound /\ FrozenKept /\ HandlesSound
      BY <1>2 DEF TableInv, vars, stateVars
    <2>3. AttrsSound'
      BY <2>2 DEF AttrsSound, SoundAt
    <2>4. FrozenKept'
      BY <2>2 DEF FrozenKept
    <2>5. HandlesSound'
      BY <2>2 DEF HandlesSound, IsOpen, SoundAt
    <2> QED
      BY <2>1, <2>3, <2>4, <2>5 DEF TableInv
  <1> QED
    BY <1>1, <1>2

(* The invariant of the table holds throughout the life of a session. *)
LEMMA TableInvariant == Spec => []TableInv
  BY InitTableInv, NextTableInv, PTL DEF Spec

(* Every variable of a session keeps its type. *)
THEOREM TypeCorrect == Spec => []TypeOK
  <1>1. TableInv => TypeOK
    BY DEF TableInv
  <1> QED
    BY <1>1, TableInvariant, PTL

(* Get is correct as of the revision it is asked of, or fails as stale. *)
THEOREM ReadsCorrect == Spec => []ReadsAreCorrect
  <1>1. TableInv => ReadsAreCorrect
    <2> SUFFICES ASSUME TableInv,
                        NEW c \in Clients, NEW ns \in Namespaces, NEW k \in Keys,
                        IsOpen(c), ~GetIsStale(handle[c], ns, k)
                 PROVE  Get(handle[c], ns, k) = history[handle[c].rev][ns][k]
      BY DEF ReadsAreCorrect
    <2> DEFINE h == handle[c]
               e == h.attrs[ns][k]
    <2>1. h.rev \in Nat /\ e \in VAttr /\ SoundAt(e, ns, k, h.rev)
      BY DEF TableInv, TypeOK, Handles, Catalog, VTable, HandlesSound
    <2>2. e.createdAt \in Nat /\ e.updatedAt \in Nat
      BY <2>1 DEF VAttr
    <2>3. CASE h.rev = 0
      <3>1. history[0][ns][k] = Blank
        <4>1. /\ attrs[ns][k].createdAt \in Nat
              /\ SoundAt(attrs[ns][k], ns, k, 0)
              /\ ~Exists(attrs[ns][k]) => attrs[ns][k] = Absent
          BY DEF TableInv, TypeOK, StateTypeOK, AttrsSound, Catalog, VTable, VAttr
        <4>2. CASE Exists(attrs[ns][k])
          BY <4>1, <4>2 DEF Exists, SoundAt
        <4>3. CASE ~Exists(attrs[ns][k])
          <5>1. attrs[ns][k] = Absent /\ Absent.createdAt = 0 /\ Absent.updatedAt = 0
            BY <4>1, <4>3 DEF Absent
          <5>2. history[0][ns][k] = Content(Absent)
            BY <4>1, <5>1 DEF SoundAt
          <5> QED
            BY <5>2 DEF Content, Absent, Blank
        <4> QED
          BY <4>2, <4>3
      <3> QED
        BY <2>3, <3>1 DEF Get
    <2>4. CASE h.rev # 0
      BY <2>1, <2>2, <2>4 DEF Get, GetIsStale, IsStale, ValueAt, SoundAt
    <2> QED
      BY <2>3, <2>4
  <1> QED
    BY <1>1, TableInvariant, PTL

(* No operation changes an attribute that is frozen. *)
THEOREM FrozenStaysFrozen == Spec => []FrozenForever
  <1>1. TableInv => FrozenForever
    BY DEF TableInv, FrozenKept, FrozenForever
  <1> QED
    BY <1>1, TableInvariant, PTL

-----------------------------------------------------------------------------
(***************************************************************************)
(* Message IDs.                                                            *)
(***************************************************************************)

(* Every ID issued so far comes before the next one. *)
IDInv ==
    /\ IssuedInOrder
    /\ \A i \in 1..Len(issued) :
          issued[i][1] < rev \/ (issued[i][1] = rev /\ issued[i][2] <= msgSeq)

(* A step issues no ID, or the next one of this revision. *)
IDStep ==
    \/ UNCHANGED <<rev, msgSeq, issued>>
    \/ rev' = rev + 1 /\ UNCHANGED issued
    \/ /\ rev' = rev
       /\ msgSeq' = msgSeq + 1
       /\ issued' = Append(issued, <<rev, msgSeq'>>)

(* nextMessageID numbers a message after the last one of this revision, and
   only a commit starts the numbers again, at the next revision. *)
LEMMA NextIDStep == Next => IDStep
  <1> USE DEF IDStep, stateVars, sessVars, listenerVars, endVars
  <1> SUFFICES ASSUME Next PROVE IDStep
    OBVIOUS
  <1>1. ASSUME NEW c \in Clients, CurrentRevision(c) \/ Refresh(c) \/ UseClosed(c)
                                  \/ UseDestroyed(c)
        PROVE  IDStep
    BY <1>1 DEF CurrentRevision, Refresh, UseClosed, UseDestroyed
  <1>2. ASSUME NEW c \in Clients, NEW r \in 0..MaxRev, GetRevision(c, r) PROVE IDStep
    BY <1>2 DEF GetRevision
  <1>3. ASSUME NEW c \in Clients, NEW ns \in Namespaces, NEW l \in Lists, Update(c, ns, l)
        PROVE  IDStep
    BY <1>3 DEF Update, TryUpdate, Commit
  <1>4. ASSUME NEW c \in Clients, NEW ns \in Namespaces, Clear(c, ns) PROVE IDStep
    BY <1>4 DEF Clear, TryClear, Commit
  <1>5. ASSUME NEW c \in Clients, RevisionDestroy(c) \/ SessionDestroy(c)
                                  \/ DestroyEnd(c)
        PROVE  IDStep
    BY <1>5 DEF RevisionDestroy, SessionDestroy, DestroyBegin, DestroyEnd
  <1>6. ASSUME NEW c \in Clients, CallBegin(c) \/ Send(c) PROVE IDStep
    BY <1>6 DEF CallBegin, Send, IssueID
  <1>7. ASSUME NEW c \in Clients, CallEnd(c) \/ RegisterBegin(c) \/ SetAsyncHandler(c)
        PROVE  IDStep
    BY <1>7 DEF CallEnd, RegisterBegin, SetAsyncHandler, RegisterEnd
  <1>8. ASSUME NEW c \in Clients, NEW ns \in Namespaces, Listen(c, ns) \/ Unlisten(c, ns)
        PROVE  IDStep
    BY <1>8 DEF Listen, Unlisten, Register, RegisterEnd
  <1>9. CASE CloseDone \/ RemoveFromStore \/ ListenerStops \/ ExecuteAbandoned
    BY <1>9 DEF CloseDone, RemoveFromStore, ListenerStops, ExecuteAbandoned
  <1> QED
    BY <1>1, <1>2, <1>3, <1>4, <1>5, <1>6, <1>7, <1>8, <1>9 DEF Next, ClientStep

(* Either kind of step keeps the IDs in order. *)
LEMMA StepIDInv ==
    ASSUME TypeOK, TypeOK', IDInv, IDStep
    PROVE  IDInv'
  <1>1. /\ rev \in Nat /\ msgSeq \in Nat /\ msgSeq' \in Nat
        /\ issued \in Seq(Nat \X Nat) /\ Len(issued) \in Nat
        /\ \A i \in 1..Len(issued) : issued[i][1] \in Nat /\ issued[i][2] \in Nat
    <2>1. issued \in Seq(Nat \X Nat)
      BY DEF TypeOK
    <2>2. Len(issued) \in Nat /\ \A i \in 1..Len(issued) : issued[i] \in Nat \X Nat
      BY <2>1
    <2> QED
      BY <2>1, <2>2 DEF TypeOK, StateTypeOK
  <1>2. CASE UNCHANGED <<rev, msgSeq, issued>>
    BY <1>2 DEF IDInv, IssuedInOrder, IDBefore
  <1>3. CASE rev' = rev + 1 /\ UNCHANGED issued
    BY <1>1, <1>3 DEF IDInv, IssuedInOrder, IDBefore
  <1>4. CASE /\ rev' = rev
             /\ msgSeq' = msgSeq + 1
             /\ issued' = Append(issued, <<rev, msgSeq'>>)
    <2> DEFINE n == Len(issued)
    <2>1. <<rev, msgSeq'>> \in Nat \X Nat
      BY <1>1
    <2>2. /\ Len(issued') = n + 1
          /\ \A i \in 1..n : issued'[i] = issued[i]
          /\ issued'[n + 1] = <<rev, msgSeq + 1>>
      BY ONLY <1>1, <1>4, <2>1, AppendType
    <2>3. \A i \in 1..n + 1 : i \in 1..n \/ i = n + 1
      BY <1>1
    <2>4. \A i \in 1..n : IDBefore(issued'[i], issued'[n + 1])
      <3> SUFFICES ASSUME NEW i \in 1..n PROVE IDBefore(issued[i], <<rev, msgSeq + 1>>)
        BY <2>2
      <3>1. \/ issued[i][1] < rev
            \/ issued[i][1] = rev /\ issued[i][2] <= msgSeq
        BY DEF IDInv
      <3>2. issued[i][2] \in Nat
        BY <1>1
      <3> QED
        BY <1>1, <3>1, <3>2 DEF IDBefore
    <2>5. \A i, j \in 1..n : i < j => IDBefore(issued'[i], issued'[j])
      BY <2>2 DEF IDInv, IssuedInOrder
    <2>6. IssuedInOrder'
      <3> SUFFICES ASSUME NEW i \in 1..n + 1, NEW j \in 1..n + 1, i < j
                   PROVE  IDBefore(issued'[i], issued'[j])
        BY <2>2 DEF IssuedInOrder, IDBefore
      <3>1. i \in 1..n
        BY <1>1
      <3> QED
        BY <2>3, <2>4, <2>5, <3>1
    <2>7. \A i \in 1..n + 1 :
             issued'[i][1] < rev' \/ (issued'[i][1] = rev' /\ issued'[i][2] <= msgSeq')
      BY <1>1, <1>4, <2>2, <2>3 DEF IDInv
    <2> QED
      BY <2>2, <2>6, <2>7 DEF IDInv
  <1> QED
    BY <1>2, <1>3, <1>4 DEF IDStep

(* Message IDs never repeat and never go back. *)
THEOREM IDsInOrder == Spec => []IssuedInOrder
  <1>1. Init => IDInv
    BY DEF Init, IDInv, IssuedInOrder
  <1>2. TypeOK /\ TypeOK' /\ IDInv /\ [Next]_vars => IDInv'
    <2>1. CASE Next
      BY <2>1, NextIDStep, StepIDInv
    <2>2. CASE UNCHANGED vars
      BY <2>2 DEF vars, stateVars, sessVars, listenerVars, endVars, IDInv, IssuedInOrder, IDBefore
    <2> QED
      BY <2>1, <2>2
  <1>3. IDInv => IssuedInOrder
    BY DEF IDInv
  <1> QED
    BY <1>1, <1>2, <1>3, TypeCorrect, PTL DEF Spec

-----------------------------------------------------------------------------
(***************************************************************************)
(* The end of a session.                                                   *)
(***************************************************************************)

(* Nobody holds the read lock on a destroyed session, so nobody is between
   the test of isDestroyed and a registration; and an UnlistenAll() that was
   answered left neither a handler nor a request that could make one. *)
EndInv ==
    /\ isDestroyed => ~asyncHandler /\ readers = {}
    /\ isDestroyed /\ destroying = {} /\ ~ignored => listening = {} /\ abandoned = {}
    /\ ignored => isDestroyed /\ destroying = {} /\ listenerStopped
    /\ destroying # {} => isDestroyed
    /\ waiting => isDestroyed /\ destroying = {}
    /\ done => isDestroyed /\ calls = {} /\ destroying = {}
    /\ ~stored => done

(* Every operation, and the two goroutines that end a session, preserve the
   invariant of its end: the write lock that destroy() needs keeps it from
   passing a client between its test of isDestroyed and its registration. *)
LEMMA NextEndInv == TypeOK /\ EndInv /\ [Next]_vars => EndInv'
  <1> USE DEF EndInv, stateVars, sessVars, listenerVars, endVars
  <1> SUFFICES ASSUME TypeOK, EndInv, [Next]_vars PROVE EndInv'
    OBVIOUS
  <1>1. ASSUME NEW c \in Clients, CurrentRevision(c) \/ Refresh(c) \/ UseClosed(c)
                                  \/ UseDestroyed(c)
        PROVE  EndInv'
    BY <1>1 DEF CurrentRevision, Refresh, UseClosed, UseDestroyed
  <1>2. ASSUME NEW c \in Clients, NEW r \in 0..MaxRev, GetRevision(c, r) PROVE EndInv'
    BY <1>2 DEF GetRevision
  <1>3. ASSUME NEW c \in Clients, NEW ns \in Namespaces, NEW l \in Lists, Update(c, ns, l)
        PROVE  EndInv'
    BY <1>3 DEF Update, TryUpdate, Commit
  <1>4. ASSUME NEW c \in Clients, NEW ns \in Namespaces, Clear(c, ns) PROVE EndInv'
    BY <1>4 DEF Clear, TryClear, Commit
  <1>5. ASSUME NEW c \in Clients, RevisionDestroy(c) \/ SessionDestroy(c) PROVE EndInv'
    BY <1>5 DEF RevisionDestroy, SessionDestroy, DestroyBegin, Lockable
  <1>6. ASSUME NEW c \in Clients, CallBegin(c) \/ Send(c) PROVE EndInv'
    BY <1>6 DEF CallBegin, Send, IssueID
  <1>7. ASSUME NEW c \in Clients, CallEnd(c) \/ RegisterBegin(c) \/ SetAsyncHandler(c)
        PROVE  EndInv'
    BY <1>7 DEF CallEnd, RegisterBegin, SetAsyncHandler, RegisterEnd
  <1>8. ASSUME NEW c \in Clients, NEW ns \in Namespaces, Listen(c, ns) \/ Unlisten(c, ns)
        PROVE  EndInv'
    <2>1. PICK q : Register(c, q)
      BY <1>8 DEF Listen, Unlisten
    <2>2. ~isDestroyed
      BY <2>1 DEF Register, RegisterEnd
    <2> QED
      BY <2>1, <2>2 DEF Register, RegisterEnd, AskListener
  <1>11. ASSUME NEW c \in Clients, DestroyEnd(c) PROVE EndInv'
    <2> DEFINE q == [kind |-> "unlisten", namespaces |-> Namespaces]
    <2>1. PICK stopped \in BOOLEAN : AskListener(q, stopped) /\ ignored' = stopped
      BY <1>11 DEF DestroyEnd
    <2>2. isDestroyed /\ ~asyncHandler /\ readers = {} /\ ~done /\ stored
      BY <1>11 DEF DestroyEnd, TypeOK
    <2>3. HandlersAfter(q) = {}
      BY DEF HandlersAfter, TypeOK
    <2>4. ~stopped => listening' = {} /\ abandoned' = {}
      BY <2>1, <2>3 DEF AskListener
    <2>5. stopped => listenerStopped'
      BY <2>1 DEF AskListener
    <2> QED
      BY <1>11, <2>1, <2>2, <2>4, <2>5 DEF DestroyEnd
  <1>9. CASE CloseDone \/ RemoveFromStore \/ ListenerStops \/ ExecuteAbandoned
    BY <1>9 DEF CloseDone, RemoveFromStore, ListenerStops, ExecuteAbandoned
  <1>10. CASE UNCHANGED vars
    BY <1>10 DEF vars
  <1> QED
    BY <1>1, <1>2, <1>3, <1>4, <1>5, <1>6, <1>7, <1>8, <1>9, <1>10, <1>11
    DEF Next, ClientStep

(* The invariant of the end of a session holds throughout its life. *)
LEMMA EndInvariant == Spec => []EndInv
  <1>1. Init => EndInv
    BY DEF Init, StateInit, EndInv
  <1> QED
    BY <1>1, NextEndInv, TypeCorrect, PTL DEF Spec

(* A destroyed session has no handlers left, whoever was registering one, unless
   the listener had been told to stop and sent destroy() away. *)
THEOREM DestroyedStaysSilent == Spec => []DestroyedIsSilent
  <1>1. EndInv => DestroyedIsSilent
    BY DEF EndInv, DestroyedIsSilent
  <1> QED
    BY <1>1, EndInvariant, PTL

(* Done() closes, and the store forgets, only a destroyed session whose
   calls have finished. *)
THEOREM DoneIsQuiescent == Spec => []DoneMeansQuiescent
  <1>1. EndInv => DoneMeansQuiescent
    BY DEF EndInv, DoneMeansQuiescent
  <1> QED
    BY <1>1, EndInvariant, PTL

-----------------------------------------------------------------------------
(***************************************************************************)
(* After the end: what an operation on a destroyed session may not do.     *)
(***************************************************************************)

(* TryUpdate, TryClear and nextMessageID refuse a destroyed session, and no
   operation makes it alive again. *)
LEMMA NextAfterDestroy ==
    ASSUME TypeOK, Next, isDestroyed
    PROVE  UNCHANGED <<rev, attrs, history, msgSeq, isDestroyed, issued>>
  <1> DEFINE Same == UNCHANGED <<rev, attrs, history, msgSeq, isDestroyed, issued>>
  <1> USE DEF stateVars, sessVars, listenerVars, endVars
  <1>1. isDestroyed = TRUE
    BY DEF TypeOK, StateTypeOK
  <1>2. ASSUME NEW c \in Clients, CurrentRevision(c) \/ Refresh(c) \/ UseClosed(c)
                                  \/ UseDestroyed(c)
        PROVE  Same
    BY <1>2 DEF CurrentRevision, Refresh, UseClosed, UseDestroyed
  <1>3. ASSUME NEW c \in Clients, NEW r \in 0..MaxRev, GetRevision(c, r) PROVE Same
    BY <1>3 DEF GetRevision
  <1>4. ASSUME NEW c \in Clients, NEW ns \in Namespaces, NEW l \in Lists, Update(c, ns, l)
        PROVE  Same
    BY <1>4 DEF Update, TryUpdate, CanUpdate, Accepts
  <1>5. ASSUME NEW c \in Clients, NEW ns \in Namespaces, Clear(c, ns) PROVE Same
    BY <1>5 DEF Clear, TryClear, CanClear, Accepts
  <1>6. ASSUME NEW c \in Clients, RevisionDestroy(c) \/ SessionDestroy(c)
                                  \/ DestroyEnd(c)
        PROVE  Same
    BY <1>6 DEF RevisionDestroy, SessionDestroy, DestroyEnd
  <1>7. ASSUME NEW c \in Clients, CallBegin(c) \/ Send(c) PROVE Same
    BY <1>7 DEF CallBegin, Send
  <1>8. ASSUME NEW c \in Clients, CallEnd(c) \/ RegisterBegin(c) \/ SetAsyncHandler(c)
        PROVE  Same
    BY <1>8 DEF CallEnd, RegisterBegin, SetAsyncHandler, RegisterEnd
  <1>9. ASSUME NEW c \in Clients, NEW ns \in Namespaces, Listen(c, ns) \/ Unlisten(c, ns)
        PROVE  Same
    BY <1>9 DEF Listen, Unlisten, Register, RegisterEnd
  <1>10. CASE CloseDone \/ RemoveFromStore \/ ListenerStops \/ ExecuteAbandoned
    BY <1>10 DEF CloseDone, RemoveFromStore, ListenerStops, ExecuteAbandoned
  <1> QED
    BY <1>2, <1>3, <1>4, <1>5, <1>6, <1>7, <1>8, <1>9, <1>10 DEF Next, ClientStep

(* A destroyed session issues no message ID, changes no attribute and never
   comes back, whoever still holds a revision of it. *)
THEOREM NothingHappensAfterDestroy == Spec => NothingAfterDestroy
  <1>1. TypeOK /\ [Next]_vars =>
           [isDestroyed => UNCHANGED <<rev, attrs, history, msgSeq, isDestroyed, issued>>]_vars
    BY NextAfterDestroy DEF vars
  <1> QED
    BY <1>1, TypeCorrect, PTL DEF Spec, NothingAfterDestroy

-----------------------------------------------------------------------------
(***************************************************************************)
(* What callers are told.                                                  *)
(***************************************************************************)

(* What is a reason for an error remains one: revisions are added, a frozen
   attribute stays frozen and a destroyed session destroyed. *)
Endures ==
    /\ rev' \in Nat /\ rev <= rev'
    /\ \A ns \in Namespaces, k \in Keys : attrs[ns][k].frozen => attrs'[ns][k].frozen
    /\ isDestroyed => isDestroyed'
    /\ listenerStopped => listenerStopped'

(* No operation of a session takes such a reason away. *)
LEMMA NextEndures ==
    ASSUME TableInv, Next
    PROVE  Endures
  <1>1. (Appends \/ SameTable) /\ (listenerStopped => listenerStopped')
    BY NextTableStep DEF TableStep
  <1>2. isDestroyed => isDestroyed'
    BY NextAfterDestroy DEF TableInv
  <1>3. rev \in Nat
    BY DEF TableInv, TypeOK, StateTypeOK
  <1>4. CASE Appends
    <2>1. \A e : Content(e).frozen = e.frozen
      BY DEF Content
    <2>2. \A ns \in Namespaces, k \in Keys : attrs[ns][k].frozen => attrs'[ns][k].frozen
      <3> SUFFICES ASSUME NEW ns \in Namespaces, NEW k \in Keys, attrs[ns][k].frozen
                   PROVE  attrs'[ns][k].frozen
        OBVIOUS
      <3>1. Content(attrs'[ns][k]) = Content(attrs[ns][k])
        BY <1>4 DEF Appends
      <3> QED
        BY <2>1, <3>1
    <2>3. rev' = rev + 1
      BY <1>4 DEF Appends
    <2> QED
      BY <1>1, <1>2, <1>3, <2>2, <2>3 DEF Endures
  <1>5. CASE SameTable
    BY <1>1, <1>2, <1>3, <1>5 DEF Endures, SameTable
  <1> QED
    BY <1>1, <1>4, <1>5

(* A step that gives client c the result o and the revision h, both truthful,
   leaves all clients with the truth. *)
LEMMA OneIsTold ==
    ASSUME TableInv, ErrorsAreTruthful, Endures, NEW c \in Clients, NEW o, NEW h,
           outcome' = [outcome EXCEPT ![c] = o], handle' = [handle EXCEPT ![c] = h],
           o = "stale" => h.rev < rev',
           o = "frozen" => \E ns \in Namespaces, k \in Keys : attrs[ns][k].frozen,
           o = "notFound" => isDestroyed',
           o = "stopped" => listenerStopped',
           h.kind = "closed" => isDestroyed'
    PROVE  ErrorsAreTruthful'
  <1>1. /\ outcome \in [Clients -> Outcomes] /\ handle \in [Clients -> Handles]
        /\ rev \in Nat /\ rev' \in Nat
    BY DEF TableInv, TypeOK, StateTypeOK, Endures
  <1> SUFFICES ASSUME NEW d \in Clients
               PROVE  /\ outcome'[d] = "stale" => handle'[d].rev < rev'
                      /\ outcome'[d] = "frozen" =>
                            \E ns \in Namespaces, k \in Keys : attrs'[ns][k].frozen
                      /\ outcome'[d] = "notFound" => isDestroyed'
                      /\ outcome'[d] = "stopped" => listenerStopped'
                      /\ handle'[d].kind = "closed" => isDestroyed'
    BY DEF ErrorsAreTruthful
  <1>2. CASE d = c
    BY <1>1, <1>2 DEF Endures
  <1>3. CASE d # c
    <2>1. outcome'[d] = outcome[d] /\ handle'[d] = handle[d] /\ handle[d].rev \in Nat
      BY <1>1, <1>3 DEF Handles
    <2> QED
      BY <1>1, <2>1 DEF Endures, ErrorsAreTruthful
  <1> QED
    BY <1>2, <1>3

(* A step that changes neither results nor revisions takes no truth away. *)
LEMMA NoneIsTold ==
    ASSUME TableInv, ErrorsAreTruthful, Endures, UNCHANGED <<outcome, handle>>
    PROVE  ErrorsAreTruthful'
  <1>1. rev \in Nat /\ rev' \in Nat /\ \A c \in Clients : handle[c].rev \in Nat
    BY DEF TableInv, TypeOK, StateTypeOK, Handles, Endures
  <1> QED
    BY <1>1 DEF Endures, ErrorsAreTruthful

(* Every operation tells the truth, if lists name no key twice: TryUpdate refuses
   other lists also because of an attribute that an earlier item froze. *)
LEMMA NextErrors ==
    ASSUME DistinctKeys, TableInv, EndInv, ErrorsAreTruthful, Next
    PROVE  ErrorsAreTruthful'
  <1>1. Endures
    BY NextEndures
  <1>2. /\ StateInv /\ outcome \in [Clients -> Outcomes] /\ handle \in [Clients -> Handles]
        /\ rev \in Nat /\ rev' \in Nat
        /\ \A c \in Clients : handle[c].rev \in Nat /\ handle[c].rev <= rev
    BY <1>1 DEF TableInv, TypeOK, StateInv, StateTypeOK, HandlesSound, Handles, Endures
  <1>3. \A c \in Clients : handle = [handle EXCEPT ![c] = handle[c]]
    BY <1>2
  <1>4. ASSUME NEW c \in Clients, Returns(c, "ok"), handle' = handle
        PROVE  ErrorsAreTruthful'
    BY <1>1, <1>2, <1>3, <1>4, OneIsTold DEF Returns, ErrorsAreTruthful, Endures
  <1>5. ASSUME NEW c \in Clients, NEW h, Returns(c, "ok"), Holds(c, h),
               h.kind = "closed" => isDestroyed'
        PROVE  ErrorsAreTruthful'
    <2> DEFINE o == "ok"
    <2>1. o # "stale" /\ o # "frozen" /\ o # "notFound" /\ o # "stopped"
      OBVIOUS
    <2>2. outcome' = [outcome EXCEPT ![c] = o] /\ handle' = [handle EXCEPT ![c] = h]
      BY <1>5 DEF Returns, Holds
    <2> HIDE DEF o
    <2> QED
      BY <1>1, <1>5, <2>1, <2>2, OneIsTold
  <1>6. ASSUME NEW c \in Clients, NEW v, Returns(c, TryError(handle[c].rev, v)), handle' = handle,
               v => \E ns \in Namespaces, k \in Keys : attrs[ns][k].frozen
        PROVE  ErrorsAreTruthful'
    <2> DEFINE o == TryError(handle[c].rev, v)
    <2>1. /\ o = "stale" => handle[c].rev < rev'
          /\ o = "frozen" => v
          /\ o = "notFound" => isDestroyed'
          /\ o # "stopped"
          /\ handle[c].kind = "closed" => isDestroyed'
      BY <1>1, <1>2 DEF TryError, Endures, ErrorsAreTruthful
    <2> HIDE DEF o
    <2>2. /\ outcome' = [outcome EXCEPT ![c] = o]
          /\ handle' = [handle EXCEPT ![c] = handle[c]]
      BY <1>3, <1>6 DEF Returns, o
    <2>3. o = "frozen" => \E ns \in Namespaces, k \in Keys : attrs[ns][k].frozen
      BY <1>6, <2>1
    <2>4. o = "stopped" => listenerStopped'
      BY <2>1
    <2> QED
      BY <1>1, <2>1, <2>2, <2>3, <2>4, OneIsTold
  <1>7. ASSUME NEW c \in Clients, CurrentRevision(c) PROVE ErrorsAreTruthful'
    <2>1. PICK h \in {Closed, Open(rev, attrs)} :
             Holds(c, h) /\ (h.kind = "closed" => isDestroyed)
      BY <1>7 DEF CurrentRevision, Open, Closed
    <2> QED
      BY <1>1, <1>5, <1>7, <2>1 DEF CurrentRevision, Endures
  <1>8. ASSUME NEW c \in Clients, Refresh(c) PROVE ErrorsAreTruthful'
    BY <1>4, <1>7, <1>8 DEF Refresh
  <1>9. ASSUME NEW c \in Clients, NEW r \in 0..MaxRev, GetRevision(c, r)
        PROVE  ErrorsAreTruthful'
    <2>1. PICK h \in {Closed, Open(r, attrs)} :
             Holds(c, h) /\ (h.kind = "closed" => isDestroyed)
      BY <1>9 DEF GetRevision, Open, Closed, EndInv
    <2> QED
      BY <1>1, <1>5, <1>9, <2>1 DEF GetRevision, Endures
  <1>10. ASSUME NEW c \in Clients, NEW ns \in Namespaces, NEW l \in Lists, Update(c, ns, l)
         PROVE  ErrorsAreTruthful'
    <2>1. CASE TryUpdate(handle[c].rev, ns, l) /\ Holds(c, Open(rev', attrs'))
      <3>1. UpdateError(handle[c].rev, ns, l) = "ok"
        BY <2>1 DEF TryUpdate, CanUpdate, Accepts, UpdateError, TryError
      <3> QED
        BY <1>5, <1>10, <2>1, <3>1 DEF Update, Open
    <2>2. CASE UNCHANGED <<stateVars, handle>>
      <3>1. l \in Seq(Attr) /\ NamesOnce(l)
        BY ListsAssumption DEF DistinctKeys
      <3>a. \A j \in 1..Len(l) : l[j] \in Attr
        BY <3>1
      <3>2. \A j \in 1..Len(l) : l[j].key \in Keys
        BY <3>a DEF Attr
      <3>3. ViolatesFrozen(attrs[ns], l) => \E k \in Keys : attrs[ns][k].frozen
        BY <3>1, <3>2, NamedOnceViolates
      <3> QED
        BY <1>6, <1>10, <2>2, <3>3 DEF Update, UpdateError
    <2> QED
      BY <1>10, <2>1, <2>2 DEF Update
  <1>11. ASSUME NEW c \in Clients, NEW ns \in Namespaces, Clear(c, ns) PROVE ErrorsAreTruthful'
    <2>1. CASE TryClear(handle[c].rev, ns) /\ Holds(c, Open(rev', attrs'))
      <3>1. ClearError(handle[c].rev, ns) = "ok"
        BY <2>1 DEF TryClear, CanClear, Accepts, ClearError, TryError
      <3> QED
        BY <1>5, <1>11, <2>1, <3>1 DEF Clear, Open
    <2>2. CASE UNCHANGED <<stateVars, handle>>
      <3>1. ClearViolatesFrozen(attrs[ns]) => \E k \in Keys : attrs[ns][k].frozen
        BY DEF ClearViolatesFrozen
      <3> QED
        BY <1>6, <1>11, <2>2, <3>1 DEF Clear, ClearError
    <2> QED
      BY <1>11, <2>1, <2>2 DEF Clear
  <1>12. ASSUME NEW c \in Clients, RevisionDestroy(c) PROVE ErrorsAreTruthful'
    <2> DEFINE o == DestroyError(handle[c].rev)
    <2>1. /\ o = "stale" => handle[c].rev < rev'
          /\ o # "frozen" /\ o # "notFound" /\ o # "stopped"
          /\ handle[c].kind = "closed" => isDestroyed'
      BY <1>1, <1>2 DEF DestroyError, Endures, ErrorsAreTruthful
    <2>2. CASE DestroyBegin(c) /\ handle' = handle
      BY <1>1, <2>2, NoneIsTold DEF DestroyBegin
    <2>3. CASE outcome' = [outcome EXCEPT ![c] = o] /\ handle' = handle
      <3> HIDE DEF o
      <3> QED
        BY <1>1, <1>3, <2>1, <2>3, OneIsTold
    <2> QED
      BY <1>12, <2>2, <2>3 DEF RevisionDestroy, Returns
  <1>13. ASSUME NEW c \in Clients, UseClosed(c) \/ UseDestroyed(c) PROVE ErrorsAreTruthful'
    <2>1. CASE Returns(c, "ok")
      BY <1>4, <1>13, <2>1 DEF UseClosed, UseDestroyed
    <2>2. CASE Returns(c, "notFound")
      <3>1. isDestroyed'
        BY <1>1, <1>13 DEF UseClosed, UseDestroyed, ErrorsAreTruthful, Endures
      <3> DEFINE o == "notFound"
      <3>2. o # "stale" /\ o # "frozen" /\ o # "stopped"
        OBVIOUS
      <3>3. /\ outcome' = [outcome EXCEPT ![c] = o]
            /\ handle' = [handle EXCEPT ![c] = handle[c]]
        BY <1>3, <1>13, <2>2 DEF UseClosed, UseDestroyed, Returns
      <3> HIDE DEF o
      <3> QED
        BY <1>1, <3>1, <3>2, <3>3, OneIsTold
    <2> QED
      BY <1>13, <2>1, <2>2 DEF UseClosed, UseDestroyed
  <1>14. ASSUME NEW c \in Clients, CallBegin(c) \/ Send(c) \/ SetAsyncHandler(c) \/ DestroyEnd(c)
         PROVE  ErrorsAreTruthful'
    BY <1>4, <1>14 DEF CallBegin, Send, SetAsyncHandler, RegisterEnd, DestroyEnd
  <1>15. ASSUME NEW c \in Clients, SessionDestroy(c) PROVE ErrorsAreTruthful'
    <2>1. CASE DestroyBegin(c) /\ handle' = handle
      BY <1>1, <2>1, NoneIsTold DEF DestroyBegin
    <2> QED
      BY <1>4, <1>15, <2>1 DEF SessionDestroy
  <1>16. ASSUME NEW c \in Clients, NEW ns \in Namespaces, Listen(c, ns) \/ Unlisten(c, ns)
         PROVE  ErrorsAreTruthful'
    <2>1. PICK q : Register(c, q)
      BY <1>16 DEF Listen, Unlisten
    <2>2. PICK stopped \in BOOLEAN :
             AskListener(q, stopped) /\ Returns(c, IF stopped THEN "stopped" ELSE "ok")
      BY <2>1 DEF Register
    <2>3. handle' = handle
      BY <2>1 DEF Register, RegisterEnd
    <2>4. CASE ~stopped
      BY <1>4, <2>2, <2>3, <2>4
    <2>5. CASE stopped
      <3>1. listenerStopped' /\ Returns(c, "stopped")
        BY <2>2, <2>5 DEF AskListener
      <3>2. handle[c].kind = "closed" => isDestroyed'
        BY <1>1 DEF Endures, ErrorsAreTruthful
      <3> QED
        BY <1>1, <1>3, <2>3, <3>1, <3>2, OneIsTold DEF Returns
    <2> QED
      BY <2>4, <2>5
  <1>17. ASSUME NEW c \in Clients, CallEnd(c) \/ RegisterBegin(c) PROVE ErrorsAreTruthful'
    BY <1>1, <1>17, NoneIsTold DEF CallEnd, RegisterBegin
  <1>18. CASE CloseDone \/ RemoveFromStore \/ ListenerStops \/ ExecuteAbandoned
    BY <1>1, <1>18, NoneIsTold DEF CloseDone, RemoveFromStore, ListenerStops, ExecuteAbandoned
  <1> QED
    BY <1>7, <1>8, <1>9, <1>10, <1>11, <1>12, <1>13, <1>14, <1>15, <1>16, <1>17, <1>18
    DEF Next, ClientStep

(* An operation fails as stale, frozen or not found only for that reason, which
   holds from then on; closed revisions are those of destroyed sessions. *)
THEOREM ErrorsTruthful == ASSUME DistinctKeys PROVE Spec => []ErrorsAreTruthful
  <1>1. Init => ErrorsAreTruthful
    BY DEF Init, NoHandle, ErrorsAreTruthful
  <1>2. TableInv /\ EndInv /\ ErrorsAreTruthful /\ [Next]_vars => ErrorsAreTruthful'
    <2>1. CASE UNCHANGED vars
      BY <2>1 DEF vars, stateVars, sessVars, listenerVars, ErrorsAreTruthful
    <2> QED
      BY <2>1, NextErrors
  <1> QED
    BY <1>1, <1>2, TableInvariant, EndInvariant, PTL DEF Spec

-----------------------------------------------------------------------------
(***************************************************************************)
(* Reads that fail as stale.                                               *)
(***************************************************************************)

(* The version that entry e is dated with differs from the one before it. *)
ChangedAt(e, ns, k) ==
    e.updatedAt # 0 => history[e.updatedAt][ns][k] # history[e.updatedAt - 1][ns][k]

(* So it is for the entries of the session, and of the catalogs that clients
   carry, which mention no revision that has not been made. *)
DatesAreChanges ==
    /\ \A ns \in Namespaces, k \in Keys : ChangedAt(attrs[ns][k], ns, k)
    /\ \A c \in Clients, ns \in Namespaces, k \in Keys :
          /\ handle[c].attrs[ns][k].updatedAt <= rev
          /\ ChangedAt(handle[c].attrs[ns][k], ns, k)

(* A step dates an entry anew only if it changes its content. *)
LEMMA NextChanges ==
    ASSUME DistinctKeys, TableInv, Next, NEW n \in Namespaces, NEW k \in Keys,
           attrs'[n][k] # attrs[n][k]
    PROVE  Content(attrs'[n][k]) # Content(attrs[n][k])
  <1> USE DEF stateVars, sessVars, listenerVars, endVars
  <1>1. StateInv
    BY DEF TableInv, TypeOK, StateInv
  <1>2. attrs' # attrs
    OBVIOUS
  <1>3. ASSUME NEW c \in Clients, NEW ns \in Namespaces, NEW l \in Lists, Update(c, ns, l)
        PROVE  Content(attrs'[n][k]) # Content(attrs[n][k])
    <2>1. TryUpdate(handle[c].rev, ns, l)
      BY <1>2, <1>3 DEF Update
    <2>2. l \in Seq(Attr) /\ NamesOnce(l)
      BY ListsAssumption DEF DistinctKeys
    <2> QED
      BY <1>1, <2>1, <2>2, UpdateChanges
  <1>4. ASSUME NEW c \in Clients, NEW ns \in Namespaces, Clear(c, ns)
        PROVE  Content(attrs'[n][k]) # Content(attrs[n][k])
    <2>1. TryClear(handle[c].rev, ns)
      BY <1>2, <1>4 DEF Clear
    <2> QED
      BY <1>1, <2>1, ClearChanges
  <1>5. ASSUME NEW c \in Clients, CurrentRevision(c) \/ Refresh(c) \/ UseClosed(c)
                                  \/ UseDestroyed(c)
        PROVE  FALSE
    BY <1>2, <1>5 DEF CurrentRevision, Refresh, UseClosed, UseDestroyed
  <1>6. ASSUME NEW c \in Clients, NEW r \in 0..MaxRev, GetRevision(c, r) PROVE FALSE
    BY <1>2, <1>6 DEF GetRevision
  <1>7. ASSUME NEW c \in Clients, RevisionDestroy(c) \/ SessionDestroy(c)
                                  \/ DestroyEnd(c)
        PROVE  FALSE
    BY <1>2, <1>7 DEF RevisionDestroy, SessionDestroy, DestroyBegin, DestroyEnd
  <1>8. ASSUME NEW c \in Clients, CallBegin(c) \/ Send(c) PROVE FALSE
    BY <1>2, <1>8 DEF CallBegin, Send, IssueID
  <1>9. ASSUME NEW c \in Clients, CallEnd(c) \/ RegisterBegin(c) \/ SetAsyncHandler(c)
        PROVE  FALSE
    BY <1>2, <1>9 DEF CallEnd, RegisterBegin, SetAsyncHandler, RegisterEnd
  <1>10. ASSUME NEW c \in Clients, NEW ns \in Namespaces, Listen(c, ns) \/ Unlisten(c, ns)
         PROVE  FALSE
    BY <1>2, <1>10 DEF Listen, Unlisten, Register, RegisterEnd
  <1>11. CASE CloseDone \/ RemoveFromStore \/ ListenerStops \/ ExecuteAbandoned
    BY <1>2, <1>11 DEF CloseDone, RemoveFromStore, ListenerStops, ExecuteAbandoned
  <1> QED
    BY <1>3, <1>4, <1>5, <1>6, <1>7, <1>8, <1>9, <1>10, <1>11 DEF Next, ClientStep

(* Dates remain changes: history is not rewritten, and the entries that a commit
   dates are those whose content it changes. *)
LEMMA NextDates ==
    ASSUME DistinctKeys, TableInv, TableInv', DatesAreChanges, Next
    PROVE  DatesAreChanges'
  <1>1. TableStep
    BY NextTableStep
  <1>2. /\ rev \in Nat /\ rev' \in Nat /\ rev <= rev'
        /\ \A r \in 0..rev : history'[r] = history[r]
    BY <1>1 DEF TableStep, SameTable, Appends, TableInv, TypeOK, StateTypeOK
  <1>3. ASSUME NEW e, e.updatedAt \in 0..rev, NEW ns \in Namespaces, NEW k \in Keys,
               ChangedAt(e, ns, k)
        PROVE  e.updatedAt # 0 =>
                  history'[e.updatedAt][ns][k] # history'[e.updatedAt - 1][ns][k]
    BY <1>2, <1>3 DEF ChangedAt
  <1>4. ASSUME NEW ns \in Namespaces, NEW k \in Keys
        PROVE  /\ attrs'[ns][k].updatedAt <= rev'
               /\ ChangedAt(attrs[ns][k], ns, k)'
    <2> DEFINE e  == attrs[ns][k]
               e2 == attrs'[ns][k]
    <2>1. e \in VAttr /\ e2 \in VAttr /\ e.updatedAt <= rev /\ e.createdAt <= rev /\ e2.updatedAt <= rev'
      BY DEF TableInv, TypeOK, StateTypeOK, AttrsSound, Catalog, VTable
    <2>2. CASE e2 = e
      <3>1. e.updatedAt \in 0..rev /\ ChangedAt(e, ns, k)
        BY <1>2, <2>1 DEF VAttr, DatesAreChanges
      <3>2. e.updatedAt # 0 => history'[e.updatedAt][ns][k] # history'[e.updatedAt - 1][ns][k]
        BY <1>3, <3>1
      <3> QED
        BY <2>1, <2>2, <3>2 DEF ChangedAt
    <2>3. CASE e2 # e
      <3>1. Content(e2) # Content(e)
        BY <2>3, NextChanges
      <3>2. Appends
        BY <1>1, <2>3 DEF TableStep, SameTable
      <3>3. e2.updatedAt = rev + 1 /\ history'[rev + 1][ns][k] = Content(e2)
        BY <2>3, <3>2 DEF Appends, ContentsOf
      <3>4. history[rev][ns][k] = Content(e)
        BY <1>2, <2>1 DEF TableInv, AttrsSound, SoundAt
      <3>5. history'[rev][ns][k] = Content(e) /\ (rev + 1) - 1 = rev
        BY <1>2, <3>4
      <3> QED
        BY <2>1, <3>1, <3>3, <3>5 DEF ChangedAt
    <2> QED
      BY <2>2, <2>3
  <1>5. ASSUME NEW c \in Clients, NEW ns \in Namespaces, NEW k \in Keys
        PROVE  /\ handle'[c].attrs[ns][k].updatedAt <= rev'
               /\ ChangedAt(handle[c].attrs[ns][k], ns, k)'
    <2>1. CASE handle'[c] = handle[c]
      <3> PICK e : e = handle[c].attrs[ns][k]
        OBVIOUS
      <3>1. e.updatedAt \in 0..rev /\ ChangedAt(e, ns, k)
        BY <1>2 DEF TableInv, TypeOK, Handles, Catalog, VTable, VAttr, DatesAreChanges
      <3>2. e.updatedAt # 0 => history'[e.updatedAt][ns][k] # history'[e.updatedAt - 1][ns][k]
        BY <1>3, <3>1
      <3>3. e.updatedAt <= rev'
        BY <1>2, <3>1
      <3>4. ChangedAt(e, ns, k)'
        BY <3>2, Zenon DEF ChangedAt
      <3> QED
        BY <2>1, <3>3, <3>4
    <2>2. CASE handle'[c] = Closed
      BY <1>2, <2>2 DEF Closed, EmptyCatalog, EmptyTable, Absent, ChangedAt
    <2>3. ASSUME NEW r \in 0..rev', handle'[c] = Open(r, attrs')
          PROVE  /\ handle'[c].attrs[ns][k].updatedAt <= rev'
                 /\ ChangedAt(handle[c].attrs[ns][k], ns, k)'
      BY <1>4, <2>3 DEF Open, ChangedAt
    <2> QED
      BY <1>1, <2>1, <2>2, <2>3 DEF TableStep, HandleStep
  <1> QED
    BY <1>4, <1>5 DEF DatesAreChanges

(* A read fails as stale only if the attribute has changed since the revision
   it is asked of. *)
THEOREM StaleIsModified == ASSUME DistinctKeys PROVE Spec => []StaleOnlyIfModified
  <1>1. Init => DatesAreChanges
    BY DEF Init, StateInit, NoHandle, EmptyCatalog, EmptyTable, Absent, DatesAreChanges, ChangedAt
  <1>2. TableInv /\ TableInv' /\ DatesAreChanges /\ [Next]_vars => DatesAreChanges'
    <2>1. CASE UNCHANGED vars
      BY <2>1 DEF vars, stateVars, DatesAreChanges, ChangedAt
    <2> QED
      BY <2>1, NextDates
  <1>3. TableInv /\ DatesAreChanges => StaleOnlyIfModified
    <2> SUFFICES ASSUME TableInv, DatesAreChanges,
                        NEW c \in Clients, NEW ns \in Namespaces, NEW k \in Keys,
                        IsOpen(c), GetIsStale(handle[c], ns, k)
                 PROVE  \E r \in handle[c].rev + 1 .. rev :
                           history[r][ns][k] # history[handle[c].rev][ns][k]
      BY DEF StaleOnlyIfModified
    <2> DEFINE u == handle[c].attrs[ns][k].updatedAt
               b == handle[c].rev
    <2>1. u \in Nat /\ b \in Nat /\ rev \in Nat /\ b < u /\ u <= rev
      BY DEF TableInv, TypeOK, StateTypeOK, Handles, Catalog, VTable, VAttr, DatesAreChanges,
             GetIsStale, IsStale
    <2>2. history[u][ns][k] # history[u - 1][ns][k]
      <3>1. ChangedAt(handle[c].attrs[ns][k], ns, k)
        BY DEF DatesAreChanges
      <3>2. u # 0
        BY <2>1
      <3> QED
        BY <3>1, <3>2, Zenon DEF ChangedAt
    <2> HIDE DEF u, b
    <2>3. CASE history[u][ns][k] # history[b][ns][k]
      <3>1. u \in b + 1 .. rev
        BY <2>1
      <3> QED
        BY <2>3, <3>1 DEF b
    <2>4. CASE history[u][ns][k] = history[b][ns][k]
      <3>1. u - 1 # b
        BY <2>2, <2>4
      <3>2. u - 1 \in b + 1 .. rev
        BY <2>1, <3>1
      <3> QED
        BY <2>2, <2>4, <3>2 DEF b
    <2> QED
      BY <2>3, <2>4
  <1> QED
    BY <1>1, <1>2, <1>3, TableInvariant, PTL DEF Spec

-----------------------------------------------------------------------------
(***************************************************************************)
(* The refinement of VersionedSession.                                     *)
(***************************************************************************)
Base == [c \in Clients |-> handle[c].rev]

(* A session that was just created is a list with one, empty, version. *)
LEMMA InitImplements == Init => Versioned!Init
  <1> SUFFICES ASSUME Init PROVE Versioned!Init
    OBVIOUS
  <1>1. ContentsOf(EmptyCatalog) = [ns \in Namespaces |-> [k \in Keys |-> Blank]]
    BY DEF ContentsOf, EmptyCatalog, EmptyTable, Absent, Content, Blank
  <1>2. Base = [c \in Clients |-> 0]
    BY DEF Base, Init, NoHandle
  <1> QED
    BY <1>1, <1>2 DEF Init, StateInit, Versioned!Init, Base

(* A client that obtains a revision that exists looks at it. *)
LEMMA HoldsLooks ==
    ASSUME TypeOK, NEW c \in Clients, NEW h, h.rev \in 0..rev, Holds(c, h),
           UNCHANGED <<rev, history, isDestroyed>>
    PROVE  Versioned!Look(c)
  <1>1. Base' = [Base EXCEPT ![c] = h.rev]
    BY DEF Base, Holds, TypeOK
  <1> QED
    BY <1>1 DEF Versioned!Look, Base

(* A commit through the revision of a client appends on top of it. *)
LEMMA CommitImplements ==
    ASSUME TableInv, Appends, NEW c \in Clients,
           handle[c].rev = rev, Holds(c, Open(rev', attrs'))
    PROVE  Versioned!Replace(c)
  <1>1. rev \in Nat /\ rev \in 0..rev
    BY DEF TableInv, TypeOK, StateTypeOK
  <1>2. Base' = [Base EXCEPT ![c] = rev']
    BY DEF Base, Holds, TableInv, TypeOK, Open
  <1>3. Base[c] = rev
    BY DEF Base
  <1>4. \A ns \in Namespaces, k \in Keys : history[rev][ns][k] = Content(attrs[ns][k])
    BY <1>1 DEF TableInv, AttrsSound, SoundAt
  <1>5. history[rev] = ContentsOf(attrs)
    <2>1. history[rev] \in AllContents
      BY <1>1 DEF TableInv, TypeOK, StateTypeOK
    <2> QED
      BY <1>4, <2>1 DEF ContentsOf, AllContents
  <1>6. history'[rev'] = ContentsOf(attrs')
    BY DEF Appends
  <1>7. Versioned!Follows(history'[rev'])
    <2>1. PICK ns \in Namespaces :
             \A other \in Namespaces \ {ns} : attrs'[other] = attrs[other]
      BY DEF Appends
    <2>2. \A other \in Namespaces \ {ns} : history'[rev'][other] = history[rev][other]
      BY <1>5, <1>6, <2>1 DEF ContentsOf
    <2>3. \A n \in Namespaces, k \in Keys :
             history[rev][n][k].frozen => history'[rev'][n][k] = history[rev][n][k]
      <3> SUFFICES ASSUME NEW n \in Namespaces, NEW k \in Keys, history[rev][n][k].frozen
                   PROVE  history'[rev'][n][k] = history[rev][n][k]
        OBVIOUS
      <3>a. history[rev][n][k] = Content(attrs[n][k])
        BY <1>4
      <3>b. Content(attrs[n][k]).frozen = attrs[n][k].frozen
        BY DEF Content
      <3>1. attrs[n][k].frozen
        BY <3>a, <3>b
      <3>2. Content(attrs'[n][k]) = Content(attrs[n][k])
        BY <3>1 DEF Appends
      <3> QED
        BY <1>4, <1>6, <3>2 DEF ContentsOf
    <2> QED
      BY <2>2, <2>3 DEF Versioned!Follows
  <1>8. /\ ~isDestroyed /\ isDestroyed' = isDestroyed
        /\ rev' = rev + 1
        /\ \A r \in 0..rev : history'[r] = history[r]
    BY DEF Appends, TableInv, TypeOK, StateTypeOK
  <1>9. history' \in [0..rev' -> Versioned!Tables]
    BY <1>8 DEF Appends, Versioned!Tables, AllContents
  <1> QED
    BY <1>2, <1>3, <1>7, <1>8, <1>9 DEF Versioned!Replace, Versioned!Append, Base

(* Every operation appends a version on top of the one its client was looking
   at, lets a client look at a version, ends the list, or does none of these. *)
LEMMA NextImplements ==
    TableInv /\ [Next]_vars => [Versioned!Next]_(Versioned!vars)
  <1> DEFINE Abstract == Versioned!Next \/ UNCHANGED Versioned!vars
  <1> SUFFICES ASSUME TableInv, [Next]_vars PROVE Abstract
    OBVIOUS
  <1>1. TypeOK /\ StateInv /\ rev \in Nat /\ 0 \in 0..rev /\ rev \in 0..rev
    BY DEF TableInv, StateInv, TypeOK, StateTypeOK
  <1>2. ASSUME UNCHANGED <<stateVars, handle>> PROVE Abstract
    BY <1>2 DEF stateVars, Versioned!vars
  <1>3. ASSUME UNCHANGED <<rev, history, handle>>, isDestroyed' = TRUE PROVE Abstract
    <2>1. Base' = Base
      BY <1>3 DEF Base
    <2>2. isDestroyed' = TRUE
      BY <1>3
    <2> QED
      BY <1>3, <2>1, <2>2 DEF Versioned!Next, Versioned!Destroy, Base
  <1>4. ASSUME NEW c \in Clients, CurrentRevision(c) PROVE Abstract
    <2>1. PICK h \in {Closed, Open(rev, attrs)} : Holds(c, h)
      BY <1>4 DEF CurrentRevision
    <2>2. h.rev \in 0..rev
      BY <1>1, <2>1 DEF Closed, Open
    <2>3. UNCHANGED <<rev, history, isDestroyed>>
      BY <1>4 DEF CurrentRevision, stateVars
    <2> QED
      BY <1>1, <2>1, <2>2, <2>3, HoldsLooks DEF Versioned!Next
  <1>5. ASSUME NEW c \in Clients, Refresh(c) PROVE Abstract
    BY <1>2, <1>4, <1>5 DEF Refresh
  <1>6. ASSUME NEW c \in Clients, NEW r \in 0..MaxRev, GetRevision(c, r) PROVE Abstract
    <2>1. PICK h \in {Closed, Open(r, attrs)} : Holds(c, h)
      BY <1>6 DEF GetRevision
    <2>2. h.rev \in 0..rev
      BY <1>1, <1>6, <2>1, MaxRevAssumption DEF Closed, Open, GetRevision
    <2>3. UNCHANGED <<rev, history, isDestroyed>>
      BY <1>6 DEF GetRevision, stateVars
    <2> QED
      BY <1>1, <2>1, <2>2, <2>3, HoldsLooks DEF Versioned!Next
  <1>7. ASSUME NEW c \in Clients, NEW ns \in Namespaces, NEW l \in Lists, Update(c, ns, l)
        PROVE  Abstract
    <2>1. CASE TryUpdate(handle[c].rev, ns, l) /\ Holds(c, Open(rev', attrs'))
      <3>1. Appends
        BY <1>1, <2>1, ListsAssumption, UpdateAppends
      <3>2. handle[c].rev = rev
        BY <2>1 DEF TryUpdate, CanUpdate, Accepts
      <3> QED
        BY <2>1, <3>1, <3>2, CommitImplements DEF Versioned!Next
    <2> QED
      BY <1>2, <1>7, <2>1 DEF Update
  <1>8. ASSUME NEW c \in Clients, NEW ns \in Namespaces, Clear(c, ns) PROVE Abstract
    <2>1. CASE TryClear(handle[c].rev, ns) /\ Holds(c, Open(rev', attrs'))
      <3>1. Appends
        BY <1>1, <2>1, ClearAppends
      <3>2. handle[c].rev = rev
        BY <2>1 DEF TryClear, CanClear, Accepts
      <3> QED
        BY <2>1, <3>1, <3>2, CommitImplements DEF Versioned!Next
    <2> QED
      BY <1>2, <1>8, <2>1 DEF Clear
  <1>9. ASSUME NEW c \in Clients, RevisionDestroy(c) PROVE Abstract
    BY <1>2, <1>3, <1>9 DEF RevisionDestroy, DestroyBegin
  <1>10. ASSUME NEW c \in Clients, SessionDestroy(c) PROVE Abstract
    BY <1>2, <1>3, <1>10 DEF SessionDestroy, DestroyBegin
  <1>11. ASSUME NEW c \in Clients, CallBegin(c) \/ Send(c) PROVE Abstract
    BY <1>11 DEF CallBegin, Send, IssueID, Versioned!vars
  <1>12. ASSUME NEW c \in Clients, CallEnd(c) \/ RegisterBegin(c) \/ SetAsyncHandler(c)
                                   \/ DestroyEnd(c)
         PROVE  Abstract
    BY <1>2, <1>12 DEF CallEnd, RegisterBegin, SetAsyncHandler, RegisterEnd, DestroyEnd
  <1>13. ASSUME NEW c \in Clients, NEW ns \in Namespaces, Listen(c, ns) \/ Unlisten(c, ns)
         PROVE  Abstract
    BY <1>2, <1>13 DEF Listen, Unlisten, Register, RegisterEnd
  <1>14. ASSUME NEW c \in Clients, UseClosed(c) \/ UseDestroyed(c) PROVE Abstract
    BY <1>2, <1>14 DEF UseClosed, UseDestroyed
  <1>15. CASE CloseDone \/ RemoveFromStore \/ ListenerStops \/ ExecuteAbandoned
    BY <1>2, <1>15 DEF CloseDone, RemoveFromStore, ListenerStops, ExecuteAbandoned
  <1>16. CASE UNCHANGED vars
    BY <1>2, <1>16 DEF vars
  <1> QED
    BY <1>4, <1>5, <1>6, <1>7, <1>8, <1>9, <1>10, <1>11, <1>12, <1>13, <1>14, <1>15, <1>16
    DEF Next, ClientStep

(* A session is a list of versions, each added on top of the version that
   the client was looking at. *)
THEOREM Implements == Spec => ImplementsVersioned
  BY InitImplements, NextImplements, TableInvariant, PTL
  DEF Spec, ImplementsVersioned, Versioned!Spec
=============================================================================
