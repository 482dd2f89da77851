--------------------------- MODULE ListenerProofs ---------------------------
(***************************************************************************)
(* The safety properties of Listener, for any callers, sessions,           *)
(* namespaces and dispatchers.                                             *)
(***************************************************************************)
EXTENDS Listener, FiniteSetTheorems, TLAPS

(* Who may be in Do(): a caller that holds a session's lock.  A reader's
   session is not destroyed, and that of a destroy is marked. *)
CallersSound ==
    \A c \in Callers :
        /\ do[c] # "none" => op[c].kind \in {"listen", "unlisten", "destroy"}
        /\ op[c].kind \in {"listen", "unlisten"} => op[c].sess \notin isDestroyed
        /\ op[c].kind = "destroy" /\ do[c] # "none" => op[c].sess \in isDestroyed

(* Unless a stop made it leave, the caller of the request that is executed
   waits for it. *)
RequestOwned ==
    request # NoRequest /\ ~IsStopping =>
        /\ do[request.by] = "accepted"
        /\ op[request.by].kind = request.kind
        /\ op[request.by].sess = request.sess

(* A destroy that has been answered has removed the handlers, for good. *)
Forgotten ==
    ~IsStopping =>
        /\ \A s \in done : handlers[s] = {}
        /\ \A c \in Callers :
              op[c].kind = "destroy" /\ do[c] = "replied" => handlers[op[c].sess] = {}

(* A failed unlisten may leave a count too large, never too small. *)
CountsCover == \A ns \in Namespaces : count[ns] >= Cardinality(Holders(ns))

(* Every dispatcher at work has been counted; those that left when the
   listener had stopped may be counted still. *)
Active == {d \in Dispatchers : job[d].at # "idle"}

PendingCovers == pending >= Cardinality(Active)

ListenerInv ==
    /\ TypeOK
    /\ CallersSound
    /\ RequestOwned
    /\ Forgotten
    /\ CountsCover
    /\ BindingsMatch
    /\ PendingCovers

-----------------------------------------------------------------------------
(* The operation and the job of those who do nothing. *)
LEMMA IdleType == NoOp \in Ops /\ NoJob \in Jobs
  BY SetsAssumption DEF NoOp, NoJob, Ops, Jobs, Kinds, Places

(* The sets that are counted are finite, so that their sizes are numbers. *)
LEMMA CountedSets ==
    /\ IsFiniteSet(Active) /\ Cardinality(Active) \in Nat
    /\ \A ns : IsFiniteSet(Holders(ns)) /\ Cardinality(Holders(ns)) \in Nat
    /\ \A ns : Cardinality(Holders(ns)) = 0 <=> Holders(ns) = {}
  <1>1. IsFiniteSet(Active)
    BY SetsAssumption, FS_Subset, Active \in SUBSET Dispatchers DEF Active
  <1>2. \A ns : IsFiniteSet(Holders(ns))
    BY SetsAssumption, FS_Subset, \A ns : Holders(ns) \in SUBSET Sessions DEF Holders
  <1> QED
    BY <1>1, <1>2, FS_CardinalityType, FS_EmptySet

(* Nothing is wrong when the listener starts. *)
LEMMA InitInv == Init => ListenerInv
  <1> SUFFICES ASSUME Init PROVE ListenerInv
    OBVIOUS
  <1> USE DEF Init, SMInit, StopInit
  <1>1. TypeOK
    BY IdleType DEF TypeOK, SMTypeOK, StopTypeOK, DoPhases, Phases
  <1>2. CallersSound /\ RequestOwned /\ Forgotten
    BY DEF CallersSound, RequestOwned, Forgotten, NoOp
  <1>3. Active = {} /\ \A ns \in Namespaces : Holders(ns) = {}
    BY DEF Active, Holders, NoJob
  <1>4. CountsCover /\ BindingsMatch /\ PendingCovers
    BY <1>3, FS_EmptySet DEF CountsCover, BindingsMatch, PendingCovers
  <1> QED
    BY <1>1, <1>2, <1>4 DEF ListenerInv

-----------------------------------------------------------------------------
(***************************************************************************)
(* What each kind of step leaves alone.                                    *)
(***************************************************************************)
TableFrame   == UNCHANGED tableVars /\ (channelOpen' = channelOpen \/ ~channelOpen')
PendingFrame == UNCHANGED <<job, pending>>
StopFrame    == IsStopping => IsStopping'

(* The callers touch neither the tables nor the dispatchers. *)
LEMMA CallerFrame ==
    ASSUME NEW c \in Callers, CallerStep(c)
    PROVE  UNCHANGED <<stopVars, phase, request, tableVars, pending, channelOpen, job>>
  BY DEF CallerStep, CallerGoesOn, RegisterBegin, LockBegin, Write, Destroy, Return,
         CallerUnchanged

(* The dispatchers touch only what counts them. *)
LEMMA DispatcherFrame ==
    ASSUME NEW d \in Dispatchers, DispatchStep(d)
    PROVE  UNCHANGED <<stopVars, do, op, sessVars, phase, request, tableVars, channelOpen>>
  BY DEF DispatchStep, Deliver, DispatcherGoesOn, FindUnicastTarget, FindMulticastTargets,
         MatchConstraint, NextTarget, LookUp, Invoke, HandlerReturns, Settle, Leave,
         Moves, DispatchUnchanged

(* Stops, and the loss of the channel, change nothing else. *)
LEMMA StopsFrame ==
    ASSUME MachineStops \/ StopRequest \/ ChannelFails
    PROVE  /\ UNCHANGED <<do, op, sessVars, request, tableVars, pending, job>>
           /\ channelOpen' = channelOpen \/ ~channelOpen'
  BY DEF MachineStops, LeaveRun, StopConsuming, WaitForHandlers, Finalize, StopRequest,
         ChannelFails, MachineUnchanged, EnvironmentUnchanged

(* Only the execution of a request changes the tables, and a channel that is
   closed stays closed. *)
LEMMA NextTableFrame ==
    ASSUME [Next]_vars PROVE Execute \/ TableFrame
  <1> USE DEF TableFrame
  <1>1. ASSUME NEW c \in Callers, CallerStep(c) PROVE TableFrame
    BY <1>1, CallerFrame
  <1>2. ASSUME NEW c \in Callers, Accept(c) PROVE TableFrame
    BY <1>2 DEF Accept
  <1>3. ASSUME NEW d \in Dispatchers, DispatchStep(d) PROVE TableFrame
    BY <1>3, DispatcherFrame
  <1>4. ASSUME MachineStops \/ StopRequest \/ ChannelFails PROVE TableFrame
    BY <1>4, StopsFrame
  <1>5. CASE UNCHANGED vars
    BY <1>5 DEF vars
  <1> QED
    BY <1>1, <1>2, <1>3, <1>4, <1>5 DEF Next, MachineStep

(* No stop is taken back. *)
LEMMA NextStopFrame ==
    ASSUME [Next]_vars PROVE StopFrame
  <1> USE DEF StopFrame, IsStopping, stopVars
  <1>1. ASSUME NEW c \in Callers, CallerStep(c) PROVE StopFrame
    BY <1>1, CallerFrame
  <1>2. ASSUME NEW d \in Dispatchers, DispatchStep(d) PROVE StopFrame
    BY <1>2, DispatcherFrame
  <1>3. ASSUME NEW c \in Callers, Accept(c) PROVE StopFrame
    BY <1>3 DEF Accept
  <1>4. CASE Execute
    BY <1>4 DEF Execute
  <1>5. CASE MachineStops
    BY <1>5 DEF MachineStops, LeaveRun, StopConsuming, WaitForHandlers, Finalize, Close
  <1>6. CASE StopRequest \/ ChannelFails
    BY <1>6 DEF StopRequest, ChannelFails, Stop, GracefulStop
  <1>7. CASE UNCHANGED vars
    BY <1>7 DEF vars
  <1> QED
    BY <1>1, <1>2, <1>3, <1>4, <1>5, <1>6, <1>7 DEF Next, MachineStep

-----------------------------------------------------------------------------
(***************************************************************************)
(* The tables of the listener.                                             *)
(***************************************************************************)
(* What listening to a namespace, and ceasing to, do to the holders of it. *)
LEMMA HoldersStep ==
    ASSUME handlers \in [Sessions -> SUBSET Namespaces],
           NEW s \in Sessions, NEW S \in SUBSET Namespaces,
           handlers' = [handlers EXCEPT ![s] = S],
           NEW ns \in Namespaces
    PROVE  Holders(ns)' = IF ns \in S THEN Holders(ns) \cup {s} ELSE Holders(ns) \ {s}
  BY DEF Holders

(* The queue is bound to what has a positive count. *)
LEMMA BindingStep ==
    ASSUME count' \in [Namespaces -> Nat], bound' = BoundTo(count'),
           handlers' \in [Sessions -> SUBSET Namespaces],
           channelOpen' = channelOpen,
           channelOpen => \A ns \in Namespaces : count'[ns] = Cardinality(Holders(ns)')
    PROVE  BindingsMatch'
  <1>1. \A ns \in Namespaces : Cardinality(Holders(ns)') = 0 <=> Holders(ns)' = {}
    <2>1. \A ns \in Namespaces : Holders(ns)' \in SUBSET Sessions
      BY DEF Holders
    <2> QED
      BY <2>1, SetsAssumption, FS_Subset, FS_EmptySet
  <1>2. channelOpen => \A ns \in Namespaces : ns \in bound' <=> Holders(ns)' # {}
    BY <1>1 DEF BoundTo
  <1>3. channelOpen => bound' = UNION {handlers'[s] : s \in Sessions}
    <2>1. \A ns \in Namespaces :
              Holders(ns)' # {} <=> ns \in UNION {handlers'[s] : s \in Sessions}
      BY DEF Holders
    <2>2. UNION {handlers'[s] : s \in Sessions} \subseteq Namespaces
      OBVIOUS
    <2> QED
      BY <1>2, <2>1, <2>2 DEF BoundTo
  <1> QED
    BY <1>3 DEF BindingsMatch

TableInv == CountsCover /\ BindingsMatch

TableTypeOK ==
    /\ handlers \in [Sessions -> SUBSET Namespaces]
    /\ count \in [Namespaces -> Nat]
    /\ bound \subseteq Namespaces

(* One session gains or loses namespaces; each that is counted on or off is
   one that it gained or lost.  All are, as long as the channel is open. *)
LEMMA CountStep ==
    ASSUME TableTypeOK, TableInv, channelOpen' = channelOpen,
           NEW s \in Sessions, NEW S \in SUBSET Namespaces, NEW N \in SUBSET Namespaces,
           handlers' = [handlers EXCEPT ![s] = S],
           \/ /\ handlers[s] \subseteq S /\ N = S \ handlers[s]
              /\ count' = [ns \in Namespaces |-> IF ns \in N THEN count[ns] + 1 ELSE count[ns]]
           \/ /\ S \subseteq handlers[s] /\ N \subseteq handlers[s] \ S
              /\ channelOpen => N = handlers[s] \ S
              /\ count' = [ns \in Namespaces |-> IF ns \in N THEN count[ns] - 1 ELSE count[ns]],
           bound' = BoundTo(count')
    PROVE  TableTypeOK' /\ TableInv'
  <1> USE DEF TableTypeOK
  <1> DEFINE Before(ns) == Cardinality(Holders(ns))
             After(ns)  == Cardinality(Holders(ns)')
  <1>1. ASSUME NEW ns \in Namespaces
        PROVE  /\ Before(ns) \in Nat /\ After(ns) \in Nat
               /\ ns \in handlers[s] => Before(ns) >= 1
               /\ After(ns) = IF ns \in S \ handlers[s] THEN Before(ns) + 1
                              ELSE IF ns \in handlers[s] \ S THEN Before(ns) - 1
                              ELSE Before(ns)
    <2>1. Holders(ns)' = IF ns \in S THEN Holders(ns) \cup {s} ELSE Holders(ns) \ {s}
      BY HoldersStep
    <2>2. IsFiniteSet(Holders(ns)) /\ Before(ns) \in Nat
      BY CountedSets
    <2>3. s \in Holders(ns) <=> ns \in handlers[s]
      BY DEF Holders
    <2>4. Cardinality(Holders(ns) \cup {s}) =
              IF s \in Holders(ns) THEN Before(ns) ELSE Before(ns) + 1
      BY <2>2, FS_AddElement
    <2>5. Cardinality(Holders(ns) \ {s}) =
              IF s \in Holders(ns) THEN Before(ns) - 1 ELSE Before(ns)
      BY <2>2, FS_RemoveElement
    <2>6. ns \in handlers[s] => Before(ns) >= 1
      <3>1. ns \in handlers[s] => Before(ns) # 0
        BY <2>3, CountedSets
      <3> QED
        BY <3>1, <2>2
    <2>7. CASE ns \in S
      BY <2>1, <2>2, <2>3, <2>4, <2>6, <2>7
    <2>8. CASE ns \notin S
      BY <2>1, <2>2, <2>3, <2>5, <2>6, <2>8
    <2> QED
      BY <2>7, <2>8
  <1>2. \A ns \in Namespaces : count[ns] \in Nat /\ count[ns] >= Before(ns)
    BY DEF TableInv, CountsCover
  <1>3. \A ns \in Namespaces : count'[ns] \in Nat /\ count'[ns] >= After(ns)
    <2> SUFFICES ASSUME NEW ns \in Namespaces
                 PROVE  count'[ns] \in Nat /\ count'[ns] >= After(ns)
      OBVIOUS
    <2> HIDE DEF Before, After
    <2> QED
      BY <1>1, <1>2
  <1>4. channelOpen => \A ns \in Namespaces : count'[ns] = After(ns)
    <2> SUFFICES ASSUME channelOpen, NEW ns \in Namespaces PROVE count'[ns] = After(ns)
      OBVIOUS
    <2>1. count[ns] = Before(ns)
      BY DEF TableInv, BindingsMatch
    <2> HIDE DEF Before, After
    <2> QED
      BY <1>1, <2>1
  <1>5. TableTypeOK'
    <2>1. count' \in [Namespaces -> Nat]
      BY <1>3
    <2> QED
      BY <2>1 DEF BoundTo
  <1>6. CountsCover'
    BY <1>3 DEF CountsCover
  <1>7. BindingsMatch'
    BY <1>4, <1>5, BindingStep
  <1> QED
    BY <1>5, <1>6, <1>7 DEF TableInv

(* Every request keeps the tables sound, and so does every other step. *)
LEMMA NextTableInv ==
    ASSUME TypeOK, TableInv, [Next]_vars
    PROVE  TableTypeOK' /\ TableInv'
  <1>1. TableTypeOK
    BY DEF TypeOK, TableTypeOK
  <1>2. CASE TableFrame
    BY <1>1, <1>2 DEF TableFrame, tableVars, TableTypeOK, TableInv, CountsCover, BindingsMatch,
                      Holders
  <1>3. CASE Execute
    <2> DEFINE s == request.sess
               n == request.ns
    <2>1. /\ channelOpen' = channelOpen
          /\ Listen(s, n) \/ Unlisten(s, n) \/ UnlistenAll(s)
          /\ s \in Sessions /\ n \in Namespaces
      BY <1>3 DEF Execute, TypeOK, Requests
    <2> HIDE DEF s, n
    <2>2. CASE TableUnchanged
      BY <1>2, <2>1, <2>2 DEF TableUnchanged, TableFrame
    <2>3. CASE Listen(s, n) /\ n \notin handlers[s]
      <3> DEFINE S == handlers[s] \cup {n}
      <3>1. /\ S \in SUBSET Namespaces /\ {n} \in SUBSET Namespaces
            /\ handlers' = [handlers EXCEPT ![s] = S]
            /\ handlers[s] \subseteq S /\ {n} = S \ handlers[s]
            /\ count' = [ns \in Namespaces |->
                            IF ns \in {n} THEN count[ns] + 1 ELSE count[ns]]
            /\ bound' = BoundTo(count')
        BY <1>1, <2>1, <2>3 DEF Listen, TableTypeOK
      <3> QED
        BY <1>1, <2>1, <3>1, CountStep
    <2>4. CASE Unlisten(s, n) /\ n \in handlers[s]
      <3> DEFINE S == handlers[s] \ {n}
      <3>1. /\ S \in SUBSET Namespaces /\ {n} \in SUBSET Namespaces
            /\ handlers' = [handlers EXCEPT ![s] = S]
            /\ S \subseteq handlers[s] /\ {n} = handlers[s] \ S
            /\ count' = [ns \in Namespaces |->
                            IF ns \in {n} THEN count[ns] - 1 ELSE count[ns]]
            /\ bound' = BoundTo(count')
        BY <1>1, <2>1, <2>4 DEF Unlisten, TableTypeOK
      <3> QED
        BY <1>1, <2>1, <3>1, CountStep
    <2>5. CASE UnlistenAll(s)
      <3>1. PICK N \in SUBSET handlers[s] :
                /\ channelOpen => N = handlers[s]
                /\ count' = [ns \in Namespaces |->
                                IF ns \in N THEN count[ns] - 1 ELSE count[ns]]
        BY <2>5 DEF UnlistenAll
      <3>2. /\ N \in SUBSET Namespaces /\ {} \in SUBSET Namespaces
            /\ handlers' = [handlers EXCEPT ![s] = {}]
            /\ {} \subseteq handlers[s] /\ N \subseteq handlers[s] \ {}
            /\ channelOpen => N = handlers[s] \ {}
            /\ bound' = BoundTo(count')
        BY <1>1, <2>1, <2>5, <3>1 DEF UnlistenAll, TableTypeOK
      <3> QED
        BY <1>1, <2>1, <3>1, <3>2, CountStep
    <2> QED
      BY <2>1, <2>2, <2>3, <2>4, <2>5 DEF Listen, Unlisten
  <1> QED
    BY <1>2, <1>3, NextTableFrame

-----------------------------------------------------------------------------
(***************************************************************************)
(* The dispatchers.                                                        *)
(***************************************************************************)
PendingTypeOK == pending \in Nat /\ job \in [Dispatchers -> Jobs]

(* A notification is counted before its dispatcher starts, and the dispatcher
   has left when it is counted off. *)
LEMMA NextPendingInv ==
    ASSUME TypeOK, PendingCovers, [Next]_vars
    PROVE  PendingTypeOK' /\ PendingCovers'
  <1>0. PendingTypeOK /\ IsFiniteSet(Active) /\ Cardinality(Active) \in Nat
    BY CountedSets DEF TypeOK, PendingTypeOK
  <1>1. CASE PendingFrame
    BY <1>0, <1>1 DEF PendingFrame, PendingTypeOK, PendingCovers, Active
  <1>2. ASSUME NEW d \in Dispatchers, NEW ns \in Namespaces, Deliver(d, ns)
        PROVE  PendingTypeOK' /\ PendingCovers'
    <2>1. PendingTypeOK'
      <3>1. [NoJob EXCEPT !.at = "find", !.ns = ns] \in Jobs
        BY IdleType DEF Jobs, Places
      <3> QED
        BY <1>0, <1>2, <3>1 DEF Deliver, PendingTypeOK
    <2>2. Active' = Active \cup {d}
      BY <1>0, <1>2 DEF Deliver, PendingTypeOK, Active, NoJob
    <2>3. Cardinality(Active') <= Cardinality(Active) + 1 /\ Cardinality(Active') \in Nat
      <3>1. Cardinality(Active \cup {d}) \in {Cardinality(Active), Cardinality(Active) + 1}
        BY <1>0, FS_AddElement
      <3> QED
        BY <1>0, <2>2, <3>1
    <2>4. pending' = pending + 1 /\ pending \in Nat /\ pending >= Cardinality(Active)
      BY <1>0, <1>2 DEF Deliver, PendingCovers, PendingTypeOK
    <2> QED
      BY <1>0, <2>1, <2>3, <2>4 DEF PendingCovers
  <1>3. ASSUME NEW d \in Dispatchers, Leave(d) PROVE PendingTypeOK' /\ PendingCovers'
    <2>1. d \in Active /\ Active' = Active \ {d}
      BY <1>0, <1>3 DEF Leave, PendingTypeOK, Active, NoJob
    <2>2. Cardinality(Active') = Cardinality(Active) - 1 /\ Cardinality(Active) # 0
      BY <1>0, <2>1, FS_RemoveElement, FS_EmptySet
    <2>3. pending \in Nat /\ pending >= Cardinality(Active) /\ pending' \in {pending - 1, pending}
      BY <1>0, <1>3 DEF Leave, PendingCovers, PendingTypeOK
    <2>4. job' \in [Dispatchers -> Jobs]
      BY <1>0, <1>3, IdleType DEF Leave, PendingTypeOK
    <2> QED
      BY <1>0, <2>2, <2>3, <2>4 DEF PendingCovers, PendingTypeOK
  <1>4. ASSUME NEW d \in Dispatchers, NEW j \in Jobs, job[d].at # "idle", Moves(d, j)
        PROVE  PendingTypeOK' /\ PendingCovers'
    <2>1. PendingTypeOK'
      BY <1>0, <1>4 DEF Moves, PendingTypeOK
    <2>2. Active' \in SUBSET Active
      BY <1>0, <1>4 DEF Moves, PendingTypeOK, Active
    <2>3. Cardinality(Active') <= Cardinality(Active) /\ Cardinality(Active') \in Nat
      BY <1>0, <2>2, FS_Subset, FS_CardinalityType
    <2>4. pending' = pending /\ pending \in Nat /\ pending >= Cardinality(Active)
      BY <1>0, <1>4 DEF Moves, PendingCovers, PendingTypeOK
    <2> QED
      BY <1>0, <2>1, <2>3, <2>4 DEF PendingCovers
  <1>5. ASSUME NEW d \in Dispatchers, DispatchStep(d), ~Leave(d),
               \A ns \in Namespaces : ~Deliver(d, ns)
        PROVE  \E j \in Jobs : job[d].at # "idle" /\ Moves(d, j)
    <2> USE <1>0 DEF PendingTypeOK, Jobs, Places
    <2>1. CASE FindUnicastTarget(d) \/ FindMulticastTargets(d)
      BY <2>1 DEF FindUnicastTarget, FindMulticastTargets
    <2>2. ASSUME NEW s \in Sessions, MatchConstraint(d, s) \/ NextTarget(d, s)
          PROVE  \E j \in Jobs : job[d].at # "idle" /\ Moves(d, j)
      BY <2>2 DEF MatchConstraint, NextTarget
    <2>3. CASE LookUp(d) \/ Invoke(d) \/ HandlerReturns(d) \/ Settle(d)
      BY <2>3 DEF LookUp, Invoke, HandlerReturns, Settle
    <2> QED
      BY <1>5, <2>1, <2>2, <2>3 DEF DispatchStep, DispatcherGoesOn
  <1>6. ASSUME NEW d \in Dispatchers, DispatchStep(d)
        PROVE  PendingTypeOK' /\ PendingCovers'
    BY <1>2, <1>3, <1>4, <1>5, <1>6
  <1>7. ASSUME NEW c \in Callers, CallerStep(c) \/ Accept(c) PROVE PendingFrame
    BY <1>7, CallerFrame DEF PendingFrame, Accept
  <1>8. ASSUME Execute \/ MachineStops \/ StopRequest \/ ChannelFails PROVE PendingFrame
    BY <1>8, StopsFrame DEF PendingFrame, Execute
  <1>9. CASE UNCHANGED vars
    BY <1>1, <1>9 DEF PendingFrame, vars
  <1> QED
    BY <1>1, <1>6, <1>7, <1>8, <1>9 DEF Next, MachineStep

-----------------------------------------------------------------------------
(***************************************************************************)
(* The callers.                                                            *)
(***************************************************************************)
CallerTypeOK ==
    /\ do \in [Callers -> DoPhases]
    /\ op \in [Callers -> Ops]
    /\ isDestroyed \subseteq Sessions
    /\ done \subseteq isDestroyed

(* The locks keep a reader's session from being destroyed, and a destroy
   marks the session before it asks the listener. *)
LEMMA NextCallersSound ==
    ASSUME TypeOK, CallersSound, [Next]_vars
    PROVE  CallerTypeOK' /\ CallersSound'
  <1>0. CallerTypeOK
    BY DEF TypeOK, SMTypeOK, StopTypeOK, CallerTypeOK
  <1> USE <1>0 DEF CallerTypeOK, CallersSound
  <1>1. CASE UNCHANGED <<do, op, sessVars>>
    BY <1>1 DEF sessVars
  <1>2. ASSUME NEW c \in Callers, NEW s \in Sessions, NEW ns \in Namespaces,
               NEW kind \in {"listen", "unlisten"}, RegisterBegin(c, kind, s, ns)
        PROVE  CallerTypeOK' /\ CallersSound'
    <2>1. [kind |-> kind, sess |-> s, ns |-> ns] \in Ops
      BY DEF Ops, Kinds
    <2> QED
      BY <1>2, <2>1 DEF RegisterBegin, DoOffer, InPhase, DoPhases, sessVars
  <1>3. ASSUME NEW c \in Callers, NEW s \in Sessions, NEW kind \in {"write", "destroy"},
               LockBegin(c, kind, s)
        PROVE  CallerTypeOK' /\ CallersSound'
    <2>1. [NoOp EXCEPT !.kind = kind, !.sess = s] \in Ops
      BY IdleType DEF Ops, Kinds
    <2>2. do[c] = "none"
      BY <1>3 DEF LockBegin, Free, NoOp
    <2>3. [NoOp EXCEPT !.kind = kind, !.sess = s].kind \notin {"listen", "unlisten"}
      BY IdleType DEF Ops
    <2>4. op' = [op EXCEPT ![c] = [NoOp EXCEPT !.kind = kind, !.sess = s]]
      BY <1>3 DEF LockBegin
    <2>5. UNCHANGED <<do, isDestroyed, done>>
      BY <1>3 DEF LockBegin, sessVars
    <2> QED
      BY <2>1, <2>2, <2>3, <2>4, <2>5
  <1>4. ASSUME NEW c \in Callers, Write(c) PROVE CallerTypeOK' /\ CallersSound'
    BY <1>4, IdleType DEF Write, NoOp, sessVars
  <1>5. ASSUME NEW c \in Callers, Destroy(c) PROVE CallerTypeOK' /\ CallersSound'
    <2>1. op[c].sess \in Sessions /\ op[c].kind = "destroy"
      BY <1>5 DEF Destroy, Ops
    <2>2. \A b \in Callers : op[b].kind \in {"listen", "unlisten"} => op[b].sess # op[c].sess
      BY <1>5 DEF Destroy, CanWrite, ReadersOf
    <2> QED
      BY <1>5, <2>1, <2>2 DEF Destroy, DoOffer, InPhase, DoPhases
  <1>6. ASSUME NEW c \in Callers, Return(c) PROVE CallerTypeOK' /\ CallersSound'
    <2>1. do[c] # "none" /\ do' = [do EXCEPT ![c] = "none"]
      BY <1>6 DEF Return, DoReturn, DoRefuse, InPhase
    <2>2. /\ op' = [op EXCEPT ![c] = NoOp]
          /\ isDestroyed' = isDestroyed /\ done' \subseteq isDestroyed
      BY <1>6, <2>1 DEF Return
    <2> QED
      BY <2>1, <2>2, IdleType DEF NoOp, DoPhases
  <1>7. ASSUME NEW c \in Callers, Accept(c) PROVE CallerTypeOK' /\ CallersSound'
    BY <1>7 DEF Accept, DoAccept, InPhase, DoPhases, sessVars
  <1>8. CASE Execute
    <2>1. do' = do \/ \E b : do[b] = "accepted" /\ do' = [do EXCEPT ![b] = "replied"]
      BY <1>8 DEF Execute, DoReply, InPhase
    <2>2. UNCHANGED <<op, isDestroyed, done>>
      BY <1>8 DEF Execute, sessVars
    <2> QED
      BY <2>1, <2>2 DEF DoPhases
  <1>9. ASSUME NEW d \in Dispatchers, DispatchStep(d) PROVE CallerTypeOK' /\ CallersSound'
    BY <1>1, <1>9, DispatcherFrame
  <1>10. CASE MachineStops \/ StopRequest \/ ChannelFails
    BY <1>1, <1>10, StopsFrame
  <1>11. CASE UNCHANGED vars
    BY <1>1, <1>11 DEF vars
  <1> QED
    BY <1>2, <1>3, <1>4, <1>5, <1>6, <1>7, <1>8, <1>9, <1>10, <1>11
       DEF Next, MachineStep, CallerStep, CallerGoesOn

(* The channels, the states and the request. *)
MachineTypeOK ==
    /\ graceful \in BOOLEAN /\ forceful \in BOOLEAN /\ finalized \in BOOLEAN
    /\ phase \in Phases
    /\ request \in Requests \cup {NoRequest}
    /\ channelOpen \in BOOLEAN

(* Run(), Stop() and the states leave them of their types. *)
LEMMA NextMachineTypeOK ==
    ASSUME TypeOK, [Next]_vars PROVE MachineTypeOK'
  <1>0. MachineTypeOK
    BY DEF TypeOK, SMTypeOK, StopTypeOK, MachineTypeOK
  <1> USE <1>0 DEF MachineTypeOK, stopVars
  <1>1. CASE UNCHANGED <<stopVars, phase, request, channelOpen>>
    BY <1>1
  <1>2. ASSUME NEW c \in Callers, CallerStep(c) PROVE MachineTypeOK'
    BY <1>1, <1>2, CallerFrame
  <1>3. ASSUME NEW d \in Dispatchers, DispatchStep(d) PROVE MachineTypeOK'
    BY <1>1, <1>3, DispatcherFrame
  <1>4. ASSUME NEW c \in Callers, Accept(c) PROVE MachineTypeOK'
    <2>1. request' \in Requests
      BY <1>4 DEF Accept, TypeOK, Ops, Requests
    <2> QED
      BY <1>4, <2>1 DEF Accept
  <1>5. CASE Execute
    BY <1>5 DEF Execute
  <1>6. CASE MachineStops
    BY <1>6 DEF MachineStops, LeaveRun, StopConsuming, WaitForHandlers, Finalize, Close,
                MachineUnchanged, Phases
  <1>7. CASE StopRequest \/ ChannelFails
    BY <1>7 DEF StopRequest, ChannelFails, Stop, GracefulStop, EnvironmentUnchanged
  <1>8. CASE UNCHANGED vars
    BY <1>1, <1>8 DEF vars
  <1> QED
    BY <1>2, <1>3, <1>4, <1>5, <1>6, <1>7, <1>8 DEF Next, MachineStep

-----------------------------------------------------------------------------
(***************************************************************************)
(* Requests and what they leave behind.                                    *)
(***************************************************************************)
(* Unless it stops, a step of a caller is not one of a caller whose request
   has been accepted, and it leaves the other callers alone. *)
LEMMA CallerWaits ==
    ASSUME TypeOK, CallersSound, NEW c \in Callers, CallerStep(c), ~IsStopping
    PROVE  /\ do[c] # "accepted"
           /\ \A b \in Callers : b # c => do'[b] = do[b] /\ op'[b] = op[b]
  <1>1. do \in [Callers -> DoPhases] /\ op \in [Callers -> Ops]
    BY DEF TypeOK, SMTypeOK, StopTypeOK
  <1>2. op[c] = NoOp => do[c] = "none"
    BY DEF CallersSound, NoOp
  <1> QED
    BY <1>1, <1>2 DEF CallerStep, CallerGoesOn, RegisterBegin, LockBegin, Write, Destroy,
       Return, Free, DoOffer, DoReturn, DoRefuse, InPhase

(* Until a stop, a caller whose request has been accepted does not leave. *)
LEMMA NextRequestOwned ==
    ASSUME ListenerInv, [Next]_vars
    PROVE  RequestOwned'
  <1>0. /\ TypeOK /\ CallersSound /\ StopFrame
        /\ do \in [Callers -> DoPhases] /\ op \in [Callers -> Ops]
    BY NextStopFrame DEF ListenerInv, TypeOK, SMTypeOK, StopTypeOK
  <1>1. CASE IsStopping'
    BY <1>1 DEF RequestOwned
  <1>2. CASE ~IsStopping
    <2>1. /\ request \in Requests \cup {NoRequest}
          /\ request # NoRequest =>
                /\ request.by \in Callers
                /\ do[request.by] = "accepted"
                /\ op[request.by].kind = request.kind
                /\ op[request.by].sess = request.sess
      BY <1>2 DEF ListenerInv, TypeOK, RequestOwned, Requests
    <2>2. CASE UNCHANGED <<do, op, request>>
      BY <2>1, <2>2 DEF RequestOwned
    <2>3. ASSUME NEW c \in Callers, CallerStep(c) PROVE RequestOwned'
      <3>1. request' = request
        BY <2>3, CallerFrame
      <3> QED
        BY <1>0, <1>2, <2>1, <2>3, <3>1, CallerWaits DEF RequestOwned
    <2>4. ASSUME NEW c \in Callers, Accept(c) PROVE RequestOwned'
      BY <1>0, <2>4 DEF Accept, DoAccept, InPhase, RequestOwned
    <2>5. CASE Execute
      BY <2>5 DEF Execute, RequestOwned
    <2>6. ASSUME NEW d \in Dispatchers, DispatchStep(d) PROVE RequestOwned'
      BY <2>2, <2>6, DispatcherFrame
    <2>7. CASE MachineStops \/ StopRequest \/ ChannelFails
      BY <2>2, <2>7, StopsFrame
    <2>8. CASE UNCHANGED vars
      BY <2>2, <2>8 DEF vars
    <2> QED
      BY <2>3, <2>4, <2>5, <2>6, <2>7, <2>8 DEF Next, MachineStep
  <1> QED
    BY <1>0, <1>1, <1>2 DEF StopFrame

(* What a session had registered when its destroy was answered stays
   forgotten: nobody who asks for it to listen holds its lock. *)
LEMMA NextForgotten ==
    ASSUME ListenerInv, [Next]_vars
    PROVE  Forgotten'
  <1>0. /\ TypeOK /\ CallersSound /\ StopFrame
        /\ do \in [Callers -> DoPhases] /\ op \in [Callers -> Ops]
        /\ handlers \in [Sessions -> SUBSET Namespaces]
        /\ done \subseteq isDestroyed /\ isDestroyed \subseteq Sessions
    BY NextStopFrame DEF ListenerInv, TypeOK, SMTypeOK, StopTypeOK
  <1>1. CASE IsStopping'
    BY <1>1 DEF Forgotten
  <1>2. CASE ~IsStopping
    <2>1. /\ \A s \in done : handlers[s] = {}
          /\ \A c \in Callers :
                op[c].kind = "destroy" /\ do[c] = "replied" => handlers[op[c].sess] = {}
      BY <1>2 DEF ListenerInv, Forgotten
    <2>2. CASE UNCHANGED <<do, op, sessVars, handlers>>
      BY <2>1, <2>2 DEF Forgotten, sessVars
    <2>3. ASSUME NEW c \in Callers, CallerStep(c) PROVE Forgotten'
      <3>1. handlers' = handlers
        BY <2>3, CallerFrame DEF tableVars
      <3>2. \A b \in Callers : b # c => do'[b] = do[b] /\ op'[b] = op[b]
        BY <1>0, <1>2, <2>3, CallerWaits
      <3>3. do'[c] # "replied"
        <4>1. op[c] = NoOp => do[c] = "none"
          BY <1>0 DEF CallersSound, NoOp
        <4> QED
          BY <1>0, <2>3, <4>1 DEF CallerStep, CallerGoesOn, RegisterBegin, LockBegin, Write,
             Destroy, Return, Free, DoOffer, DoReturn, DoRefuse, InPhase
      <3>4. \A s \in done' : handlers[s] = {}
        <4>1. CASE done' = done
          BY <2>1, <4>1
        <4>2. CASE Return(c)
          BY <1>0, <1>2, <2>1, <4>2 DEF Return, DoReturn, DoRefuse
        <4> QED
          BY <2>3, <4>1, <4>2 DEF CallerStep, CallerGoesOn, RegisterBegin, LockBegin, Write,
             Destroy, sessVars
      <3> QED
        BY <2>1, <3>1, <3>2, <3>3, <3>4 DEF Forgotten
    <2>4. ASSUME NEW c \in Callers, Accept(c) PROVE Forgotten'
      BY <1>0, <2>1, <2>4 DEF Accept, DoAccept, InPhase, Forgotten, sessVars, tableVars
    <2>5. CASE Execute
      <3> DEFINE s == request.sess
                 b == request.by
      <3>1. /\ s \in Sessions /\ b \in Callers
            /\ do[b] = "accepted" /\ op[b].kind = request.kind /\ op[b].sess = s
        BY <1>0, <1>2, <2>5 DEF Execute, ListenerInv, RequestOwned, TypeOK, Requests
      <3>2. UNCHANGED <<op, done>> /\ do' = [do EXCEPT ![b] = "replied"]
        BY <2>5, <3>1 DEF Execute, DoReply, InPhase, sessVars
      <3> HIDE DEF s, b
      <3>3. CASE op[b].kind = "listen"
        <4>1. s \notin done /\ \A c \in Callers :
                  op[c].kind = "destroy" /\ do[c] # "none" => op[c].sess # s
          BY <1>0, <3>1, <3>3 DEF CallersSound
        <4>2. \A t \in Sessions : t # s => handlers'[t] = handlers[t]
          BY <1>0, <2>5, <3>1, <3>3 DEF Execute, Listen, TableUnchanged, tableVars, s
        <4>3. \A t \in done : handlers'[t] = {}
          BY <1>0, <2>1, <4>1, <4>2
        <4>4. \A c \in Callers : op[c].sess \in Sessions
          BY <1>0 DEF Ops
        <4> QED
          BY <1>0, <2>1, <3>1, <3>2, <3>3, <4>1, <4>2, <4>3, <4>4 DEF Forgotten
      <3>4. CASE op[b].kind # "listen"
        <4>1. \A t \in Sessions : handlers'[t] \subseteq handlers[t]
          BY <1>0, <2>5, <3>1, <3>4 DEF Execute, Unlisten, UnlistenAll, TableUnchanged, tableVars, s
        <4>2. op[b].kind = "destroy" => handlers'[s] = {}
          BY <1>0, <2>5, <3>1, <3>4 DEF Execute, UnlistenAll, s
        <4>3. \A t \in done : handlers'[t] = {}
          BY <1>0, <2>1, <4>1
        <4>4. \A c \in Callers : op[c].sess \in Sessions
          BY <1>0 DEF Ops
        <4> QED
          BY <1>0, <2>1, <3>1, <3>2, <4>1, <4>2, <4>3, <4>4 DEF Forgotten
      <3> QED
        BY <3>3, <3>4
    <2>6. ASSUME NEW d \in Dispatchers, DispatchStep(d) PROVE Forgotten'
      BY <2>2, <2>6, DispatcherFrame DEF tableVars
    <2>7. CASE MachineStops \/ StopRequest \/ ChannelFails
      BY <2>2, <2>7, StopsFrame DEF tableVars
    <2>8. CASE UNCHANGED vars
      BY <2>2, <2>8 DEF vars, tableVars
    <2> QED
      BY <2>3, <2>4, <2>5, <2>6, <2>7, <2>8 DEF Next, MachineStep
  <1> QED
    BY <1>0, <1>1, <1>2 DEF StopFrame

-----------------------------------------------------------------------------
(***************************************************************************)
(* The theorems.                                                           *)
(***************************************************************************)
(* The invariant of the listener holds always. *)
LEMMA ListenerInvariant == Spec => []ListenerInv
  <1>1. ListenerInv /\ [Next]_vars => ListenerInv'
    <2> SUFFICES ASSUME ListenerInv, [Next]_vars PROVE ListenerInv'
      OBVIOUS
    <2>1. TypeOK /\ CallersSound /\ TableInv /\ PendingCovers
      BY DEF ListenerInv, TableInv
    <2>2. TableTypeOK' /\ TableInv'
      BY <2>1, NextTableInv
    <2>3. PendingTypeOK' /\ PendingCovers'
      BY <2>1, NextPendingInv
    <2>4. CallerTypeOK' /\ CallersSound'
      BY <2>1, NextCallersSound
    <2>5. MachineTypeOK'
      BY <2>1, NextMachineTypeOK
    <2>6. TypeOK'
      BY <2>2, <2>3, <2>4, <2>5
         DEF TableTypeOK, PendingTypeOK, CallerTypeOK, MachineTypeOK, TypeOK, SMTypeOK, StopTypeOK
    <2> QED
      BY <2>2, <2>3, <2>4, <2>6, NextRequestOwned, NextForgotten DEF ListenerInv, TableInv
  <1> QED
    BY <1>1, InitInv, PTL DEF Spec

(* The listener's variables keep their types: no count of handlers, and not
   the count of notifications, is ever decremented below zero. *)
THEOREM ListenerTypeCorrect == Spec => []TypeOK
  <1>1. ListenerInv => TypeOK
    BY DEF ListenerInv
  <1> QED
    BY <1>1, ListenerInvariant, PTL

(* While the channel is open the peer's queue is bound to the namespaces that
   sessions listen to, whatever listen, unlisten and destroy are mixed. *)
THEOREM BindingsCorrect == Spec => []BindingsMatch
  <1>1. ListenerInv => BindingsMatch
    BY DEF ListenerInv
  <1> QED
    BY <1>1, ListenerInvariant, PTL

(* waitForHandlers() ends only when no notification is being handled, unless
   the listener is stopped for good. *)
THEOREM GracefulStopCorrect == Spec => GracefulStopWaits
  <1> DEFINE Waits == (phase = "waitForHandlers" /\ phase' = "finalize" /\ ~forceful) =>
                          \A d \in Dispatchers : job[d].at = "idle"
  <1>1. ListenerInv /\ [Next]_vars => [Waits]_vars
    <2> SUFFICES ASSUME ListenerInv, Next,
                        phase = "waitForHandlers", phase' = "finalize", ~forceful
                 PROVE  \A d \in Dispatchers : job[d].at = "idle"
      OBVIOUS
    <2>1. WaitForHandlers
      <3>1. ASSUME NEW c \in Callers, CallerStep(c) PROVE FALSE
        BY <3>1, CallerFrame
      <3>2. ASSUME NEW d \in Dispatchers, DispatchStep(d) PROVE FALSE
        BY <3>2, DispatcherFrame
      <3>3. ASSUME NEW c \in Callers, Accept(c) PROVE FALSE
        BY <3>3 DEF Accept
      <3>4. CASE Execute
        BY <3>4 DEF Execute
      <3>5. CASE StopRequest \/ ChannelFails
        BY <3>5 DEF StopRequest, ChannelFails, EnvironmentUnchanged
      <3>6. CASE LeaveRun \/ StopConsuming \/ Finalize
        BY <3>6 DEF LeaveRun, StopConsuming, Finalize
      <3> QED
        BY <3>1, <3>2, <3>3, <3>4, <3>5, <3>6 DEF Next, MachineStep, MachineStops
    <2>2. pending = 0 /\ pending >= Cardinality(Active)
      BY <2>1 DEF WaitForHandlers, ListenerInv, PendingCovers
    <2>3. IsFiniteSet(Active) /\ Cardinality(Active) \in Nat
      BY CountedSets
    <2>4. Cardinality(Active) = 0
      BY <2>2, <2>3
    <2>5. Active = {}
      BY <2>3, <2>4, FS_EmptySet
    <2> QED
      BY <2>5 DEF Active
  <1> QED
    BY <1>1, ListenerInvariant, PTL DEF Spec, GracefulStopWaits

(* Session.Listen() and listener.UnlistenAll() are serialized: no notification
   finds a handler of a session whose destroy has been completed, as long as
   the listener has not been told to stop. *)
THEOREM NoHandlerCorrect == Spec => NoHandlerAfterDestroy
  <1> DEFINE Silent == \A d \in Dispatchers :
                          (job[d].at = "lookup" /\ job'[d].at = "invoke" /\ ~IsStopping) =>
                              job[d].sess \notin done
  <1>1. ListenerInv /\ [Next]_vars => [Silent]_vars
    <2> SUFFICES ASSUME ListenerInv, Next, NEW d \in Dispatchers,
                        job[d].at = "lookup", job'[d].at = "invoke", ~IsStopping
                 PROVE  job[d].sess \notin done
      OBVIOUS
    <2>1. job \in [Dispatchers -> Jobs]
      BY DEF ListenerInv, TypeOK
    <2>2. LookUp(d)
      <3>1. ASSUME NEW c \in Callers, CallerStep(c) PROVE FALSE
        BY <3>1, CallerFrame
      <3>2. ASSUME NEW c \in Callers, Accept(c) PROVE FALSE
        BY <3>2 DEF Accept
      <3>3. CASE Execute
        BY <3>3 DEF Execute
      <3>4. CASE MachineStops \/ StopRequest \/ ChannelFails
        BY <3>4, StopsFrame
      <3>5. ASSUME NEW e \in Dispatchers, DispatchStep(e), ~LookUp(d) PROVE FALSE
        <4>1. e = d
          BY <2>1, <3>5 DEF DispatchStep, Deliver, DispatcherGoesOn, FindUnicastTarget,
             FindMulticastTargets, MatchConstraint, NextTarget, LookUp, Invoke,
             HandlerReturns, Settle, Leave, Moves
        <4> QED
          BY <2>1, <3>5, <4>1 DEF DispatchStep, Deliver, DispatcherGoesOn, FindUnicastTarget,
             FindMulticastTargets, MatchConstraint, NextTarget, Invoke, HandlerReturns,
             Settle, Leave, Moves
      <3> QED
        BY <3>1, <3>2, <3>3, <3>4, <3>5 DEF Next, MachineStep
    <2>3. handlers[job[d].sess] # {}
      BY <2>1, <2>2 DEF LookUp, Moves, Jobs
    <2> QED
      BY <2>3 DEF ListenerInv, Forgotten
  <1> QED
    BY <1>1, ListenerInvariant, PTL DEF Spec, NoHandlerAfterDestroy
=============================================================================
