--------------------------- MODULE PayloadProofs ----------------------------
(***************************************************************************)
(* The safety of payloads and their buffers, for any number of payloads,   *)
(* clones and buffers.                                                     *)
(***************************************************************************)
EXTENDS Payload, FiniteSetTheorems, TLAPS

Holding == {"bytes", "wantEncode", "encode", "value", "wantDecode", "decode"}

(* The count of a payloadData is the number of payloads that point at it, those
   that are being closed included, *)
RefsCounted == \A d \in Data : refCount[d] = Cardinality(Refs(d))

(* the goroutine of a payload that is in use has the payloadData to use, and holds
   its read mutex from LockRead on, *)
MutexHeld ==
    \A p \in Payloads :
        /\ pc[p] # "idle" => data[p] # Nil
        /\ pc[p] \in Holding => readMutex[data[p]] = p

(* under which what FindMissing missed stays missing, *)
StillMissing ==
    \A p \in Payloads :
        /\ pc[p] \in {"wantEncode", "encode"} => buffer[data[p]] = Nil
        /\ pc[p] \in {"wantDecode", "decode"} => ~hasValue[data[p]]

(* a payloadData has a value or its encoding, which is what its buffer holds, *)
DataComplete ==
    \A d \in Data : IsLive(d) =>
        /\ hasValue[d] \/ buffer[d] # Nil
        /\ buffer[d] # Nil => content[buffer[d]] = d

(* slices that have been handed out are of the buffer of the payloadData, and are
   given up before their payload lets go of it, *)
ViewsCurrent ==
    \A p \in Payloads : view[p] # Nil =>
        data[p] # Nil /\ view[p] = buffer[data[p]] /\ pc[p] # "closing"

(* and a buffer belongs to one payloadData, to one call of String() or to the
   pool, where it is once. *)
OneOwner ==
    /\ \A d, e \in Data : IsLive(d) /\ IsLive(e) /\ buffer[d] = buffer[e] /\ buffer[d] # Nil => d = e
    /\ \A d \in Data, p \in Payloads : IsLive(d) /\ buffer[d] # Nil => scratch[p] # buffer[d]
    /\ \A p, q \in Payloads : scratch[p] = scratch[q] /\ scratch[p] # Nil => p = q
    /\ \A b \in Buffers : pool[b] # 0 =>
          /\ pool[b] = 1
          /\ \A d \in Data : IsLive(d) => buffer[d] # b
          /\ \A p \in Payloads : scratch[p] # b

PayloadInv ==
    /\ TypeOK
    /\ RefsCounted
    /\ MutexHeld
    /\ StillMissing
    /\ DataComplete
    /\ ViewsCurrent
    /\ OneOwner

USE NilAssumption

-----------------------------------------------------------------------------
(* There is no payload at first. *)
LEMMA InitPayloadInv == Init => PayloadInv
  <1> SUFFICES ASSUME Init PROVE PayloadInv
    OBVIOUS
  <1>1. TypeOK
    BY DEF Init, TypeOK, Places
  <1>2. \A d \in Data : Refs(d) = {}
    BY DEF Init, Refs
  <1>3. RefsCounted
    BY <1>2, FS_EmptySet DEF Init, RefsCounted
  <1>4. MutexHeld /\ StillMissing /\ DataComplete /\ ViewsCurrent
    BY <1>2 DEF Init, MutexHeld, StillMissing, DataComplete, ViewsCurrent, IsLive, Holding
  <1>5. OneOwner
    BY <1>2 DEF Init, OneOwner, IsLive
  <1> QED
    BY <1>1, <1>3, <1>4, <1>5 DEF PayloadInv

(***************************************************************************)
(* How the set of payloads that point at a payloadData changes.            *)
(***************************************************************************)
(* Pointing one more payload at d counts one more reference. *)
LEMMA RefsAdded ==
    ASSUME TypeOK, NEW p \in Payloads, NEW d \in Data, data[p] = Nil,
           data' = [data EXCEPT ![p] = d]
    PROVE  /\ Refs(d)' = Refs(d) \cup {p} /\ p \notin Refs(d)
           /\ \A e \in Data \ {d} : Refs(e)' = Refs(e)
           /\ Cardinality(Refs(d)') = Cardinality(Refs(d)) + 1
  <1>1. /\ Refs(d)' = Refs(d) \cup {p} /\ p \notin Refs(d)
        /\ \A e \in Data \ {d} : Refs(e)' = Refs(e)
    BY DEF Refs, TypeOK
  <1>2. IsFiniteSet(Refs(d))
    BY PayloadsAssumption, FS_Subset DEF Refs
  <1> QED
    BY <1>1, <1>2, FS_AddElement

(* Closing a payload takes one reference away. *)
LEMMA RefsRemoved ==
    ASSUME TypeOK, NEW p \in Payloads, data[p] \in Data,
           data' = [data EXCEPT ![p] = Nil]
    PROVE  /\ Refs(data[p]) = {q \in Payloads : data'[q] = data[p]} \cup {p}
           /\ p \notin {q \in Payloads : data'[q] = data[p]}
           /\ \A e \in Data \ {data[p]} : Refs(e)' = Refs(e)
           /\ Cardinality({q \in Payloads : data'[q] = data[p]}) = Cardinality(Refs(data[p])) - 1
           /\ Cardinality(Refs(data[p])) \in Nat
           /\ Cardinality(Refs(data[p])) = 1 => {q \in Payloads : data'[q] = data[p]} = {}
  <1> DEFINE R == {q \in Payloads : data'[q] = data[p]}
  <1>1. /\ R = Refs(data[p]) \ {p} /\ p \in Refs(data[p])
        /\ \A e \in Data \ {data[p]} : Refs(e)' = Refs(e)
    BY DEF Refs, TypeOK
  <1>2. IsFiniteSet(Refs(data[p]))
    BY PayloadsAssumption, FS_Subset DEF Refs
  <1>3. /\ IsFiniteSet(R)
        /\ Cardinality(R) = Cardinality(Refs(data[p])) - 1
        /\ Cardinality(Refs(data[p])) \in Nat
    BY <1>1, <1>2, FS_RemoveElement, FS_CardinalityType
  <1>4. Cardinality(Refs(data[p])) = 1 => R = {}
    BY <1>3, FS_EmptySet
  <1> HIDE DEF R
  <1>5. Refs(data[p]) = R \cup {p} /\ p \notin R
    BY <1>1
  <1> QED
    BY <1>1, <1>3, <1>4, <1>5 DEF R

-----------------------------------------------------------------------------
(***************************************************************************)
(* The pool.                                                               *)
(***************************************************************************)
(* A buffer that nothing points at, or that the pool gives away, has no owner. *)
LEMMA GetTakes ==
    ASSUME PayloadInv, NEW b \in Buffers, Get(b)
    PROVE  /\ pool' \in [Buffers -> Nat]
           /\ pool'[b] = 0
           /\ \A c \in Buffers \ {b} : pool'[c] = pool[c]
           /\ \A d \in Data : IsLive(d) => buffer[d] # b
           /\ \A q \in Payloads : scratch[q] # b
  <1>1. pool \in [Buffers -> Nat]
    BY DEF PayloadInv, TypeOK
  <1>2. CASE pool[b] > 0 /\ pool' = [pool EXCEPT ![b] = @ - 1]
    <2>1. pool[b] # 0
      BY <1>1, <1>2
    <2>2. /\ pool[b] = 1
          /\ \A d \in Data : IsLive(d) => buffer[d] # b
          /\ \A q \in Payloads : scratch[q] # b
      BY <2>1 DEF PayloadInv, OneOwner
    <2> QED
      BY <1>1, <1>2, <2>2
  <1>3. CASE ~IsPointedAt(b) /\ UNCHANGED pool
    BY <1>1, <1>3 DEF IsPointedAt
  <1> QED
    BY <1>2, <1>3 DEF Get

(***************************************************************************)
(* Steps that leave the payloads where they point.                         *)
(***************************************************************************)
(* A call begins, finds what it looks for missing, or locks the write mutex. *)
LEMMA CallInv ==
    ASSUME PayloadInv, NEW p \in Payloads,
           CallBytes(p) \/ CallValue(p) \/ FindMissing(p) \/ LockWrite(p)
    PROVE  PayloadInv'
  <1> USE DEF PayloadInv, shared
  <1>1. TypeOK'
    BY DEF CallBytes, CallValue, FindMissing, LockWrite, Goes, TypeOK, Places
  <1>2. UNCHANGED <<data, scratch, view, refCount, buffer, hasValue, readMutex, content, pool>>
    BY DEF CallBytes, CallValue, FindMissing, LockWrite
  <1>3. RefsCounted' /\ DataComplete'
    BY <1>2 DEF RefsCounted, Refs, IsLive, DataComplete
  <1>4. OneOwner'
    BY <1>2 DEF OneOwner, Refs, IsLive
  <1>5. MutexHeld' /\ StillMissing' /\ ViewsCurrent'
    BY <1>2 DEF MutexHeld, StillMissing, ViewsCurrent, Holding, TypeOK, Goes,
                CallBytes, CallValue, FindMissing, LockWrite
  <1> QED
    BY <1>1, <1>3, <1>4, <1>5

(* String() takes a buffer that nobody owns. *)
LEMMA CallStringInv ==
    ASSUME PayloadInv, NEW p \in Payloads, CallString(p)
    PROVE  PayloadInv'
  <1>1. PICK b \in Buffers : Get(b) /\ scratch' = [scratch EXCEPT ![p] = b]
    BY DEF CallString
  <1>2. /\ UNCHANGED <<data, view, refCount, buffer, hasValue, readMutex, writeMutex, content>>
        /\ Goes(p, "idle", "wantValue") /\ data[p] # Nil
    BY DEF CallString, shared
  <1>3. /\ pool' \in [Buffers -> Nat]
        /\ pool'[b] = 0
        /\ \A c \in Buffers \ {b} : pool'[c] = pool[c]
        /\ \A d \in Data : IsLive(d) => buffer[d] # b
        /\ \A q \in Payloads : scratch[q] # b
    BY <1>1, GetTakes
  <1>4. TypeOK
    BY DEF PayloadInv
  <1>5. scratch'[p] = b /\ \A q \in Payloads \ {p} : scratch'[q] = scratch[q]
    BY <1>1, <1>4 DEF TypeOK
  <1>6. TypeOK'
    BY <1>1, <1>2, <1>3, <1>4 DEF TypeOK, Goes, Places
  <1>7. RefsCounted' /\ DataComplete'
    BY <1>2 DEF PayloadInv, RefsCounted, Refs, IsLive, DataComplete
  <1>8. \A d : IsLive(d)' <=> IsLive(d)
    BY <1>2 DEF IsLive, Refs
  <1>9. OneOwner'
    BY <1>2, <1>3, <1>5, <1>8 DEF PayloadInv, OneOwner
  <1>10. MutexHeld' /\ StillMissing' /\ ViewsCurrent'
    BY <1>2, <1>4 DEF PayloadInv, MutexHeld, StillMissing, ViewsCurrent, Holding, TypeOK, Goes
  <1> QED
    BY <1>6, <1>7, <1>9, <1>10 DEF PayloadInv

(* Nobody else is under the read mutex when it is locked. *)
LEMMA LockReadInv ==
    ASSUME PayloadInv, NEW p \in Payloads, LockRead(p)
    PROVE  PayloadInv'
  <1>1. /\ UNCHANGED <<data, scratch, view, refCount, buffer, hasValue, writeMutex, content, pool>>
        /\ pc[p] \in {"wantBytes", "wantValue"}
        /\ readMutex[data[p]] = Nil
        /\ readMutex' = [readMutex EXCEPT ![data[p]] = p]
        /\ \E to \in {"bytes", "value"} : pc' = [pc EXCEPT ![p] = to]
    BY DEF LockRead, Goes
  <1>2. TypeOK /\ data[p] \in Data
    BY <1>1 DEF PayloadInv, MutexHeld, TypeOK
  <1>3. TypeOK'
    BY <1>1, <1>2 DEF TypeOK, Places
  <1>4. RefsCounted' /\ DataComplete' /\ ViewsCurrent'
    BY <1>1 DEF PayloadInv, RefsCounted, Refs, IsLive, DataComplete, ViewsCurrent
  <1>5. OneOwner'
    BY <1>1 DEF PayloadInv, OneOwner, Refs, IsLive
  <1>6. pc'[p] \in {"bytes", "value"} /\ \A q \in Payloads \ {p} : pc'[q] = pc[q]
    BY <1>1, <1>2 DEF TypeOK
  <1>7. MutexHeld'
    <2> SUFFICES ASSUME NEW q \in Payloads
                 PROVE  /\ pc'[q] # "idle" => data[q] # Nil
                        /\ pc'[q] \in Holding => readMutex'[data[q]] = q
      BY <1>1 DEF MutexHeld
    <2>1. CASE q = p
      BY <1>1, <1>2, <2>1 DEF TypeOK
    <2>2. CASE q # p
      <3>1. pc'[q] = pc[q]
        BY <1>6, <2>2
      <3>2. pc[q] \in Holding => readMutex[data[q]] = q /\ data[q] # data[p]
        BY <1>1, <1>2 DEF PayloadInv, MutexHeld
      <3>3. pc[q] \in Holding => data[q] \in Data
        BY <1>2 DEF PayloadInv, MutexHeld, TypeOK, Holding
      <3> QED
        BY <1>1, <1>2, <3>1, <3>2, <3>3 DEF PayloadInv, MutexHeld, TypeOK
    <2> QED
      BY <2>1, <2>2
  <1>8. StillMissing'
    BY <1>1, <1>6 DEF PayloadInv, StillMissing
  <1> QED
    BY <1>3, <1>4, <1>5, <1>7, <1>8 DEF PayloadInv

(* A call returns and unlocks the read mutex of its payloadData, and no other. *)
LEMMA UnlockHeld ==
    ASSUME PayloadInv, NEW p \in Payloads, pc[p] \in Holding,
           pc' = [pc EXCEPT ![p] = "idle"], Unlocks(p), data' = data
    PROVE  /\ MutexHeld' /\ readMutex' \in [Data -> Payloads \cup {Nil}]
           /\ pc' \in [Payloads -> Places]
           /\ data[p] \in Data
           /\ \A q \in Payloads \ {p} : /\ pc'[q] = pc[q]
                                        /\ pc[q] \in Holding => data[q] # data[p]
           /\ pc'[p] = "idle"
  <1>1. TypeOK /\ data[p] \in Data /\ readMutex[data[p]] = p
    BY DEF PayloadInv, MutexHeld, TypeOK, Holding
  <1>2. /\ readMutex' = [readMutex EXCEPT ![data[p]] = Nil]
        /\ readMutex' \in [Data -> Payloads \cup {Nil}]
    BY <1>1 DEF Unlocks, TypeOK
  <1>3. /\ pc' \in [Payloads -> Places] /\ pc'[p] = "idle"
        /\ \A q \in Payloads \ {p} : pc'[q] = pc[q]
    BY <1>1 DEF TypeOK, Places
  <1>4. \A q \in Payloads \ {p} : pc[q] \in Holding => data[q] # data[p]
    BY <1>1 DEF PayloadInv, MutexHeld
  <1>5. MutexHeld'
    <2> SUFFICES ASSUME NEW q \in Payloads
                 PROVE  /\ pc'[q] # "idle" => data[q] # Nil
                        /\ pc'[q] \in Holding => readMutex'[data[q]] = q
      BY DEF MutexHeld
    <2>1. CASE q = p
      BY <1>3, <2>1 DEF Holding
    <2>2. CASE q # p
      <3>1. pc'[q] = pc[q] /\ (pc[q] \in Holding => data[q] # data[p])
        BY <1>3, <1>4, <2>2
      <3>2. pc[q] \in Holding => data[q] \in Data
        BY <1>1 DEF PayloadInv, MutexHeld, TypeOK, Holding
      <3> QED
        BY <1>1, <1>2, <3>1, <3>2 DEF PayloadInv, MutexHeld, TypeOK
    <2> QED
      BY <2>1, <2>2
  <1> QED
    BY <1>1, <1>2, <1>3, <1>4, <1>5

(* Bytes() hands out a slice of the payloadData's own buffer. *)
LEMMA ReturnBytesInv ==
    ASSUME PayloadInv, NEW p \in Payloads, ReturnBytes(p)
    PROVE  PayloadInv'
  <1>1. /\ UNCHANGED <<data, scratch, refCount, buffer, hasValue, writeMutex, content, pool>>
        /\ pc[p] = "bytes" /\ pc' = [pc EXCEPT ![p] = "idle"]
        /\ Unlocks(p)
        /\ view' = [view EXCEPT ![p] = buffer[data[p]]]
    BY DEF ReturnBytes, Goes
  <1>2. /\ MutexHeld' /\ readMutex' \in [Data -> Payloads \cup {Nil}]
        /\ pc' \in [Payloads -> Places] /\ data[p] \in Data
        /\ \A q \in Payloads \ {p} : pc'[q] = pc[q]
        /\ pc'[p] = "idle"
    BY <1>1, UnlockHeld DEF Holding
  <1>3. TypeOK
    BY DEF PayloadInv
  <1>4. TypeOK'
    BY <1>1, <1>2, <1>3 DEF TypeOK
  <1>5. RefsCounted' /\ DataComplete'
    BY <1>1 DEF PayloadInv, RefsCounted, Refs, IsLive, DataComplete
  <1>6. ViewsCurrent'
    BY <1>1, <1>2, <1>3 DEF PayloadInv, ViewsCurrent, TypeOK
  <1>7. OneOwner'
    BY <1>1 DEF PayloadInv, OneOwner, Refs, IsLive
  <1>8. StillMissing'
    BY <1>1, <1>2 DEF PayloadInv, StillMissing
  <1> QED
    BY <1>2, <1>4, <1>5, <1>6, <1>7, <1>8 DEF PayloadInv

(* The encoding goes into a buffer that nobody owns, for a payloadData that had
   none: no slice of it has been handed out. *)
LEMMA EncodeInv ==
    ASSUME PayloadInv, NEW p \in Payloads, Encode(p)
    PROVE  PayloadInv'
  <1>1. PICK b \in Buffers :
          /\ Get(b)
          /\ content' = [content EXCEPT ![b] = data[p]]
          /\ buffer'  = [buffer EXCEPT ![data[p]] = b]
          /\ view'    = [view EXCEPT ![p] = b]
    BY DEF Encode
  <1>2. /\ UNCHANGED <<data, scratch, refCount, hasValue>>
        /\ pc[p] = "encode" /\ pc' = [pc EXCEPT ![p] = "idle"]
        /\ Unlocks(p)
        /\ writeMutex' = [writeMutex EXCEPT ![data[p]] = Nil]
    BY DEF Encode, Goes
  <1>3. /\ MutexHeld' /\ readMutex' \in [Data -> Payloads \cup {Nil}]
        /\ pc' \in [Payloads -> Places] /\ data[p] \in Data
        /\ \A q \in Payloads \ {p} : /\ pc'[q] = pc[q]
                                     /\ pc[q] \in Holding => data[q] # data[p]
        /\ pc'[p] = "idle"
    BY <1>2, UnlockHeld DEF Holding
  <1>4. /\ pool' \in [Buffers -> Nat]
        /\ pool'[b] = 0
        /\ \A c \in Buffers \ {b} : pool'[c] = pool[c]
        /\ \A d \in Data : IsLive(d) => buffer[d] # b
        /\ \A q \in Payloads : scratch[q] # b
    BY <1>1, GetTakes
  <1>5. TypeOK
    BY DEF PayloadInv
  <1>6. TypeOK'
    BY <1>1, <1>2, <1>3, <1>4, <1>5 DEF TypeOK
  <1>7. /\ buffer'[data[p]] = b /\ \A d \in Data \ {data[p]} : buffer'[d] = buffer[d]
        /\ content'[b] = data[p] /\ \A c \in Buffers \ {b} : content'[c] = content[c]
        /\ view'[p] = b /\ \A q \in Payloads \ {p} : view'[q] = view[q]
        /\ b # Nil
    BY <1>1, <1>3, <1>5 DEF TypeOK
  <1>8. \A d : IsLive(d)' <=> IsLive(d)
    BY <1>2 DEF IsLive, Refs
  <1>9. RefsCounted'
    BY <1>2 DEF PayloadInv, RefsCounted, Refs
  <1>10. DataComplete'
    BY <1>2, <1>4, <1>5, <1>7, <1>8 DEF PayloadInv, DataComplete, TypeOK
  <1>11. ViewsCurrent'
    <2>1. buffer[data[p]] = Nil
      BY <1>2 DEF PayloadInv, StillMissing
    <2> QED
      BY <1>2, <1>3, <1>5, <1>7, <2>1 DEF PayloadInv, ViewsCurrent, TypeOK
  <1>12. OneOwner'
    <2>1. \A d, e \in Data : IsLive(d) /\ IsLive(e) /\ buffer'[d] = buffer'[e] /\ buffer'[d] # Nil
                              => d = e
      BY <1>4, <1>7 DEF PayloadInv, OneOwner
    <2>2. \A d \in Data, q \in Payloads : IsLive(d) /\ buffer'[d] # Nil => scratch[q] # buffer'[d]
      BY <1>4, <1>7 DEF PayloadInv, OneOwner
    <2>3. \A c \in Buffers : pool'[c] # 0 =>
             /\ pool'[c] = 1
             /\ \A d \in Data : IsLive(d) => buffer'[d] # c
             /\ \A q \in Payloads : scratch[q] # c
      BY <1>4, <1>7 DEF PayloadInv, OneOwner
    <2> QED
      BY <1>2, <1>8, <2>1, <2>2, <2>3 DEF PayloadInv, OneOwner
  <1>13. StillMissing'
    <2> SUFFICES ASSUME NEW q \in Payloads
                 PROVE  /\ pc'[q] \in {"wantEncode", "encode"} => buffer'[data[q]] = Nil
                        /\ pc'[q] \in {"wantDecode", "decode"} => ~hasValue[data[q]]
      BY <1>2 DEF StillMissing
    <2>1. CASE q = p
      BY <1>3, <2>1
    <2>2. CASE q # p
      <3>1. pc[q] \in {"wantEncode", "encode"} => data[q] \in Data \ {data[p]}
        BY <1>3, <1>5, <2>2 DEF PayloadInv, MutexHeld, TypeOK, Holding
      <3> QED
        BY <1>3, <1>7, <2>2, <3>1 DEF PayloadInv, StillMissing
    <2> QED
      BY <2>1, <2>2
  <1> QED
    BY <1>3, <1>6, <1>9, <1>10, <1>11, <1>12, <1>13 DEF PayloadInv

(* Value() and String() return; the buffer that String() took, which is nobody
   else's, goes to the pool. *)
LEMMA ReturnValueInv ==
    ASSUME PayloadInv, NEW p \in Payloads, ReturnValue(p)
    PROVE  PayloadInv'
  <1>1. /\ UNCHANGED <<data, view, refCount, buffer, hasValue, writeMutex>>
        /\ pc[p] = "value" /\ pc' = [pc EXCEPT ![p] = "idle"]
        /\ Unlocks(p)
    BY DEF ReturnValue, Goes
  <1>2. /\ MutexHeld' /\ readMutex' \in [Data -> Payloads \cup {Nil}]
        /\ pc' \in [Payloads -> Places] /\ data[p] \in Data
        /\ \A q \in Payloads \ {p} : pc'[q] = pc[q]
        /\ pc'[p] = "idle"
    BY <1>1, UnlockHeld DEF Holding
  <1>3. TypeOK
    BY DEF PayloadInv
  <1>4. \A d : IsLive(d)' <=> IsLive(d)
    BY <1>1 DEF IsLive, Refs
  <1>5. RefsCounted' /\ ViewsCurrent' /\ StillMissing'
    BY <1>1, <1>2 DEF PayloadInv, RefsCounted, Refs, ViewsCurrent, StillMissing
  <1>6. CASE scratch[p] = Nil /\ UNCHANGED <<scratch, content, pool>>
    <2>1. TypeOK'
      BY <1>1, <1>2, <1>3, <1>6 DEF TypeOK
    <2>2. DataComplete' /\ OneOwner'
      BY <1>1, <1>4, <1>6 DEF PayloadInv, DataComplete, OneOwner
    <2> QED
      BY <1>2, <1>5, <2>1, <2>2 DEF PayloadInv
  <1>7. CASE scratch[p] # Nil /\ Put(scratch[p]) /\ scratch' = [scratch EXCEPT ![p] = Nil]
    <2> DEFINE b == scratch[p]
    <2>1. b \in Buffers
      BY <1>3, <1>7 DEF TypeOK
    <2>2. pool[b] = 0
      BY <2>1 DEF PayloadInv, OneOwner
    <2>3. /\ pool'[b] = 1 /\ \A c \in Buffers \ {b} : pool'[c] = pool[c]
          /\ content'[b] = Nil /\ \A c \in Buffers \ {b} : content'[c] = content[c]
          /\ scratch'[p] = Nil /\ \A q \in Payloads \ {p} : scratch'[q] = scratch[q]
      BY <1>3, <1>7, <2>1, <2>2 DEF TypeOK, Put
    <2>4. TypeOK'
      BY <1>1, <1>2, <1>3, <1>7, <2>1 DEF TypeOK, Put
    <2> HIDE DEF b
    <2>5. /\ \A d \in Data : IsLive(d) => buffer[d] # b
          /\ \A q \in Payloads \ {p} : scratch[q] # b
      BY <1>7, <2>1 DEF PayloadInv, OneOwner, b
    <2>6. DataComplete'
      BY <1>1, <1>3, <1>4, <2>3, <2>5 DEF PayloadInv, DataComplete, TypeOK
    <2>7. OneOwner'
      <3>1. \A d \in Data, q \in Payloads : IsLive(d) /\ buffer[d] # Nil => scratch'[q] # buffer[d]
        BY <2>3 DEF PayloadInv, OneOwner
      <3>2. \A q, r \in Payloads : scratch'[q] = scratch'[r] /\ scratch'[q] # Nil => q = r
        BY <2>3 DEF PayloadInv, OneOwner
      <3>3. \A c \in Buffers : pool'[c] # 0 =>
               /\ pool'[c] = 1
               /\ \A d \in Data : IsLive(d) => buffer[d] # c
               /\ \A q \in Payloads : scratch'[q] # c
        BY <2>1, <2>3, <2>5 DEF PayloadInv, OneOwner
      <3> QED
        BY <1>1, <1>4, <3>1, <3>2, <3>3 DEF PayloadInv, OneOwner
    <2> QED
      BY <1>2, <1>5, <2>4, <2>6, <2>7 DEF PayloadInv
  <1> QED
    BY <1>6, <1>7 DEF ReturnValue

(* The value is decoded under the read mutex, so nobody else has missed it. *)
LEMMA DecodeInv ==
    ASSUME PayloadInv, NEW p \in Payloads, Decode(p)
    PROVE  PayloadInv'
  <1>1. /\ UNCHANGED <<data, scratch, view, refCount, buffer, readMutex, content, pool>>
        /\ pc[p] = "decode" /\ pc' = [pc EXCEPT ![p] = "value"]
        /\ hasValue' = [hasValue EXCEPT ![data[p]] = TRUE]
        /\ writeMutex' = [writeMutex EXCEPT ![data[p]] = Nil]
    BY DEF Decode, Goes
  <1>2. TypeOK /\ data[p] \in Data
    BY <1>1 DEF PayloadInv, MutexHeld, TypeOK
  <1>3. TypeOK'
    BY <1>1, <1>2 DEF TypeOK, Places
  <1>4. pc'[p] = "value" /\ \A q \in Payloads \ {p} : pc'[q] = pc[q]
    BY <1>1, <1>2 DEF TypeOK
  <1>5. /\ hasValue'[data[p]] = TRUE /\ \A d \in Data \ {data[p]} : hasValue'[d] = hasValue[d]
    BY <1>1, <1>2 DEF TypeOK
  <1>6. RefsCounted' /\ ViewsCurrent'
    BY <1>1 DEF PayloadInv, RefsCounted, Refs, ViewsCurrent
  <1>7. OneOwner'
    BY <1>1 DEF PayloadInv, OneOwner, Refs, IsLive
  <1>8. DataComplete'
    BY <1>1, <1>5 DEF PayloadInv, DataComplete, Refs, IsLive
  <1>9. MutexHeld'
    BY <1>1, <1>4 DEF PayloadInv, MutexHeld, Holding
  <1>10. StillMissing'
    <2> SUFFICES ASSUME NEW q \in Payloads, q # p
                 PROVE  /\ pc[q] \in {"wantEncode", "encode"} => buffer[data[q]] = Nil
                        /\ pc[q] \in {"wantDecode", "decode"} => ~hasValue'[data[q]]
      BY <1>1, <1>4 DEF StillMissing
    <2>1. pc[q] \in {"wantDecode", "decode"} => data[q] \in Data \ {data[p]}
      BY <1>1, <1>2 DEF PayloadInv, MutexHeld, TypeOK, Holding
    <2> QED
      BY <1>5, <2>1 DEF PayloadInv, StillMissing
  <1> QED
    BY <1>3, <1>6, <1>7, <1>8, <1>9, <1>10 DEF PayloadInv

-----------------------------------------------------------------------------
(***************************************************************************)
(* Payloads are closed, made and cloned.                                   *)
(***************************************************************************)
(* Close() begins: the slices of this payload are no longer used. *)
LEMMA CloseInv ==
    ASSUME PayloadInv, NEW p \in Payloads, Close(p)
    PROVE  PayloadInv'
  <1>1. /\ UNCHANGED <<data, scratch, refCount, buffer, hasValue, readMutex, writeMutex, content, pool>>
        /\ data[p] # Nil
        /\ pc' = [pc EXCEPT ![p] = "closing"]
        /\ view' = [view EXCEPT ![p] = Nil]
    BY DEF Close, Goes, shared
  <1>2. TypeOK
    BY DEF PayloadInv
  <1>3. TypeOK'
    BY <1>1, <1>2 DEF TypeOK, Places
  <1>4. /\ pc'[p] = "closing" /\ \A q \in Payloads \ {p} : pc'[q] = pc[q]
        /\ view'[p] = Nil /\ \A q \in Payloads \ {p} : view'[q] = view[q]
    BY <1>1, <1>2 DEF TypeOK
  <1>5. RefsCounted' /\ DataComplete'
    BY <1>1 DEF PayloadInv, RefsCounted, Refs, IsLive, DataComplete
  <1>6. OneOwner'
    BY <1>1 DEF PayloadInv, OneOwner, Refs, IsLive
  <1>7. ViewsCurrent'
    BY <1>1, <1>4 DEF PayloadInv, ViewsCurrent
  <1>8. MutexHeld' /\ StillMissing'
    BY <1>1, <1>4 DEF PayloadInv, MutexHeld, StillMissing, Holding
  <1> QED
    BY <1>3, <1>5, <1>6, <1>7, <1>8 DEF PayloadInv

(* The count reaches zero with the last payload that points at the payloadData,
   so the buffer goes to the pool when no slice of it is in use. *)
LEMMA ReleaseInv ==
    ASSUME PayloadInv, NEW p \in Payloads, Release(p)
    PROVE  PayloadInv'
  <1>0. TypeOK /\ data[p] \in Data
    BY DEF PayloadInv, MutexHeld, TypeOK, Release, Goes
  <1> PICK d \in Data : d = data[p]
    BY <1>0
  <1>1. /\ UNCHANGED <<scratch, view, buffer, hasValue, readMutex, writeMutex>>
        /\ pc[p] = "closing" /\ pc' = [pc EXCEPT ![p] = "idle"]
        /\ refCount' = [refCount EXCEPT ![d] = @ - 1]
        /\ data' = [data EXCEPT ![p] = Nil]
    BY DEF Release, Goes
  <1>2. TypeOK /\ d \in Data
    BY <1>0
  <1> DEFINE R == {q \in Payloads : data'[q] = d}
  <1>3. /\ Refs(d) = R \cup {p} /\ p \notin R
        /\ \A e \in Data \ {d} : Refs(e)' = Refs(e)
        /\ Cardinality(R) = Cardinality(Refs(d)) - 1
        /\ Cardinality(Refs(d)) \in Nat
        /\ Cardinality(Refs(d)) = 1 => R = {}
    BY <1>1, <1>2, RefsRemoved
  <1>4. refCount[d] = Cardinality(Refs(d)) /\ refCount[d] >= 1
    <2>1. R \subseteq Payloads
      OBVIOUS
    <2>2. Cardinality(R) \in Nat
      BY <2>1, PayloadsAssumption, FS_Subset, FS_CardinalityType
    <2>3. refCount[d] = Cardinality(Refs(d))
      BY <1>2 DEF PayloadInv, RefsCounted
    <2> HIDE DEF R
    <2> QED
      BY <1>3, <2>2, <2>3
  <1>5. /\ data'[p] = Nil /\ \A q \in Payloads \ {p} : data'[q] = data[q]
        /\ pc'[p] = "idle" /\ \A q \in Payloads \ {p} : pc'[q] = pc[q]
    BY <1>1, <1>2 DEF TypeOK
  <1>6. /\ data' \in [Payloads -> Data \cup {Nil}] /\ pc' \in [Payloads -> Places]
        /\ refCount' \in [Data -> Nat] /\ refCount'[d] = refCount[d] - 1
        /\ \A e \in Data \ {d} : refCount'[e] = refCount[e]
    BY <1>1, <1>2, <1>4 DEF TypeOK, Places
  <1>7. RefsCounted'
    <2> SUFFICES ASSUME NEW e \in Data
                 PROVE  refCount'[e] = Cardinality({q \in Payloads : data'[q] = e})
      BY DEF RefsCounted, Refs
    <2>1. CASE e = d
      BY <1>3, <1>4, <1>6, <2>1
    <2>2. CASE e # d
      BY <1>3, <1>6, <2>2 DEF PayloadInv, RefsCounted, Refs
    <2> QED
      BY <2>1, <2>2
  <1>8. MutexHeld' /\ StillMissing'
    BY <1>1, <1>5 DEF PayloadInv, MutexHeld, StillMissing, Holding
  <1>9. ViewsCurrent'
    BY <1>1, <1>5 DEF PayloadInv, ViewsCurrent
  <1>10. /\ \A e \in Data : IsLive(e)' => IsLive(e)
         /\ refCount[d] = 1 => ~IsLive(d)'
    BY <1>3, <1>4 DEF IsLive, Refs
  <1>11. CASE refCount[d] = 1 /\ buffer[d] # Nil
    <2> DEFINE b == buffer[d]
    <2>1. Put(b) /\ b \in Buffers
      BY <1>2, <1>11 DEF Release, TypeOK
    <2>2. IsLive(d)
      BY <1>3 DEF IsLive
    <2>3. pool[b] = 0
      BY <1>2, <2>1, <2>2 DEF PayloadInv, OneOwner
    <2>4. /\ pool'[b] = 1 /\ \A c \in Buffers \ {b} : pool'[c] = pool[c]
          /\ content'[b] = Nil /\ \A c \in Buffers \ {b} : content'[c] = content[c]
      BY <1>2, <2>1, <2>3 DEF TypeOK, Put
    <2>5. TypeOK'
      BY <1>1, <1>2, <1>6, <2>1 DEF TypeOK, Put
    <2>6. /\ \A e \in Data : IsLive(e)' => buffer[e] # b
          /\ \A q \in Payloads : scratch[q] # b
      BY <1>2, <1>10, <1>11, <2>2 DEF PayloadInv, OneOwner
    <2>7. DataComplete'
      BY <1>1, <1>2, <1>10, <2>4, <2>6 DEF PayloadInv, DataComplete, TypeOK
    <2>8. OneOwner'
      <3>1. \A c \in Buffers : pool'[c] # 0 =>
               /\ pool'[c] = 1
               /\ \A e \in Data : IsLive(e)' => buffer[e] # c
               /\ \A q \in Payloads : scratch[q] # c
        BY <1>10, <2>4, <2>6 DEF PayloadInv, OneOwner
      <3> QED
        BY <1>1, <1>10, <3>1 DEF PayloadInv, OneOwner
    <2> QED
      BY <1>7, <1>8, <1>9, <2>5, <2>7, <2>8 DEF PayloadInv
  <1>12. CASE ~(refCount[d] = 1 /\ buffer[d] # Nil)
    <2>1. UNCHANGED <<content, pool>>
      BY <1>12 DEF Release
    <2>2. TypeOK'
      BY <1>1, <1>2, <1>6, <2>1 DEF TypeOK
    <2>3. DataComplete' /\ OneOwner'
      BY <1>1, <1>10, <2>1 DEF PayloadInv, DataComplete, OneOwner
    <2> QED
      BY <1>7, <1>8, <1>9, <2>2, <2>3 DEF PayloadInv
  <1> QED
    BY <1>11, <1>12

(* A new payloadData, with a value or with an encoding in a buffer of its own. *)
LEMMA NewInv ==
    ASSUME PayloadInv, NEW p \in Payloads, NEW d \in Data,
           NewPayload(p, d) \/ \E b \in Buffers : NewPayloadFromBytes(p, d, b)
    PROVE  PayloadInv'
  <1>1. /\ UNCHANGED <<pc, scratch, view, readMutex, writeMutex, pool>>
        /\ pc[p] = "idle" /\ data[p] = Nil /\ Refs(d) = {}
        /\ data' = [data EXCEPT ![p] = d]
        /\ refCount' = [refCount EXCEPT ![d] = 1]
    BY DEF NewPayload, NewPayloadFromBytes, IsNew, MakeData, IsLive
  <1>2. TypeOK
    BY DEF PayloadInv
  <1>3. PICK c \in Buffers \cup {Nil} :
          /\ buffer' = [buffer EXCEPT ![d] = c]
          /\ hasValue' = [hasValue EXCEPT ![d] = (c = Nil)]
          /\ c = Nil => content' = content
          /\ c # Nil => /\ content' = [content EXCEPT ![c] = d]
                        /\ ~IsPointedAt(c)
    BY NilAssumption DEF NewPayload, NewPayloadFromBytes
  <1>4. /\ Refs(d)' = {p}
        /\ \A e \in Data \ {d} : Refs(e)' = Refs(e)
        /\ Cardinality(Refs(d)') = 1
    <2>1. /\ Refs(d)' = Refs(d) \cup {p}
          /\ \A e \in Data \ {d} : Refs(e)' = Refs(e)
      BY <1>1, <1>2, RefsAdded
    <2>2. Refs(d)' = {p}
      BY <1>1, <2>1
    <2> QED
      BY <2>1, <2>2, FS_Singleton
  <1>5. TypeOK'
    BY <1>1, <1>2, <1>3 DEF TypeOK
  <1>6. /\ data'[p] = d /\ \A q \in Payloads \ {p} : data'[q] = data[q] /\ data[q] # d
        /\ buffer'[d] = c /\ \A e \in Data \ {d} : buffer'[e] = buffer[e]
        /\ hasValue'[d] = (c = Nil) /\ \A e \in Data \ {d} : hasValue'[e] = hasValue[e]
        /\ refCount'[d] = 1 /\ \A e \in Data \ {d} : refCount'[e] = refCount[e]
    BY <1>1, <1>2, <1>3 DEF TypeOK, Refs
  <1>7. RefsCounted'
    BY <1>4, <1>6 DEF PayloadInv, RefsCounted
  <1>8. MutexHeld'
    BY <1>1, <1>2, <1>6 DEF PayloadInv, MutexHeld, Holding, TypeOK
  <1>9. StillMissing'
    <2> SUFFICES ASSUME NEW q \in Payloads, q # p
                 PROVE  /\ pc[q] \in {"wantEncode", "encode"} => buffer'[data[q]] = Nil
                        /\ pc[q] \in {"wantDecode", "decode"} => ~hasValue'[data[q]]
      BY <1>1, <1>6 DEF StillMissing
    <2>1. pc[q] # "idle" => data[q] \in Data \ {d}
      BY <1>2, <1>6 DEF PayloadInv, MutexHeld, TypeOK
    <2> QED
      BY <1>6, <2>1 DEF PayloadInv, StillMissing
  <1>10. ViewsCurrent'
    <2> SUFFICES ASSUME NEW q \in Payloads, view[q] # Nil
                 PROVE  data'[q] # Nil /\ view[q] = buffer'[data'[q]] /\ pc[q] # "closing"
      BY <1>1 DEF ViewsCurrent
    <2>1. data[q] # Nil /\ view[q] = buffer[data[q]] /\ pc[q] # "closing" /\ q # p
      BY <1>1 DEF PayloadInv, ViewsCurrent
    <2>2. data[q] \in Data \ {d} /\ data'[q] = data[q]
      BY <1>2, <1>6, <2>1 DEF TypeOK
    <2> QED
      BY <1>6, <2>1, <2>2
  <1>11. /\ \A e \in Data \ {d} : IsLive(e)' <=> IsLive(e)
         /\ IsLive(d)' /\ ~IsLive(d)
    BY <1>1, <1>4 DEF IsLive
  <1>12. c # Nil => /\ \A e \in Data : IsLive(e) => buffer[e] # c
                    /\ \A q \in Payloads : scratch[q] # c
                    /\ pool[c] = 0
    BY <1>2, <1>3 DEF IsPointedAt, TypeOK
  <1>13. DataComplete'
    <2> SUFFICES ASSUME NEW e \in Data, IsLive(e)'
                 PROVE  /\ hasValue'[e] \/ buffer'[e] # Nil
                        /\ buffer'[e] # Nil => content'[buffer'[e]] = e
      BY DEF DataComplete
    <2>1. CASE e = d
      <3>1. c # Nil => content'[c] = d
        BY <1>2, <1>3 DEF TypeOK
      <3> QED
        BY <1>6, <2>1, <3>1
    <2>2. CASE e # d
      <3>1. /\ IsLive(e) /\ buffer'[e] = buffer[e] /\ hasValue'[e] = hasValue[e]
            /\ buffer[e] # Nil => buffer[e] \in Buffers
        BY <1>2, <1>6, <1>11, <2>2 DEF TypeOK
      <3>2. buffer[e] # Nil => content'[buffer[e]] = content[buffer[e]]
        BY <1>2, <1>3, <1>12, <3>1 DEF TypeOK
      <3> QED
        BY <3>1, <3>2 DEF PayloadInv, DataComplete
    <2> QED
      BY <2>1, <2>2
  <1>14. OneOwner'
    <2>1. \A e, f \in Data : IsLive(e)' /\ IsLive(f)' /\ buffer'[e] = buffer'[f] /\ buffer'[e] # Nil
                              => e = f
      BY <1>6, <1>11, <1>12 DEF PayloadInv, OneOwner
    <2>2. \A e \in Data, q \in Payloads : IsLive(e)' /\ buffer'[e] # Nil => scratch[q] # buffer'[e]
      BY <1>6, <1>11, <1>12 DEF PayloadInv, OneOwner
    <2>3. \A x \in Buffers : pool[x] # 0 =>
             /\ pool[x] = 1
             /\ \A e \in Data : IsLive(e)' => buffer'[e] # x
             /\ \A q \in Payloads : scratch[q] # x
      BY <1>6, <1>11, <1>12 DEF PayloadInv, OneOwner
    <2> QED
      BY <1>1, <2>1, <2>2, <2>3 DEF PayloadInv, OneOwner
  <1> QED
    BY <1>5, <1>7, <1>8, <1>9, <1>10, <1>13, <1>14 DEF PayloadInv

(* A clone is one more payload that points at the payloadData. *)
LEMMA CloneInv ==
    ASSUME PayloadInv, NEW p \in Payloads, NEW q \in Payloads, Clone(p, q)
    PROVE  PayloadInv'
  <1>0. TypeOK /\ data[p] \in Data
    BY DEF PayloadInv, TypeOK, Clone
  <1> PICK d \in Data : d = data[p]
    BY <1>0
  <1>1. /\ UNCHANGED <<pc, scratch, view, buffer, hasValue, readMutex, writeMutex, content, pool>>
        /\ d # Nil /\ pc[q] = "idle" /\ data[q] = Nil
        /\ refCount' = [refCount EXCEPT ![d] = @ + 1]
        /\ data' = [data EXCEPT ![q] = d]
    BY DEF Clone
  <1>2. TypeOK /\ d \in Data /\ d = data[p]
    BY <1>0
  <1>3. /\ Refs(d)' = Refs(d) \cup {q}
        /\ \A e \in Data \ {d} : Refs(e)' = Refs(e)
        /\ Cardinality(Refs(d)') = Cardinality(Refs(d)) + 1
    BY <1>1, <1>2, RefsAdded
  <1>4. TypeOK'
    BY <1>1, <1>2 DEF TypeOK
  <1>5. /\ data'[q] = d /\ \A x \in Payloads \ {q} : data'[x] = data[x]
        /\ refCount'[d] = refCount[d] + 1 /\ \A e \in Data \ {d} : refCount'[e] = refCount[e]
    BY <1>1, <1>2 DEF TypeOK
  <1>6. RefsCounted'
    BY <1>2, <1>3, <1>5 DEF PayloadInv, RefsCounted
  <1>7. \A e \in Data : IsLive(e)' <=> IsLive(e)
    <2>1. p \in Refs(d)
      BY <1>2 DEF Refs
    <2> QED
      BY <1>3, <2>1 DEF IsLive
  <1>8. DataComplete' /\ OneOwner'
    BY <1>1, <1>7 DEF PayloadInv, DataComplete, OneOwner
  <1>9. MutexHeld' /\ StillMissing' /\ ViewsCurrent'
    BY <1>1, <1>5 DEF PayloadInv, MutexHeld, StillMissing, ViewsCurrent, Holding
  <1> QED
    BY <1>4, <1>6, <1>8, <1>9 DEF PayloadInv

-----------------------------------------------------------------------------
(* The invariant of payloads, payloadData and buffers holds throughout. *)
LEMMA PayloadInvariant == Spec => []PayloadInv
  <1>1. PayloadInv /\ [Next]_vars => PayloadInv'
    <2> SUFFICES ASSUME PayloadInv, [Next]_vars PROVE PayloadInv'
      OBVIOUS
    <2>1. CASE UNCHANGED vars
      <3>1. UNCHANGED <<data, pc, scratch, view, refCount, buffer, hasValue, readMutex, writeMutex,
                        content, pool>>
        BY <2>1 DEF vars, local, shared
      <3>2. TypeOK' /\ RefsCounted' /\ MutexHeld' /\ StillMissing' /\ ViewsCurrent'
        BY <3>1 DEF PayloadInv, TypeOK, RefsCounted, Refs, MutexHeld, StillMissing, ViewsCurrent
      <3>3. DataComplete' /\ OneOwner'
        BY <3>1 DEF PayloadInv, DataComplete, OneOwner, IsLive, Refs
      <3> QED
        BY <3>2, <3>3 DEF PayloadInv
    <2>2. ASSUME NEW p \in Payloads,
                 Make(p) \/ Use(p) \/ LockRead(p) \/ LockWrite(p) \/ Continue(p) \/ Release(p)
          PROVE  PayloadInv'
      <3>1. CASE \E d \in Data : NewPayload(p, d) \/ \E b \in Buffers : NewPayloadFromBytes(p, d, b)
        BY <3>1, NewInv
      <3>2. CASE \E q \in Payloads : Clone(p, q)
        BY <3>2, CloneInv
      <3>3. CASE Use(p)
        BY <3>3, CallInv, CallStringInv, CloseInv DEF Use
      <3>4. CASE LockRead(p) \/ LockWrite(p)
        BY <3>4, LockReadInv, CallInv
      <3>5. CASE Continue(p)
        BY <3>5, ReturnBytesInv, CallInv, EncodeInv, ReturnValueInv, DecodeInv DEF Continue
      <3>6. CASE Release(p)
        BY <3>6, ReleaseInv
      <3> QED
        BY <2>2, <3>1, <3>2, <3>3, <3>4, <3>5, <3>6 DEF Make
    <2> QED
      BY <2>1, <2>2 DEF Next
  <1> QED
    BY <1>1, InitPayloadInv, PTL DEF Spec

(* Every variable keeps its type; in particular the reference count is never
   taken below zero, however clones are made and closed. *)
THEOREM PayloadTypeCorrect == Spec => []TypeOK
  <1>1. PayloadInv => TypeOK
    BY DEF PayloadInv
  <1> QED
    BY <1>1, PayloadInvariant, PTL

(* The bytes that Bytes() returned are the encoding of the payload until that
   payload is closed, and the same for all its clones. *)
THEOREM BytesValid == Spec => []BytesStayValid
  <1>1. PayloadInv => BytesStayValid
    <2> SUFFICES ASSUME PayloadInv, NEW p \in Payloads
                 PROVE  /\ view[p] # Nil =>
                              /\ content[view[p]] = data[p]
                              /\ \A q \in Refs(data[p]) : view[q] \in {Nil, view[p]}
                        /\ pc[p] = "decode" => content[buffer[data[p]]] = data[p]
      BY DEF BytesStayValid
    <2>1. data[p] # Nil => data[p] \in Data /\ IsLive(data[p])
      BY DEF PayloadInv, TypeOK, IsLive, Refs
    <2>2. ASSUME view[p] # Nil
          PROVE  /\ content[view[p]] = data[p]
                 /\ \A q \in Refs(data[p]) : view[q] \in {Nil, view[p]}
      <3>1. data[p] # Nil /\ view[p] = buffer[data[p]]
        BY <2>2 DEF PayloadInv, ViewsCurrent
      <3> QED
        BY <2>1, <2>2, <3>1 DEF PayloadInv, ViewsCurrent, DataComplete, Refs
    <2>3. ASSUME pc[p] = "decode"
          PROVE  content[buffer[data[p]]] = data[p]
      <3>1. data[p] # Nil /\ ~hasValue[data[p]]
        BY <2>3 DEF PayloadInv, MutexHeld, StillMissing
      <3> QED
        BY <2>1, <3>1 DEF PayloadInv, DataComplete
    <2> QED
      BY <2>2, <2>3
  <1> QED
    BY <1>1, PayloadInvariant, PTL

(* A buffer is in the pool once, or holds the encoding of one payloadData, or is
   the scratch buffer of one call of String(). *)
THEOREM OneOwnerPerBuffer == Spec => []BufferHasOneOwner
  <1>1. PayloadInv => BufferHasOneOwner
    <2> SUFFICES ASSUME PayloadInv, NEW b \in Buffers
                 PROVE  pool[b] + Cardinality(OwnersOf(b)) <= 1
      BY DEF BufferHasOneOwner
    <2>1. b # Nil /\ pool[b] \in Nat
      BY DEF PayloadInv, TypeOK
    <2>2. \A x, y \in OwnersOf(b) : x = y
      <3> SUFFICES ASSUME NEW x \in OwnersOf(b), NEW y \in OwnersOf(b) PROVE x = y
        OBVIOUS
      <3>1. CASE \E d \in Data : x = <<"data", d>> /\ IsLive(d) /\ buffer[d] = b
        BY <2>1, <3>1 DEF PayloadInv, OneOwner, OwnersOf
      <3>2. CASE \E p \in Payloads : x = <<"scratch", p>> /\ scratch[p] = b
        BY <2>1, <3>2 DEF PayloadInv, OneOwner, OwnersOf
      <3> QED
        BY <3>1, <3>2 DEF OwnersOf
    <2>3. CASE OwnersOf(b) = {}
      <3>1. pool[b] = 0 \/ pool[b] = 1
        BY DEF PayloadInv, OneOwner
      <3> QED
        BY <2>3, <3>1, FS_EmptySet
    <2>4. CASE OwnersOf(b) # {}
      <3>1. PICK x \in OwnersOf(b) : OwnersOf(b) = {x}
        BY <2>2, <2>4
      <3>2. Cardinality(OwnersOf(b)) = 1
        BY <3>1, FS_Singleton
      <3>3. pool[b] = 0
        BY <2>4 DEF PayloadInv, OneOwner, OwnersOf
      <3> QED
        BY <3>2, <3>3
    <2> QED
      BY <2>3, <2>4
  <1> QED
    BY <1>1, PayloadInvariant, PTL
=============================================================================
