------------------------------ MODULE Payload -------------------------------
(***************************************************************************)
(* Payloads (rinq/payload.go) and the pool that their buffers come from    *)
(* (internal/x/bufferpool).  Clones of a payload share one payloadData,    *)
(* which counts them and gives its buffer back to the pool when the last   *)
(* one is closed; the bytes that an application got from Bytes() live in   *)
(* that buffer.  A Payload is used by one goroutine at a time, as its      *)
(* documentation demands, while its clones are used by others.             *)
(*                                                                         *)
(* A buffer holds the encoding of a payloadData, named by that payloadData *)
(* itself, or Nil after Reset().  A critical section that takes only one   *)
(* mutex and waits for nothing inside it is one step.                      *)
(***************************************************************************)
EXTENDS Integers, FiniteSets

CONSTANTS Payloads,   \* the Payload structs, each with the goroutine that uses it
          Data,       \* the payloadData structs, taken again when nothing points at them
          Buffers,    \* the bytes.Buffers, likewise
          Nil

ASSUME PayloadsAssumption == IsFiniteSet(Payloads)
ASSUME NilAssumption      == Nil \notin Payloads \cup Data \cup Buffers

VARIABLES data,         \* p.data; while p is in Close(), the local variable data
          pc,           \* where the goroutine of a payload is
          scratch,      \* the buffer that String() has taken
          view,         \* the buffer behind the slice that Bytes() last returned
          refCount,
          buffer,
          hasValue,
          readMutex,    \* the payload whose goroutine holds it, or Nil
          writeMutex,
          content,      \* what a buffer holds
          pool          \* how many times a buffer is in the pool

local  == <<data, pc, scratch, view>>
shared == <<refCount, buffer, hasValue, readMutex, writeMutex>>
vars   == <<local, shared, content, pool>>

Places == {"idle", "wantBytes", "bytes", "wantEncode", "encode",
           "wantValue", "value", "wantDecode", "decode", "closing"}

Refs(d)     == {p \in Payloads : data[p] = d}
IsLive(d)   == Refs(d) # {}
IsPointedAt(b) ==
    \/ pool[b] > 0
    \/ \E d \in Data : IsLive(d) /\ buffer[d] = b
    \/ \E p \in Payloads : b \in {scratch[p], view[p]}

Init ==
    /\ data       = [p \in Payloads |-> Nil]
    /\ pc         = [p \in Payloads |-> "idle"]
    /\ scratch    = [p \in Payloads |-> Nil]
    /\ view       = [p \in Payloads |-> Nil]
    /\ refCount   = [d \in Data |-> 0]
    /\ buffer     = [d \in Data |-> Nil]
    /\ hasValue   = [d \in Data |-> FALSE]
    /\ readMutex  = [d \in Data |-> Nil]
    /\ writeMutex = [d \in Data |-> Nil]
    /\ content    = [b \in Buffers |-> Nil]
    /\ pool       = [b \in Buffers |-> 0]

-----------------------------------------------------------------------------
(***************************************************************************)
(* The pool.  sync.Pool promises nothing about which of its items Get      *)
(* returns, nor that it keeps them, so a new buffer is always possible.    *)
(***************************************************************************)
Get(b) ==
    \/ pool[b] > 0 /\ pool' = [pool EXCEPT ![b] = @ - 1]
    \/ ~IsPointedAt(b) /\ UNCHANGED pool

Put(b) ==
    /\ pool'    = [pool EXCEPT ![b] = @ + 1]
    /\ content' = [content EXCEPT ![b] = Nil]

-----------------------------------------------------------------------------
(***************************************************************************)
(* Making payloads: a struct that is nil or closed is as good as a new one.*)
(***************************************************************************)
IsNew(p, d) == pc[p] = "idle" /\ data[p] = Nil /\ ~IsLive(d)

MakeData(p, d) ==
    /\ data'     = [data EXCEPT ![p] = d]
    /\ refCount' = [refCount EXCEPT ![d] = 1]
    /\ UNCHANGED <<pc, scratch, view, readMutex, writeMutex, pool>>

NewPayload(p, d) ==
    /\ IsNew(p, d)
    /\ MakeData(p, d)
    /\ hasValue' = [hasValue EXCEPT ![d] = TRUE]
    /\ buffer'   = [buffer EXCEPT ![d] = Nil]
    /\ UNCHANGED content

(* The slice, and so the buffer made around it, becomes the payload's own. *)
NewPayloadFromBytes(p, d, b) ==
    /\ IsNew(p, d)
    /\ ~IsPointedAt(b)
    /\ MakeData(p, d)
    /\ hasValue' = [hasValue EXCEPT ![d] = FALSE]
    /\ buffer'   = [buffer EXCEPT ![d] = b]
    /\ content'  = [content EXCEPT ![b] = d]

Clone(p, q) ==
    /\ pc[p] = "idle" /\ data[p] # Nil
    /\ pc[q] = "idle" /\ data[q] = Nil
    /\ writeMutex[data[p]] = Nil
    /\ refCount' = [refCount EXCEPT ![data[p]] = @ + 1]
    /\ data'     = [data EXCEPT ![q] = data[p]]
    /\ UNCHANGED <<pc, scratch, view, buffer, hasValue, readMutex, writeMutex, content, pool>>

-----------------------------------------------------------------------------
(***************************************************************************)
(* Bytes(), Value() and String() on payload p: both mutexes in the same    *)
(* order, the second only if the buffer, or the value, is still missing.   *)
(* Len() and Decode() are Bytes() and no further state.                    *)
(***************************************************************************)
Goes(p, from, to) == pc[p] = from /\ pc' = [pc EXCEPT ![p] = to]

Unlocks(p) == readMutex' = [readMutex EXCEPT ![data[p]] = Nil]

CallBytes(p) ==
    /\ data[p] # Nil
    /\ Goes(p, "idle", "wantBytes")
    /\ UNCHANGED <<data, scratch, view, shared, content, pool>>

CallValue(p) ==
    /\ data[p] # Nil
    /\ Goes(p, "idle", "wantValue")
    /\ UNCHANGED <<data, scratch, view, shared, content, pool>>

(* String() first takes a buffer for the text, then asks for the value. *)
CallString(p) ==
    /\ data[p] # Nil
    /\ Goes(p, "idle", "wantValue")
    /\ \E b \in Buffers : Get(b) /\ scratch' = [scratch EXCEPT ![p] = b]
    /\ UNCHANGED <<data, view, shared, content>>

(* Fault: Bytes and Value do without the read mutex. *)
LockNothing(p) ==
    /\ \/ Goes(p, "wantBytes", "bytes")
       \/ Goes(p, "wantValue", "value")
    /\ UNCHANGED <<data, scratch, view, shared, content, pool>>

LockRead(p) ==
    /\ \/ Goes(p, "wantBytes", "bytes")
       \/ Goes(p, "wantValue", "value")
    /\ readMutex[data[p]] = Nil
    /\ readMutex' = [readMutex EXCEPT ![data[p]] = p]
    /\ UNCHANGED <<data, scratch, view, refCount, buffer, hasValue, writeMutex, content, pool>>

FindMissing(p) ==
    /\ \/ Goes(p, "bytes", "wantEncode") /\ buffer[data[p]] = Nil
       \/ Goes(p, "value", "wantDecode") /\ ~hasValue[data[p]]
    /\ UNCHANGED <<data, scratch, view, shared, content, pool>>

LockWrite(p) ==
    /\ \/ Goes(p, "wantEncode", "encode")
       \/ Goes(p, "wantDecode", "decode")
    /\ writeMutex[data[p]] = Nil
    /\ writeMutex' = [writeMutex EXCEPT ![data[p]] = p]
    /\ UNCHANGED <<data, scratch, view, refCount, buffer, hasValue, readMutex, content, pool>>

ReturnBytes(p) ==
    /\ Goes(p, "bytes", "idle")
    /\ buffer[data[p]] # Nil
    /\ Unlocks(p)
    /\ view' = [view EXCEPT ![p] = buffer[data[p]]]
    /\ UNCHANGED <<data, scratch, refCount, buffer, hasValue, writeMutex, content, pool>>

Encode(p) ==
    /\ Goes(p, "encode", "idle")
    /\ \E b \in Buffers :
          /\ Get(b)
          /\ content' = [content EXCEPT ![b] = data[p]]
          /\ buffer'  = [buffer EXCEPT ![data[p]] = b]
          /\ view'    = [view EXCEPT ![p] = b]
    /\ writeMutex' = [writeMutex EXCEPT ![data[p]] = Nil]
    /\ Unlocks(p)
    /\ UNCHANGED <<data, scratch, refCount, hasValue>>

(* Fault: the early return of Value() leaves the read mutex locked. *)
ReturnLocked(p) ==
    /\ Goes(p, "value", "idle")
    /\ hasValue[data[p]]
    /\ UNCHANGED <<data, scratch, view, shared, content, pool>>

(* The value is there: Value() returns it, and String() makes its text in the
   buffer it took, which goes back to the pool. *)
ReturnValue(p) ==
    /\ Goes(p, "value", "idle")
    /\ hasValue[data[p]]
    /\ Unlocks(p)
    /\ \/ scratch[p] = Nil /\ UNCHANGED <<scratch, content, pool>>
       \/ /\ scratch[p] # Nil
          /\ Put(scratch[p])
          /\ scratch' = [scratch EXCEPT ![p] = Nil]
    /\ UNCHANGED <<data, view, refCount, buffer, hasValue, writeMutex>>

(* The value is decoded into data.value, and ReturnValue gives it to the caller;
   the read mutex is held until then. *)
Decode(p) ==
    /\ Goes(p, "decode", "value")
    /\ hasValue'   = [hasValue EXCEPT ![data[p]] = TRUE]
    /\ writeMutex' = [writeMutex EXCEPT ![data[p]] = Nil]
    /\ UNCHANGED <<data, scratch, view, refCount, buffer, readMutex, content, pool>>

-----------------------------------------------------------------------------
(***************************************************************************)
(* Close(): p.data is nil from the start, so that p is not closed twice;   *)
(* the slices that Bytes() returned are no longer to be used.              *)
(***************************************************************************)
Close(p) ==
    /\ data[p] # Nil
    /\ Goes(p, "idle", "closing")
    /\ view' = [view EXCEPT ![p] = Nil]
    /\ UNCHANGED <<data, scratch, shared, content, pool>>

(* Fault: p.data is not reset, and the payload can be closed again. *)
ReleaseKeepsData(p) ==
    /\ Goes(p, "closing", "idle")
    /\ writeMutex[data[p]] = Nil
    /\ refCount' = [refCount EXCEPT ![data[p]] = @ - 1]
    /\ IF refCount[data[p]] = 1 /\ buffer[data[p]] # Nil
       THEN Put(buffer[data[p]])
       ELSE UNCHANGED <<content, pool>>
    /\ UNCHANGED <<data, scratch, view, buffer, hasValue, readMutex, writeMutex>>

Release(p) ==
    /\ Goes(p, "closing", "idle")
    /\ writeMutex[data[p]] = Nil
    /\ refCount' = [refCount EXCEPT ![data[p]] = @ - 1]
    /\ IF refCount[data[p]] = 1 /\ buffer[data[p]] # Nil
       THEN Put(buffer[data[p]])
       ELSE UNCHANGED <<content, pool>>
    /\ data' = [data EXCEPT ![p] = Nil]
    /\ UNCHANGED <<scratch, view, buffer, hasValue, readMutex, writeMutex>>

-----------------------------------------------------------------------------
Make(p) ==
    \/ \E d \in Data : NewPayload(p, d) \/ \E b \in Buffers : NewPayloadFromBytes(p, d, b)
    \/ \E q \in Payloads : Clone(p, q)

Use(p) == CallBytes(p) \/ CallValue(p) \/ CallString(p) \/ Close(p)

Continue(p) == ReturnBytes(p) \/ FindMissing(p) \/ Encode(p) \/ ReturnValue(p) \/ Decode(p)

Next == \E p \in Payloads : Make(p) \/ Use(p) \/ LockRead(p) \/ LockWrite(p) \/ Continue(p) \/ Release(p)

Spec == Init /\ [][Next]_vars

(* Goroutines run, and a mutex that is free again and again is given to everyone
   who waits for it; no application has to go on making, using or closing
   payloads.  The write mutex needs no such promise: it is held over several
   steps once to encode and once to decode. *)
FairSpec ==
    /\ Spec
    /\ \A p \in Payloads :
          /\ WF_vars(Continue(p) \/ LockWrite(p) \/ Release(p))
          /\ SF_vars(LockRead(p))

-----------------------------------------------------------------------------
(***************************************************************************)
(* Properties.                                                             *)
(***************************************************************************)

(* Every variable keeps its type; the count never goes below zero, which
   for a uint would be to wrap. *)
TypeOK ==
    /\ data       \in [Payloads -> Data \cup {Nil}]
    /\ pc         \in [Payloads -> Places]
    /\ scratch    \in [Payloads -> Buffers \cup {Nil}]
    /\ view       \in [Payloads -> Buffers \cup {Nil}]
    /\ refCount   \in [Data -> Nat]
    /\ buffer     \in [Data -> Buffers \cup {Nil}]
    /\ hasValue   \in [Data -> BOOLEAN]
    /\ readMutex  \in [Data -> Payloads \cup {Nil}]
    /\ writeMutex \in [Data -> Payloads \cup {Nil}]
    /\ content    \in [Buffers -> Data \cup {Nil}]
    /\ pool       \in [Buffers -> Nat]

(* The slice that Bytes() returned is, until that payload is closed, the
   encoding of the payload's value, whatever other goroutines do with its
   clones and with the pool; all clones see the same slice, and the buffer
   that Value() decodes holds that encoding too. *)
BytesStayValid ==
    \A p \in Payloads :
        /\ view[p] # Nil =>
              /\ content[view[p]] = data[p]
              /\ \A q \in Refs(data[p]) : view[q] \in {Nil, view[p]}
        /\ pc[p] = "decode" => content[buffer[data[p]]] = data[p]

(* A buffer has one owner: it is in the pool once, or a payload that is not
   closed keeps its encoding there, or one call of String() writes to it. *)
OwnersOf(b) ==
    {<<"data", d>> : d \in {x \in Data : IsLive(x) /\ buffer[x] = b}}
       \cup {<<"scratch", p>> : p \in {x \in Payloads : scratch[x] = b}}

BufferHasOneOwner ==
    \A b \in Buffers : pool[b] + Cardinality(OwnersOf(b)) <= 1

(* Every call on a payload returns: no order of Bytes, Value, Clone and Close
   on its clones leaves a goroutine waiting for a mutex for ever. *)
CallsReturn == \A p \in Payloads : pc[p] # "idle" ~> pc[p] = "idle"
=============================================================================
