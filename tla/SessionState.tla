---------------------------- MODULE SessionState ----------------------------
(***************************************************************************)
(* The state of one session on the peer that owns it, and the operations   *)
(* of localsession/session_state.go that the local revisions, the remote   *)
(* session server and the session itself share.                            *)
(*                                                                         *)
(* Every operation runs under Session.mutex from its first test to its     *)
(* last assignment, so each is one step.                                   *)
(***************************************************************************)
EXTENDS Attributes

CONSTANTS Lists,   \* the lists of attributes that callers pass to Update
          MaxRev   \* bound on the revision number, a uint32 in the code

ASSUME ListsAssumption  == Lists \subseteq Seq(Attr)
ASSUME MaxRevAssumption == MaxRev \in Nat

VARIABLES rev,          \* s.ref.Rev
          msgSeq,       \* s.msgSeq
          isDestroyed,  \* s.isDestroyed
          attrs,        \* s.attrs
          history       \* ghost: history[r] is the attribute table as of r

stateVars == <<rev, msgSeq, isDestroyed, attrs, history>>

AllContents == [Namespaces -> [Keys -> Contents]]

StateInit ==
    /\ rev = 0
    /\ msgSeq = 0
    /\ isDestroyed = FALSE
    /\ attrs = EmptyCatalog
    /\ history = [r \in {0} |-> ContentsOf(EmptyCatalog)]

-----------------------------------------------------------------------------
(***************************************************************************)
(* The tests of TryUpdate, TryClear and TryDestroy, in the code's order.   *)
(***************************************************************************)
(* Faults: a revision that others have superseded, and a destroyed session,
   are not refused. *)
AcceptsOlder(r)     == ~isDestroyed /\ r <= rev
AcceptsDestroyed(r) == r = rev

Accepts(r) == ~isDestroyed /\ r = rev

CanUpdate(r, ns, l) == Accepts(r) /\ ~ViolatesFrozen(attrs[ns], l)

CanClear(r, ns) == Accepts(r) /\ ~ClearViolatesFrozen(attrs[ns])

TryError(r, violation) ==
    IF isDestroyed THEN "notFound"
    ELSE IF r # rev THEN "stale"
    ELSE IF violation THEN "frozen"
    ELSE "ok"

UpdateError(r, ns, l) == TryError(r, ViolatesFrozen(attrs[ns], l))

ClearError(r, ns) == TryError(r, ClearViolatesFrozen(attrs[ns]))

DestroyError(r) == IF r # rev THEN "stale" ELSE "ok"

(***************************************************************************)
(* The effect of a successful TryUpdate or TryClear: a new revision even   *)
(* if the diff is empty, and message sequence numbers that start again.    *)
(* In the fault before it the revision stays.                              *)
(***************************************************************************)
CommitInPlace(ns, t) ==
    /\ msgSeq' = 0
    /\ attrs' = WithNamespace(attrs, ns, t)
    /\ history' = [r \in 0..rev + 1 |->
                      IF r = rev + 1 THEN ContentsOf(attrs') ELSE history[r]]
    /\ UNCHANGED <<rev, isDestroyed>>

Commit(ns, t) ==
    /\ rev < MaxRev
    /\ rev' = rev + 1
    /\ msgSeq' = 0
    /\ attrs' = WithNamespace(attrs, ns, t)
    /\ history' = [r \in 0..rev + 1 |->
                      IF r = rev + 1 THEN ContentsOf(attrs') ELSE history[r]]
    /\ UNCHANGED isDestroyed

TryUpdate(r, ns, l) ==
    /\ CanUpdate(r, ns, l)
    /\ Commit(ns, Updated(attrs[ns], l, rev + 1))

TryClear(r, ns) ==
    /\ CanClear(r, ns)
    /\ Commit(ns, Cleared(attrs[ns], rev + 1))

(***************************************************************************)
(* StateTypeOK is the type of the owner's variables.                       *)
(***************************************************************************)
StateTypeOK ==
    /\ rev \in Nat
    /\ msgSeq \in Nat
    /\ isDestroyed \in BOOLEAN
    /\ attrs \in Catalog
    /\ history \in [0..rev -> AllContents]
=============================================================================
