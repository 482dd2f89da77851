----------------------------- MODULE Attributes -----------------------------
(***************************************************************************)
(* Attribute tables with revision information: internal/attributes and the *)
(* table algorithms of localsession/session_state.go (TryUpdate, TryClear) *)
(* and localsession/revision.go (Get).  There is no state in this module.  *)
(*                                                                         *)
(* A Go map is modelled as a total function: a key that is absent from the *)
(* map holds Absent, the zero VAttr, which is what a Go lookup of an       *)
(* absent key yields.  An entry is only ever inserted with a CreatedAt of  *)
(* at least one, so "exists" is CreatedAt # 0.                             *)
(***************************************************************************)
EXTENDS Naturals, Sequences

CONSTANTS Namespaces,  \* the names of the namespaces
          Keys,        \* attribute keys
          Values,      \* attribute values
          Empty        \* the empty string, one of the values

ASSUME EmptyAssumption == Empty \in Values

(***************************************************************************)
(* rinq.Attr without its key, with its key, and the VAttr that wraps it.   *)
(***************************************************************************)
Contents == [value : Values, frozen : BOOLEAN]
Attr     == [key : Keys, value : Values, frozen : BOOLEAN]
VAttr    == [value : Values, frozen : BOOLEAN, createdAt : Nat, updatedAt : Nat]

VTable  == [Keys -> VAttr]
Catalog == [Namespaces -> VTable]

Blank  == [value |-> Empty, frozen |-> FALSE]
Absent == [value |-> Empty, frozen |-> FALSE, createdAt |-> 0, updatedAt |-> 0]

EmptyTable   == [k \in Keys |-> Absent]
EmptyCatalog == [ns \in Namespaces |-> EmptyTable]

Content(a) == [value |-> a.value, frozen |-> a.frozen]

Exists(e) == e.createdAt # 0

(* What a catalog says when its revision information is left out. *)
ContentsOf(c) == [ns \in Namespaces |-> [k \in Keys |-> Content(c[ns][k])]]

WithNamespace(c, ns, t) == [c EXCEPT ![ns] = t]

-----------------------------------------------------------------------------
(***************************************************************************)
(* Reading an entry at a revision.  Before it was created an attribute is  *)
(* blank; after its last update it is what the entry says; in between its  *)
(* value is no longer known and the read fails with StaleFetchError.       *)
(***************************************************************************)
(* Fault: off by one at the revision of the last update. *)
IsStaleOffByOne(e, r) == e.createdAt <= r /\ r + 1 < e.updatedAt

IsStale(e, r) == e.createdAt <= r /\ r < e.updatedAt

ValueAt(e, r) == IF e.createdAt > r THEN Blank ELSE Content(e)

-----------------------------------------------------------------------------
(***************************************************************************)
(* Applying a list of attributes to a table.  The Go loop visits the list  *)
(* in order and keeps the working table in nextAttrs, so that an item is   *)
(* compared with what an EARLIER item of the same list made of its key.    *)
(* The loop is stated in closed form: WrittenBy is what the first n items  *)
(* leave in key k.                                                         *)
(***************************************************************************)
Writes(l, n, k) == {i \in 1..n : l[i].key = k}

LastOf(S) == CHOOSE i \in S : \A j \in S : j <= i

WrittenBy(t, l, n, k) ==
    IF Writes(l, n, k) = {}
    THEN Content(t[k])
    ELSE Content(l[LastOf(Writes(l, n, k))])

(* Item i is not skipped: it differs from the working table. *)
Changes(t, l, i) == Content(l[i]) # WrittenBy(t, l, i - 1, l[i].key)

(* Fault: an item that thaws an attribute without changing its value passes. *)
ViolatesFrozenValues(t, l) ==
    \E i \in 1..Len(l) :
        LET before == WrittenBy(t, l, i - 1, l[i].key)
        IN before.frozen /\ l[i].value # before.value

ViolatesFrozen(t, l) ==
    \E i \in 1..Len(l) :
        /\ Changes(t, l, i)
        /\ WrittenBy(t, l, i - 1, l[i].key).frozen

(* Fault: items that change nothing are not skipped. *)
IsNamed(t, l, k) == Writes(l, Len(l), k) # {}

IsChanged(t, l, k) == \E i \in Writes(l, Len(l), k) : Changes(t, l, i)

(* The table after the loop, when no item violates a frozen attribute. *)
Updated(t, l, r) ==
    [k \in Keys |->
        IF IsChanged(t, l, k)
        THEN LET c == WrittenBy(t, l, Len(l), k)
             IN [value     |-> c.value,
                 frozen    |-> c.frozen,
                 createdAt |-> IF Exists(t[k]) THEN t[k].createdAt ELSE r,
                 updatedAt |-> r]
        ELSE t[k]]

-----------------------------------------------------------------------------
(***************************************************************************)
(* Clearing a table: every non-empty attribute becomes the empty string,   *)
(* unless one of them is frozen.                                           *)
(***************************************************************************)
(* Fault: IsFrozen is not tested. *)
HoldsSomething(t) == \E k \in Keys : t[k].value # Empty

ClearViolatesFrozen(t) == \E k \in Keys : t[k].value # Empty /\ t[k].frozen

Cleared(t, r) ==
    [k \in Keys |->
        IF t[k].value # Empty
        THEN [t[k] EXCEPT !.value = Empty, !.updatedAt = r]
        ELSE t[k]]
=============================================================================
