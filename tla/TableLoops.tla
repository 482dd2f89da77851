----------------------------- MODULE TableLoops -----------------------------
(***************************************************************************)
(* The loops of TryUpdate and TryClear (localsession/session_state.go),    *)
(* an iteration at a time.  Attributes states their results in closed      *)
(* form; this module is the evidence that the closed form is the loop's.   *)
(* The session's mutex is held throughout, so in the other modules a whole *)
(* loop is a part of one step.                                             *)
(***************************************************************************)
EXTENDS Attributes

CONSTANTS Lists,   \* the lists of attributes passed to TryUpdate
          MaxRev   \* bound on the revisions that tables mention

ASSUME ListsAssumption  == Lists \subseteq Seq(Attr)
ASSUME MaxRevAssumption == MaxRev \in Nat

VARIABLES op,         \* which loop runs
          list,       \* the argument attrs of TryUpdate
          table,      \* s.attrs[ns]
          nextRev,
          nextAttrs,
          changed,    \* the keys of the entries in diff
          i,          \* the index of the next item of list
          left,       \* the keys that the range over the Go map has not visited
          pc          \* "loop" until the loop ends or returns

inputs == <<op, list, table, nextRev>>
vars   == <<inputs, nextAttrs, changed, i, left, pc>>

(* The entries that a table can hold before revision r is made. *)
EntriesBefore(r) ==
    {e \in [value : Values, frozen : BOOLEAN, createdAt : 0..r - 1, updatedAt : 0..r - 1] :
        /\ e.createdAt <= e.updatedAt
        /\ e.createdAt = 0 => e = Absent}

Init ==
    /\ nextRev \in 1..MaxRev
    /\ table \in [Keys -> EntriesBefore(nextRev)]
    /\ changed = {}
    /\ i = 1
    /\ pc = "loop"
    /\ \/ /\ op = "update"
          /\ list \in Lists
          /\ nextAttrs = table
          /\ left = {}
       \/ /\ op = "clear"
          /\ list = <<>>
          /\ nextAttrs = EmptyTable
          /\ left = {k \in Keys : Exists(table[k])}

-----------------------------------------------------------------------------
(* TryUpdate: the item at i against the working table. *)
AtItem == pc = "loop" /\ op = "update" /\ i <= Len(list)

(* Fault: the item is compared with the table as it was before the loop. *)
EntryBefore == table[list[i].key]

Entry   == nextAttrs[list[i].key]
Differs == Content(list[i]) # Content(Entry)

SkipItem ==
    /\ AtItem
    /\ ~Differs
    /\ i' = i + 1
    /\ UNCHANGED <<inputs, nextAttrs, changed, left, pc>>

RefuseItem ==
    /\ AtItem
    /\ Differs
    /\ Entry.frozen
    /\ pc' = "frozen"
    /\ UNCHANGED <<inputs, nextAttrs, changed, i, left>>

WriteItem ==
    /\ AtItem
    /\ Differs
    /\ ~Entry.frozen
    /\ nextAttrs' = [nextAttrs EXCEPT ![list[i].key] =
                        [value     |-> list[i].value,
                         frozen    |-> list[i].frozen,
                         createdAt |-> IF Exists(Entry) THEN Entry.createdAt ELSE nextRev,
                         updatedAt |-> nextRev]]
    /\ changed' = changed \cup {list[i].key}
    /\ i' = i + 1
    /\ UNCHANGED <<inputs, left, pc>>

-----------------------------------------------------------------------------
(* Fault: an entry that is empty already is not copied to the new map. *)
DropEntry(k) ==
    /\ pc = "loop" /\ k \in left
    /\ table[k].value = Empty
    /\ left' = left \ {k}
    /\ UNCHANGED <<inputs, nextAttrs, changed, i, pc>>

(* TryClear: any entry of the map that has not been visited, since Go gives a
   range over a map no order. *)
KeepEntry(k) ==
    /\ pc = "loop" /\ k \in left
    /\ table[k].value = Empty
    /\ nextAttrs' = [nextAttrs EXCEPT ![k] = table[k]]
    /\ left' = left \ {k}
    /\ UNCHANGED <<inputs, changed, i, pc>>

RefuseEntry(k) ==
    /\ pc = "loop" /\ k \in left
    /\ table[k].value # Empty
    /\ table[k].frozen
    /\ pc' = "frozen"
    /\ UNCHANGED <<inputs, nextAttrs, changed, i, left>>

ClearEntry(k) ==
    /\ pc = "loop" /\ k \in left
    /\ table[k].value # Empty
    /\ ~table[k].frozen
    /\ nextAttrs' = [nextAttrs EXCEPT ![k] =
                        [table[k] EXCEPT !.value = Empty, !.updatedAt = nextRev]]
    /\ changed' = changed \cup {k}
    /\ left' = left \ {k}
    /\ UNCHANGED <<inputs, i, pc>>

Finish ==
    /\ pc = "loop"
    /\ i > Len(list)
    /\ left = {}
    /\ pc' = "done"
    /\ UNCHANGED <<inputs, nextAttrs, changed, i, left>>

Next ==
    \/ SkipItem \/ RefuseItem \/ WriteItem
    \/ \E k \in Keys : KeepEntry(k) \/ RefuseEntry(k) \/ ClearEntry(k)
    \/ Finish

Spec == Init /\ [][Next]_vars

-----------------------------------------------------------------------------
(***************************************************************************)
(* Properties.                                                             *)
(***************************************************************************)

(* Every variable keeps its type. *)
TypeOK ==
    /\ op \in {"update", "clear"}
    /\ list \in Seq(Attr)
    /\ table \in VTable
    /\ nextRev \in Nat \ {0}
    /\ nextAttrs \in VTable
    /\ changed \subseteq Keys
    /\ i \in 1..Len(list) + 1
    /\ left \subseteq Keys
    /\ pc \in {"loop", "frozen", "done"}

(* The table that the session has after the loop (session_state.go:95, :146):
   it is replaced only if the diff is not empty. *)
Result == IF changed = {} THEN table ELSE nextAttrs

(* The update loop refuses a list exactly when ViolatesFrozen says so, and
   otherwise makes the table that Updated describes: with keys named twice,
   values that are changed and changed back, and attributes that the list
   itself freezes. *)
UpdateLoopIsUpdated ==
    /\ (op = "update" /\ pc = "frozen") => ViolatesFrozen(table, list)
    /\ (op = "update" /\ pc = "done") =>
          /\ ~ViolatesFrozen(table, list)
          /\ Result = Updated(table, list, nextRev)

(* The clear loop refuses a table exactly when ClearViolatesFrozen says so,
   and otherwise makes the table that Cleared describes, whatever order the
   map is visited in; no entry is left out of the new map. *)
ClearLoopIsCleared ==
    /\ (op = "clear" /\ pc = "frozen") => ClearViolatesFrozen(table)
    /\ (op = "clear" /\ pc = "done") =>
          /\ ~ClearViolatesFrozen(table)
          /\ Result = Cleared(table, nextRev)
=============================================================================
