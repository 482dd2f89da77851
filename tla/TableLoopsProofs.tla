-------------------------- MODULE TableLoopsProofs --------------------------
(***************************************************************************)
(* The loops of TryUpdate and TryClear compute what Attributes says they   *)
(* do, for tables of any size and lists of any length: the invariant of a  *)
(* loop is the closed form for the items visited so far.                   *)
(***************************************************************************)
EXTENDS TableLoops, TLAPS

(* Some of the first n items changes key k. *)
ChangedBy(n, k) == \E j \in Writes(list, n, k) : Changes(table, list, j)

(* No item visited so far violates a frozen attribute. *)
NoViolation(n) ==
    \A j \in 1..n : Changes(table, list, j) =>
                       ~WrittenBy(table, list, j - 1, list[j].key).frozen

(* The working table before item i: every key holds what the items before i
   made of it, and is dated with the new revision if one of them changed it. *)
UpdateInv ==
    op = "update" =>
        /\ left = {}
        /\ changed = {k \in Keys : ChangedBy(i - 1, k)}
        /\ NoViolation(i - 1)
        /\ \A k \in Keys : Content(nextAttrs[k]) = WrittenBy(table, list, i - 1, k)
        /\ \A k \in Keys :
              IF k \in changed
              THEN /\ nextAttrs[k].updatedAt = nextRev
                   /\ nextAttrs[k].createdAt =
                         IF Exists(table[k]) THEN table[k].createdAt ELSE nextRev
              ELSE nextAttrs[k] = table[k]
        /\ pc = "done" => i = Len(list) + 1
        /\ pc = "frozen" => ViolatesFrozen(table, list)

(* The new map of TryClear has the entries visited so far, and no other. *)
ClearInv ==
    op = "clear" =>
        /\ list = <<>> /\ i = 1
        /\ \A k \in Keys : ~Exists(table[k]) => table[k] = Absent
        /\ \A k \in left : Exists(table[k])
        /\ \A k \in Keys :
              IF Exists(table[k]) /\ k \notin left
              THEN /\ nextAttrs[k] = Cleared(table, nextRev)[k]
                   /\ ~(table[k].value # Empty /\ table[k].frozen)
                   /\ table[k].value # Empty => k \in changed
              ELSE nextAttrs[k] = Absent
        /\ \A k \in changed : table[k].value # Empty
        /\ pc = "done" => left = {}
        /\ pc = "frozen" => ClearViolatesFrozen(table)

LoopInv == TypeOK /\ UpdateInv /\ ClearInv

-----------------------------------------------------------------------------
(***************************************************************************)
(* The closed form, one item at a time.                                    *)
(***************************************************************************)

(* Item n is the last of the first n items to write its key. *)
LEMMA WritesOfPrefix ==
    ASSUME NEW l, NEW n \in Nat \ {0}, NEW k
    PROVE  /\ Writes(l, n, k) = IF l[n].key = k
                                THEN Writes(l, n - 1, k) \cup {n}
                                ELSE Writes(l, n - 1, k)
           /\ l[n].key = k => LastOf(Writes(l, n, k)) = n
  <1>1. Writes(l, n, k) = IF l[n].key = k
                          THEN Writes(l, n - 1, k) \cup {n}
                          ELSE Writes(l, n - 1, k)
    BY DEF Writes
  <1>2. ASSUME l[n].key = k PROVE LastOf(Writes(l, n, k)) = n
    <2> DEFINE S == Writes(l, n, k)
    <2>1. n \in S /\ S \subseteq Nat /\ \A j \in S : j <= n
      BY <1>2 DEF Writes
    <2> HIDE DEF S
    <2>2. LastOf(S) \in S /\ n <= LastOf(S)
      BY <2>1 DEF LastOf
    <2>3. LastOf(S) <= n /\ LastOf(S) \in Nat
      BY <2>1, <2>2
    <2> QED
      BY <2>2, <2>3 DEF S
  <1> QED
    BY <1>1, <1>2

(* What the first n items leave in a key, from what the first n - 1 leave. *)
LEMMA WrittenByPrefix ==
    ASSUME NEW t, NEW l, NEW n \in Nat \ {0}, NEW k
    PROVE  WrittenBy(t, l, n, k) = IF l[n].key = k
                                   THEN Content(l[n])
                                   ELSE WrittenBy(t, l, n - 1, k)
  <1>1. CASE l[n].key = k
    <2>1. Writes(l, n, k) # {}
      BY <1>1, WritesOfPrefix
    <2> QED
      BY <1>1, <2>1, WritesOfPrefix DEF WrittenBy
  <1>2. CASE l[n].key # k
    BY <1>2, WritesOfPrefix DEF WrittenBy
  <1> QED
    BY <1>1, <1>2

-----------------------------------------------------------------------------
(* Before the loops nothing has been visited. *)
LEMMA InitLoopInv == Init => LoopInv
  <1> SUFFICES ASSUME Init PROVE LoopInv
    OBVIOUS
  <1>1. nextRev \in Nat \ {0} /\ \A k \in Keys : table[k] \in EntriesBefore(nextRev)
    BY MaxRevAssumption DEF Init
  <1>2. table \in VTable /\ \A k \in Keys : ~Exists(table[k]) => table[k] = Absent
    BY <1>1 DEF Init, EntriesBefore, VTable, VAttr, Exists
  <1>3. EmptyTable \in VTable /\ \A k \in Keys : EmptyTable[k] = Absent
    BY EmptyAssumption DEF EmptyTable, Absent, VTable, VAttr
  <1>a. list \in Lists \/ list = <<>>
    BY DEF Init
  <1>b. list \in Seq(Attr)
    <2>1. CASE list \in Lists
      BY <2>1, ListsAssumption
    <2>2. CASE list = <<>>
      BY <2>2
    <2> QED
      BY <1>a, <2>1, <2>2
  <1>4. list \in Seq(Attr) /\ Len(list) \in Nat
    BY <1>b
  <1>5. TypeOK
    BY <1>1, <1>2, <1>3, <1>4 DEF Init, TypeOK
  <1>6. UpdateInv
    <2> SUFFICES ASSUME op = "update" PROVE UpdateInv
      BY DEF UpdateInv
    <2>1. nextAttrs = table /\ left = {} /\ changed = {} /\ i - 1 = 0 /\ pc = "loop"
      BY DEF Init
    <2>2. \A k : Writes(list, 0, k) = {}
      BY DEF Writes
    <2>3. \A k \in Keys : WrittenBy(table, list, 0, k) = Content(table[k]) /\ ~ChangedBy(0, k)
      BY <2>2 DEF WrittenBy, ChangedBy
    <2>4. NoViolation(0)
      BY DEF NoViolation
    <2> QED
      BY <2>1, <2>3, <2>4 DEF UpdateInv
  <1>7. ClearInv
    BY <1>2, <1>3 DEF Init, ClearInv
  <1> QED
    BY <1>5, <1>6, <1>7 DEF LoopInv

(***************************************************************************)
(* The steps of the update loop, at item i.                                *)
(***************************************************************************)
(* The item meets what the items before it made of its key. *)
LEMMA ItemMeets ==
    ASSUME LoopInv, AtItem
    PROVE  /\ op = "update" /\ i \in 1..Len(list) /\ i \in Nat \ {0} /\ Len(list) \in Nat
           /\ list[i] \in Attr /\ list[i].key \in Keys
           /\ Content(Entry) = WrittenBy(table, list, i - 1, list[i].key)
           /\ Differs <=> Changes(table, list, i)
           /\ Entry.frozen = WrittenBy(table, list, i - 1, list[i].key).frozen
  <1>1. op = "update" /\ list \in Seq(Attr) /\ i \in 1..Len(list) + 1 /\ i <= Len(list)
    BY DEF LoopInv, TypeOK, AtItem
  <1>2. i \in 1..Len(list) /\ i \in Nat \ {0} /\ Len(list) \in Nat
    BY <1>1
  <1>3. list[i] \in Attr
    BY <1>1, <1>2
  <1>4. list[i].key \in Keys
    BY <1>3 DEF Attr
  <1>5. Content(Entry) = WrittenBy(table, list, i - 1, list[i].key)
    BY <1>1, <1>4 DEF LoopInv, UpdateInv, Entry
  <1>6. Differs <=> Changes(table, list, i)
    BY <1>5 DEF Differs, Changes
  <1>7. Entry.frozen = Content(Entry).frozen
    BY DEF Content
  <1> QED
    BY <1>1, <1>2, <1>3, <1>4, <1>5, <1>6, <1>7

(* Which keys the first i items change, from which the first i - 1 change. *)
LEMMA ChangedByItem ==
    ASSUME NEW n \in Nat \ {0}, NEW k
    PROVE  ChangedBy(n, k) <=>
              ChangedBy(n - 1, k) \/ (list[n].key = k /\ Changes(table, list, n))
  BY WritesOfPrefix DEF ChangedBy

(* An item that is skipped changes nothing, in the table or in the closed form. *)
LEMMA SkipItemInv ==
    ASSUME LoopInv, SkipItem
    PROVE  LoopInv'
  <1>1. /\ AtItem /\ ~Differs /\ i' = i + 1
        /\ UNCHANGED <<op, list, table, nextRev, nextAttrs, changed, left, pc>>
    BY DEF SkipItem, inputs
  <1>2. /\ op = "update" /\ i \in 1..Len(list) /\ i \in Nat \ {0} /\ Len(list) \in Nat
        /\ list[i].key \in Keys
        /\ Content(Entry) = WrittenBy(table, list, i - 1, list[i].key)
        /\ ~Changes(table, list, i) /\ Content(list[i]) = Content(Entry)
    BY <1>1, ItemMeets DEF Differs
  <1>3. TypeOK'
    BY <1>1, <1>2 DEF LoopInv, TypeOK
  <1>4. /\ \A k \in Keys : WrittenBy(table, list, i, k) = WrittenBy(table, list, i - 1, k)
        /\ \A k \in Keys : ChangedBy(i, k) <=> ChangedBy(i - 1, k)
    BY <1>2, WrittenByPrefix, ChangedByItem
  <1>5. NoViolation(i)
    BY <1>2 DEF LoopInv, UpdateInv, NoViolation
  <1>6. (i + 1) - 1 = i
    BY <1>2
  <1>7. UpdateInv'
    BY <1>1, <1>2, <1>4, <1>5, <1>6 DEF AtItem, LoopInv, UpdateInv, ChangedBy, NoViolation
  <1>8. ClearInv'
    BY <1>1, <1>2 DEF ClearInv
  <1> QED
    BY <1>3, <1>7, <1>8 DEF LoopInv

(* An item is refused exactly where the closed form has a violation. *)
LEMMA RefuseItemInv ==
    ASSUME LoopInv, RefuseItem
    PROVE  LoopInv'
  <1>1. /\ AtItem /\ Differs /\ Entry.frozen /\ pc' = "frozen"
        /\ UNCHANGED <<op, list, table, nextRev, nextAttrs, changed, left, i>>
    BY DEF RefuseItem, inputs
  <1>2. ViolatesFrozen(table, list)
    BY <1>1, ItemMeets DEF ViolatesFrozen
  <1>3. TypeOK'
    BY <1>1 DEF LoopInv, TypeOK
  <1>4. UpdateInv'
    BY <1>1, <1>2 DEF LoopInv, UpdateInv, ChangedBy, NoViolation
  <1>5. ClearInv'
    BY <1>1, ItemMeets DEF ClearInv
  <1> QED
    BY <1>3, <1>4, <1>5 DEF LoopInv

(* An item that is written leaves its own content in its key. *)
LEMMA WriteItemInv ==
    ASSUME LoopInv, WriteItem
    PROVE  LoopInv'
  <1> DEFINE key == list[i].key
             new == [value     |-> list[i].value,
                     frozen    |-> list[i].frozen,
                     createdAt |-> IF Exists(Entry) THEN Entry.createdAt ELSE nextRev,
                     updatedAt |-> nextRev]
  <1>1. /\ AtItem /\ Differs /\ ~Entry.frozen
        /\ nextAttrs' = [nextAttrs EXCEPT ![key] = new]
        /\ changed' = changed \cup {key}
        /\ i' = i + 1
        /\ UNCHANGED <<op, list, table, nextRev, left, pc>>
    BY DEF WriteItem, inputs
  <1>2. /\ op = "update" /\ i \in 1..Len(list) /\ i \in Nat \ {0} /\ Len(list) \in Nat
        /\ list[i] \in Attr /\ key \in Keys
        /\ Changes(table, list, i)
        /\ ~WrittenBy(table, list, i - 1, key).frozen
    BY <1>1, ItemMeets
  <1>3. nextAttrs \in VTable /\ Entry \in VAttr /\ nextRev \in Nat \ {0} /\ changed \subseteq Keys
    BY <1>2 DEF LoopInv, TypeOK, Entry, VTable
  <1>4. new \in VAttr
    BY <1>2, <1>3 DEF Attr, VAttr
  <1>5. TypeOK'
    BY <1>1, <1>2, <1>3, <1>4 DEF LoopInv, TypeOK, VTable
  <1>6. /\ nextAttrs'[key] = new
        /\ \A k \in Keys \ {key} : nextAttrs'[k] = nextAttrs[k]
    BY <1>1, <1>2, <1>3 DEF VTable
  <1>7. \A k \in Keys : Content(nextAttrs'[k]) = WrittenBy(table, list, i, k)
    <2>1. Content(new) = Content(list[i])
      BY DEF Content
    <2>2. \A k \in Keys : Content(nextAttrs[k]) = WrittenBy(table, list, i - 1, k)
      BY <1>2 DEF LoopInv, UpdateInv
    <2> QED
      BY <1>2, <1>6, <2>1, <2>2, WrittenByPrefix
  <1>8. changed' = {k \in Keys : ChangedBy(i, k)}
    <2>1. changed = {k \in Keys : ChangedBy(i - 1, k)}
      BY <1>2 DEF LoopInv, UpdateInv
    <2> QED
      BY <1>1, <1>2, <2>1, ChangedByItem
  <1>9. \A k \in Keys :
            IF k \in changed'
            THEN /\ nextAttrs'[k].updatedAt = nextRev
                 /\ nextAttrs'[k].createdAt =
                       IF Exists(table[k]) THEN table[k].createdAt ELSE nextRev
            ELSE nextAttrs'[k] = table[k]
    <2>1. \A k \in Keys :
              IF k \in changed
              THEN /\ nextAttrs[k].updatedAt = nextRev
                   /\ nextAttrs[k].createdAt =
                         IF Exists(table[k]) THEN table[k].createdAt ELSE nextRev
              ELSE nextAttrs[k] = table[k]
      BY <1>2 DEF LoopInv, UpdateInv
    <2>2. new.updatedAt = nextRev /\
          new.createdAt = IF Exists(table[key]) THEN table[key].createdAt ELSE nextRev
      BY <1>2, <1>3, <2>1 DEF Entry, Exists
    <2> QED
      BY <1>1, <1>6, <2>1, <2>2
  <1>10. NoViolation(i)
    BY <1>2 DEF LoopInv, UpdateInv, NoViolation
  <1>11. (i + 1) - 1 = i
    BY <1>2
  <1>12. UpdateInv'
    <2> HIDE DEF new
    <2> QED
      BY <1>1, <1>2, <1>7, <1>8, <1>9, <1>10, <1>11
      DEF AtItem, LoopInv, UpdateInv, ChangedBy, NoViolation
  <1>13. ClearInv'
    BY <1>1, <1>2 DEF ClearInv
  <1> QED
    BY <1>5, <1>12, <1>13 DEF LoopInv

-----------------------------------------------------------------------------
(* The clear loop visits an entry: it is copied, or emptied and dated, as Cleared
   has it. *)
LEMMA VisitEntryInv ==
    ASSUME LoopInv, NEW k \in Keys, KeepEntry(k) \/ ClearEntry(k)
    PROVE  LoopInv'
  <1> DEFINE new == Cleared(table, nextRev)[k]
  <1>1. /\ pc = "loop" /\ k \in left
        /\ left' = left \ {k}
        /\ UNCHANGED <<op, list, table, nextRev, i, pc>>
        /\ nextAttrs' = [nextAttrs EXCEPT ![k] = new]
        /\ changed' = IF table[k].value = Empty THEN changed ELSE changed \cup {k}
        /\ ~(table[k].value # Empty /\ table[k].frozen)
    BY DEF KeepEntry, ClearEntry, inputs, Cleared
  <1>2. /\ op = "clear" /\ nextAttrs \in VTable /\ table \in VTable /\ changed \subseteq Keys
        /\ nextRev \in Nat
    BY <1>1 DEF LoopInv, TypeOK, UpdateInv
  <1>3. new \in VAttr
    BY <1>2, EmptyAssumption DEF Cleared, VTable, VAttr
  <1>4. TypeOK'
    <2>1. nextAttrs' \in VTable
      BY <1>1, <1>2, <1>3 DEF VTable
    <2> QED
      BY <1>1, <2>1 DEF LoopInv, TypeOK
  <1>5. nextAttrs'[k] = new /\ \A x \in Keys \ {k} : nextAttrs'[x] = nextAttrs[x]
    BY <1>1, <1>2 DEF VTable
  <1>6. ClearInv'
    <2> USE <1>2 DEF LoopInv, ClearInv
    <2>1. (\A x \in Keys :
              IF Exists(table[x]) /\ x \notin left
              THEN /\ nextAttrs[x] = Cleared(table, nextRev)[x]
                   /\ ~(table[x].value # Empty /\ table[x].frozen)
                   /\ table[x].value # Empty => x \in changed
              ELSE nextAttrs[x] = Absent)'
      BY <1>1, <1>5
    <2> QED
      BY <1>1, <2>1
  <1>7. UpdateInv'
    BY <1>1, <1>2 DEF UpdateInv
  <1> QED
    BY <1>4, <1>6, <1>7 DEF LoopInv

(* An entry is refused exactly where ClearViolatesFrozen has one. *)
LEMMA RefuseEntryInv ==
    ASSUME LoopInv, NEW k \in Keys, RefuseEntry(k)
    PROVE  LoopInv'
  <1>1. /\ k \in left /\ table[k].value # Empty /\ table[k].frozen /\ pc' = "frozen"
        /\ UNCHANGED <<op, list, table, nextRev, nextAttrs, changed, left, i>>
    BY DEF RefuseEntry, inputs
  <1>2. op = "clear" /\ ClearViolatesFrozen(table)
    BY <1>1 DEF LoopInv, TypeOK, UpdateInv, ClearViolatesFrozen
  <1>3. TypeOK'
    BY <1>1 DEF LoopInv, TypeOK
  <1>4. ClearInv'
    BY <1>1, <1>2 DEF LoopInv, ClearInv
  <1>5. UpdateInv'
    BY <1>1, <1>2 DEF UpdateInv
  <1> QED
    BY <1>3, <1>4, <1>5 DEF LoopInv

(* The loops end when everything has been visited. *)
LEMMA FinishInv ==
    ASSUME LoopInv, Finish
    PROVE  LoopInv'
  <1>1. /\ pc' = "done" /\ left = {} /\ i > Len(list)
        /\ UNCHANGED <<op, list, table, nextRev, nextAttrs, changed, left, i>>
    BY DEF Finish, inputs
  <1>2. list \in Seq(Attr) /\ i \in 1..Len(list) + 1
    BY DEF LoopInv, TypeOK
  <1>3. i = Len(list) + 1
    BY <1>1, <1>2
  <1>4. TypeOK'
    BY <1>1 DEF LoopInv, TypeOK
  <1>5. UpdateInv'
    BY <1>1, <1>3 DEF LoopInv, UpdateInv, ChangedBy, NoViolation
  <1>6. ClearInv'
    BY <1>1 DEF LoopInv, ClearInv
  <1> QED
    BY <1>4, <1>5, <1>6 DEF LoopInv

(* The invariant of the loops holds until they end. *)
LEMMA LoopInvariant == Spec => []LoopInv
  <1>1. LoopInv /\ [Next]_vars => LoopInv'
    <2> SUFFICES ASSUME LoopInv, [Next]_vars PROVE LoopInv'
      OBVIOUS
    <2>1. CASE UNCHANGED vars
      BY <2>1 DEF vars, inputs, LoopInv, TypeOK, UpdateInv, ClearInv, ChangedBy, NoViolation
    <2> QED
      BY <2>1, SkipItemInv, RefuseItemInv, WriteItemInv, VisitEntryInv, RefuseEntryInv, FinishInv
      DEF Next
  <1> QED
    BY <1>1, InitLoopInv, PTL DEF Spec

-----------------------------------------------------------------------------
(* The loop of TryUpdate refuses the lists that ViolatesFrozen describes and makes
   of the others the table that Updated describes, whatever the table and however
   long the list. *)
THEOREM UpdateLoopCorrect == Spec => []UpdateLoopIsUpdated
  <1>1. LoopInv => UpdateLoopIsUpdated
    <2> SUFFICES ASSUME LoopInv, op = "update", pc = "done"
                 PROVE  /\ ~ViolatesFrozen(table, list)
                        /\ Result = Updated(table, list, nextRev)
      BY DEF UpdateLoopIsUpdated, LoopInv, UpdateInv
    <2>1. i - 1 = Len(list) /\ Len(list) \in Nat
      BY DEF LoopInv, UpdateInv, TypeOK
    <2>2. ~ViolatesFrozen(table, list)
      BY <2>1 DEF LoopInv, UpdateInv, NoViolation, ViolatesFrozen
    <2>3. \A k \in Keys : k \in changed <=> IsChanged(table, list, k)
      BY <2>1 DEF LoopInv, UpdateInv, ChangedBy, IsChanged
    <2>4. table \in VTable /\ nextAttrs \in VTable /\ changed \subseteq Keys
      BY DEF LoopInv, TypeOK
    <2>5. \A k \in Keys : nextAttrs[k] = Updated(table, list, nextRev)[k]
      <3> SUFFICES ASSUME NEW k \in Keys PROVE nextAttrs[k] = Updated(table, list, nextRev)[k]
        OBVIOUS
      <3>1. CASE k \in changed
        <4> DEFINE c == WrittenBy(table, list, Len(list), k)
        <4>1. nextAttrs[k] \in VAttr
          BY <2>4 DEF VTable
        <4>2. /\ nextAttrs[k].updatedAt = nextRev
              /\ nextAttrs[k].createdAt = IF Exists(table[k]) THEN table[k].createdAt ELSE nextRev
          BY <3>1 DEF LoopInv, UpdateInv
        <4>3. Content(nextAttrs[k]) = c
          BY <2>1 DEF LoopInv, UpdateInv
        <4>4. nextAttrs[k].value = c.value /\ nextAttrs[k].frozen = c.frozen
          BY <4>3 DEF Content
        <4>5. Updated(table, list, nextRev)[k] =
                 [value |-> c.value, frozen |-> c.frozen,
                  createdAt |-> IF Exists(table[k]) THEN table[k].createdAt ELSE nextRev,
                  updatedAt |-> nextRev]
          BY <2>3, <3>1 DEF Updated
        <4> HIDE DEF c
        <4> QED
          BY <4>1, <4>2, <4>4, <4>5 DEF VAttr
      <3>2. CASE k \notin changed
        BY <2>3, <3>2 DEF Updated, LoopInv, UpdateInv
      <3> QED
        BY <3>1, <3>2
    <2>6. nextAttrs = Updated(table, list, nextRev)
      BY <2>4, <2>5 DEF Updated, VTable
    <2>7. changed = {} => Updated(table, list, nextRev) = table
      BY <2>3, <2>4 DEF Updated, VTable
    <2> QED
      BY <2>2, <2>6, <2>7 DEF Result
  <1> QED
    BY <1>1, LoopInvariant, PTL

(* The loop of TryClear refuses the tables that ClearViolatesFrozen describes and
   makes of the others the table that Cleared describes, in whatever order the map
   is visited. *)
THEOREM ClearLoopCorrect == Spec => []ClearLoopIsCleared
  <1>1. LoopInv => ClearLoopIsCleared
    <2> SUFFICES ASSUME LoopInv, op = "clear", pc = "done"
                 PROVE  /\ ~ClearViolatesFrozen(table)
                        /\ Result = Cleared(table, nextRev)
      BY DEF ClearLoopIsCleared, LoopInv, ClearInv
    <2>1. left = {} /\ table \in VTable /\ nextAttrs \in VTable
      BY DEF LoopInv, ClearInv, TypeOK
    <2>2. \A k \in Keys : table[k].value # Empty => Exists(table[k])
      BY DEF LoopInv, ClearInv, Absent
    <2>3. ~ClearViolatesFrozen(table)
      BY <2>1, <2>2 DEF ClearViolatesFrozen, LoopInv, ClearInv
    <2>4. \A k \in Keys : nextAttrs[k] = Cleared(table, nextRev)[k]
      <3> SUFFICES ASSUME NEW k \in Keys PROVE nextAttrs[k] = Cleared(table, nextRev)[k]
        OBVIOUS
      <3>1. CASE Exists(table[k])
        BY <2>1, <3>1 DEF LoopInv, ClearInv
      <3>2. CASE ~Exists(table[k])
        BY <2>2, <3>2 DEF LoopInv, ClearInv, Cleared
      <3> QED
        BY <3>1, <3>2
    <2>5. nextAttrs = Cleared(table, nextRev)
      BY <2>1, <2>4 DEF Cleared, VTable
    <2>6. changed = {} => Cleared(table, nextRev) = table
      <3> SUFFICES ASSUME changed = {} PROVE Cleared(table, nextRev) = table
        OBVIOUS
      <3>1. \A k \in Keys : table[k].value = Empty
        BY <2>1, <2>2 DEF LoopInv, ClearInv
      <3> QED
        BY <2>1, <3>1 DEF Cleared, VTable
    <2> QED
      BY <2>3, <2>5, <2>6 DEF Result
  <1> QED
    BY <1>1, LoopInvariant, PTL
=============================================================================
