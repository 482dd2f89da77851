------------------------- MODULE SessionStateProofs -------------------------
(***************************************************************************)
(* Lemmas about the operators of Attributes, for every table, list and     *)
(* revision, and about what one step of SessionState does to the state of  *)
(* a session, so that every module that drives it can use them.  The       *)
(* library's induction theorems take an operator, so an induction is by a  *)
(* least counterexample, which WFMin provides.                             *)
(***************************************************************************)
EXTENDS SessionState, WellFoundedInduction, TLAPS

(* A non-empty set of natural numbers has a least element. *)
LEMMA LeastElement ==
    ASSUME NEW S, S \subseteq Nat, S # {}
    PROVE  \E m \in S : \A x \in S : m <= x
  <1>1. \E m \in S : \A x \in S : ~ (<<x, m>> \in OpToRel(<, Nat))
    BY NatLessThanWellFounded, WFMin
  <1>2. PICK m \in S : \A x \in S : ~ (<<x, m>> \in OpToRel(<, Nat))
    BY <1>1
  <1>3. \A x \in S : <<x, m>> \in OpToRel(<, Nat) <=> x < m
    BY DEF OpToRel
  <1>4. \A x \in S : ~ (x < m)
    BY <1>2, <1>3, Zenon
  <1>5. m \in Nat /\ \A x \in S : x \in Nat
    OBVIOUS
  <1>6. \A x \in S : m <= x
    BY ONLY <1>4, <1>5
  <1> QED
    BY <1>6

-----------------------------------------------------------------------------
(***************************************************************************)
(* LastOf and Writes.                                                      *)
(***************************************************************************)

(* LastOf picks the greatest element when there is one. *)
LEMMA LastOfGreatest ==
    ASSUME NEW S, S \subseteq Nat, NEW n \in S, \A j \in S : j <= n
    PROVE  LastOf(S) = n
  <1>1. \E i \in S : \A j \in S : j <= i
    OBVIOUS
  <1>2. LastOf(S) \in S /\ \A j \in S : j <= LastOf(S)
    BY <1>1 DEF LastOf
  <1>3. LastOf(S) <= n /\ n <= LastOf(S)
    BY <1>2
  <1>4. LastOf(S) \in Nat /\ n \in Nat
    BY <1>2
  <1> QED
    BY ONLY <1>3, <1>4

(* A non-empty set of positions has a greatest element. *)
LEMMA LastOfExists ==
    ASSUME NEW n \in Nat, NEW S, S \subseteq 1..n, S # {}
    PROVE  LastOf(S) \in S /\ \A j \in S : j <= LastOf(S)
  <1> DEFINE D == {n - j : j \in S}
  <1>1. D \subseteq Nat /\ D # {}
    <2>1. \A j \in S : j \in 1..n
      OBVIOUS
    <2>2. \A j \in 1..n : n - j \in Nat
      OBVIOUS
    <2>3. D \subseteq Nat
      BY <2>1, <2>2
    <2>4. PICK j \in S : TRUE
      OBVIOUS
    <2>5. n - j \in D
      OBVIOUS
    <2> QED
      BY <2>3, <2>5
  <1>2. PICK d \in D : \A x \in D : d <= x
    BY <1>1, LeastElement
  <1>3. PICK i \in S : d = n - i
    OBVIOUS
  <1>4. \A j \in S : j <= i
    <2> SUFFICES ASSUME NEW j \in S PROVE j <= i
      OBVIOUS
    <2>1. n - i <= n - j
      BY <1>2, <1>3
    <2> QED
      BY <2>1
  <1>5. S \subseteq Nat
    OBVIOUS
  <1> QED
    BY <1>4, <1>5, LastOfGreatest

(* One more item adds its position to the writes of its own key only. *)
LEMMA WritesStep ==
    ASSUME NEW l, NEW n \in Nat \ {0}, NEW k
    PROVE  Writes(l, n, k) = IF l[n].key = k
                             THEN Writes(l, n - 1, k) \cup {n}
                             ELSE Writes(l, n - 1, k)
  BY DEF Writes

(* What the first n items leave in a key, from what the first n - 1 leave. *)
LEMMA WrittenByStep ==
    ASSUME NEW t, NEW l, NEW n \in Nat \ {0}, NEW k
    PROVE  WrittenBy(t, l, n, k) = IF l[n].key = k
                                   THEN Content(l[n])
                                   ELSE WrittenBy(t, l, n - 1, k)
  <1>1. CASE l[n].key = k
    <2>1. /\ n \in Writes(l, n, k)
          /\ Writes(l, n, k) \subseteq Nat
          /\ \A j \in Writes(l, n, k) : j <= n
      BY <1>1 DEF Writes
    <2>2. LastOf(Writes(l, n, k)) = n
      BY <2>1, LastOfGreatest
    <2> QED
      BY <1>1, <2>1, <2>2 DEF WrittenBy
  <1>2. CASE l[n].key # k
    BY <1>2, WritesStep DEF WrittenBy
  <1> QED
    BY <1>1, <1>2

(* No item, no change. *)
LEMMA WrittenByNone ==
    ASSUME NEW t, NEW l, NEW k
    PROVE  WrittenBy(t, l, 0, k) = Content(t[k])
  BY DEF WrittenBy, Writes

(* What a reader can see of an attribute (value and frozen flag), of an item of
   an update list, of a stored attribute or of one that was never set, is of
   the one type Contents. *)
LEMMA ContentType ==
    /\ \A e \in VAttr : Content(e) \in Contents
    /\ \A a \in Attr : Content(a) \in Contents
    /\ Blank \in Contents
    /\ Absent \in VAttr
  BY EmptyAssumption DEF Content, VAttr, Attr, Contents, Blank, Absent

(* Whatever prefix of a list TryUpdate has worked through, what its loop has
   made of a key is again the content of an attribute. *)
LEMMA WrittenByType ==
    ASSUME NEW t \in VTable, NEW l \in Seq(Attr), NEW n \in 0..Len(l), NEW k \in Keys
    PROVE  WrittenBy(t, l, n, k) \in Contents
  <1>1. CASE Writes(l, n, k) = {}
    BY <1>1, ContentType DEF WrittenBy, VTable
  <1>2. CASE Writes(l, n, k) # {}
    <2>1. Writes(l, n, k) \subseteq 1..n
      BY DEF Writes
    <2>2. LastOf(Writes(l, n, k)) \in 1..Len(l)
      BY <1>2, <2>1, LastOfExists
    <2>3. l[LastOf(Writes(l, n, k))] \in Attr
      BY <2>2
    <2> QED
      BY <1>2, <2>3, ContentType DEF WrittenBy
  <1> QED
    BY <1>1, <1>2

-----------------------------------------------------------------------------
(***************************************************************************)
(* Updated and Cleared.                                                    *)
(***************************************************************************)

(* An updated table is a table, and each of its entries either is the old one
   or was written by this revision. *)
LEMMA UpdatedEntries ==
    ASSUME NEW t \in VTable, NEW l \in Seq(Attr), NEW r \in Nat
    PROVE  /\ Updated(t, l, r) \in VTable
           /\ \A k \in Keys :
                 \/ Updated(t, l, r)[k] = t[k]
                 \/ /\ Updated(t, l, r)[k].updatedAt = r
                    /\ Updated(t, l, r)[k].createdAt =
                          IF Exists(t[k]) THEN t[k].createdAt ELSE r
  <1> SUFFICES ASSUME NEW k \in Keys
               PROVE  /\ Updated(t, l, r)[k] \in VAttr
                      /\ \/ Updated(t, l, r)[k] = t[k]
                         \/ /\ Updated(t, l, r)[k].updatedAt = r
                            /\ Updated(t, l, r)[k].createdAt =
                                  IF Exists(t[k]) THEN t[k].createdAt ELSE r
    BY DEF Updated, VTable
  <1> DEFINE c == WrittenBy(t, l, Len(l), k)
  <1>1. c \in Contents
    BY WrittenByType
  <1>2. t[k] \in VAttr
    BY DEF VTable
  <1>3. CASE IsChanged(t, l, k)
    <2>1. Updated(t, l, r)[k] = [value     |-> c.value,
                                 frozen    |-> c.frozen,
                                 createdAt |-> IF Exists(t[k]) THEN t[k].createdAt ELSE r,
                                 updatedAt |-> r]
      BY <1>3 DEF Updated
    <2> HIDE DEF c
    <2> QED
      BY <2>1, <1>1, <1>2 DEF Contents, VAttr
  <1>4. CASE ~IsChanged(t, l, k)
    BY <1>4, <1>2 DEF Updated
  <1> QED
    BY <1>3, <1>4

(* The same of a cleared table; clearing creates no entry. *)
LEMMA ClearedEntries ==
    ASSUME NEW t \in VTable, NEW r \in Nat
    PROVE  /\ Cleared(t, r) \in VTable
           /\ \A k \in Keys :
                 \/ Cleared(t, r)[k] = t[k]
                 \/ /\ Cleared(t, r)[k].updatedAt = r
                    /\ Cleared(t, r)[k].createdAt = t[k].createdAt
                    /\ t[k].value # Empty
  BY EmptyAssumption DEF Cleared, VTable, VAttr

(* An update that violates no frozen attribute leaves the content of every
   frozen attribute as it is, also when it names the attribute.  If some item
   disagreed with the table, the first that does would violate it. *)
LEMMA UpdateKeepsFrozen ==
    ASSUME NEW t \in VTable, NEW l \in Seq(Attr), NEW r \in Nat, NEW k \in Keys,
           ~ViolatesFrozen(t, l), t[k].frozen
    PROVE  Content(Updated(t, l, r)[k]) = Content(t[k])
  <1> DEFINE Other == {i \in Writes(l, Len(l), k) : Content(l[i]) # Content(t[k])}
  <1>1. Other = {}
    <2> SUFFICES ASSUME Other # {} PROVE FALSE
      OBVIOUS
    <2>1. Other \subseteq Nat
      BY DEF Writes
    <2>2. PICK i \in Other : \A j \in Other : i <= j
      BY <2>1, LeastElement
    <2>3. i \in 1..Len(l) /\ l[i].key = k /\ Content(l[i]) # Content(t[k])
      BY DEF Writes
    <2>4. WrittenBy(t, l, i - 1, k) = Content(t[k])
      <3>1. CASE Writes(l, i - 1, k) = {}
        BY <3>1 DEF WrittenBy
      <3>2. CASE Writes(l, i - 1, k) # {}
        <4> DEFINE m == LastOf(Writes(l, i - 1, k))
        <4>1. Writes(l, i - 1, k) \subseteq 1..(i - 1) /\ i - 1 \in Nat
          BY <2>3 DEF Writes
        <4>2. m \in Writes(l, i - 1, k)
          BY <3>2, <4>1, LastOfExists
        <4>3. m \in Writes(l, Len(l), k) /\ m < i
          BY <2>3, <4>2 DEF Writes
        <4>4. m \notin Other
          BY <2>1, <2>2, <2>3, <4>3
        <4>5. Content(l[m]) = Content(t[k])
          BY <4>3, <4>4
        <4> QED
          BY <3>2, <4>5 DEF WrittenBy
      <3> QED
        BY <3>1, <3>2
    <2>5. Content(t[k]).frozen
      BY DEF Content
    <2> QED
      BY <2>3, <2>4, <2>5 DEF ViolatesFrozen, Changes
  <1>2. WrittenBy(t, l, Len(l), k) = Content(t[k])
    <2>1. CASE Writes(l, Len(l), k) = {}
      BY <2>1 DEF WrittenBy
    <2>2. CASE Writes(l, Len(l), k) # {}
      <3>1. Writes(l, Len(l), k) \subseteq 1..Len(l) /\ Len(l) \in Nat
        BY DEF Writes
      <3>2. LastOf(Writes(l, Len(l), k)) \in Writes(l, Len(l), k)
        BY <2>2, <3>1, LastOfExists
      <3> QED
        BY <1>1, <2>2, <3>2 DEF WrittenBy
    <2> QED
      BY <2>1, <2>2
  <1>3. CASE IsChanged(t, l, k)
    BY <1>2, <1>3 DEF Updated, Content
  <1>4. CASE ~IsChanged(t, l, k)
    BY <1>4 DEF Updated
  <1> QED
    BY <1>3, <1>4

(* A clear that violates no frozen attribute leaves frozen entries alone. *)
LEMMA ClearKeepsFrozen ==
    ASSUME NEW t \in VTable, NEW r \in Nat, NEW k \in Keys,
           ~ClearViolatesFrozen(t), t[k].frozen
    PROVE  Content(Cleared(t, r)[k]) = Content(t[k])
  BY DEF ClearViolatesFrozen, Cleared

-----------------------------------------------------------------------------
(***************************************************************************)
(* What an update leaves in a table, and lists that name no key twice.     *)
(***************************************************************************)
NamesOnce(l) == \A i, j \in 1..Len(l) : l[i].key = l[j].key => i = j

(* Callers name every key at most once in a list. *)
DistinctKeys == \A l \in Lists : NamesOnce(l)

(* After an update a key holds what the list made of it, also if no item that
   names the key was different from what was there. *)
LEMMA UpdatedContent ==
    ASSUME NEW t \in VTable, NEW l \in Seq(Attr), NEW r \in Nat, NEW k \in Keys
    PROVE  Content(Updated(t, l, r)[k]) = WrittenBy(t, l, Len(l), k)
  <1> DEFINE c == WrittenBy(t, l, Len(l), k)
  <1>1. CASE IsChanged(t, l, k)
    <2>1. c \in Contents
      BY WrittenByType
    <2>2. Updated(t, l, r)[k].value = c.value /\ Updated(t, l, r)[k].frozen = c.frozen
      BY <1>1 DEF Updated
    <2> HIDE DEF c
    <2>3. c = [value |-> c.value, frozen |-> c.frozen]
      BY <2>1 DEF Contents
    <2> QED
      BY <2>2, <2>3 DEF Content, c
  <1>2. CASE ~IsChanged(t, l, k)
    <2> DEFINE Other == {n \in 0..Len(l) : WrittenBy(t, l, n, k) # Content(t[k])}
    <2>1. Other = {}
      <3> SUFFICES ASSUME Other # {} PROVE FALSE
        OBVIOUS
      <3>1. Other \subseteq Nat
        OBVIOUS
      <3>2. PICK n \in Other : \A m \in Other : n <= m
        BY <3>1, LeastElement
      <3>3. n \in 0..Len(l) /\ WrittenBy(t, l, n, k) # Content(t[k])
        OBVIOUS
      <3>4. n # 0
        BY <3>3, WrittenByNone
      <3>5. n - 1 \in 0..Len(l) /\ n \in Nat \ {0} /\ ~(n <= n - 1)
        BY <3>3, <3>4
      <3>6. WrittenBy(t, l, n - 1, k) = Content(t[k])
        BY <3>2, <3>5
      <3>7. l[n].key = k /\ WrittenBy(t, l, n, k) = Content(l[n])
        BY <3>3, <3>5, <3>6, WrittenByStep
      <3>8. n \in Writes(l, Len(l), k)
        BY <3>3, <3>4, <3>7 DEF Writes
      <3> QED
        BY <1>2, <3>3, <3>6, <3>7, <3>8 DEF IsChanged, Changes
    <2>2. Len(l) \in 0..Len(l)
      OBVIOUS
    <2>3. WrittenBy(t, l, Len(l), k) = Content(t[k])
      BY <2>1, <2>2
    <2> QED
      BY <1>2, <2>3 DEF Updated
  <1> QED
    BY <1>1, <1>2

(* An item whose key no other item names meets the table as it was before the
   loop, and what it writes stays. *)
LEMMA NamedOnce ==
    ASSUME NEW t, NEW l \in Seq(Attr), NamesOnce(l), NEW i \in 1..Len(l)
    PROVE  /\ WrittenBy(t, l, i - 1, l[i].key) = Content(t[l[i].key])
           /\ WrittenBy(t, l, Len(l), l[i].key) = Content(l[i])
           /\ Writes(l, Len(l), l[i].key) = {i}
  <1>1. Writes(l, i - 1, l[i].key) = {}
    BY DEF Writes, NamesOnce
  <1>2. Writes(l, Len(l), l[i].key) = {i}
    BY DEF Writes, NamesOnce
  <1>3. LastOf({i}) = i
    <2>1. {i} \subseteq Nat /\ i \in {i} /\ \A j \in {i} : j <= i
      OBVIOUS
    <2> QED
      BY <2>1, LastOfGreatest, Zenon
  <1>4. WrittenBy(t, l, i - 1, l[i].key) = Content(t[l[i].key])
    BY <1>1 DEF WrittenBy
  <1>5. WrittenBy(t, l, Len(l), l[i].key) = Content(l[i])
    BY <1>2, <1>3 DEF WrittenBy
  <1> QED
    BY <1>2, <1>4, <1>5

(* Such a list is refused if and only if it disagrees with the table about an
   attribute that is frozen there. *)
LEMMA NamedOnceViolates ==
    ASSUME NEW t, NEW l \in Seq(Attr), NamesOnce(l)
    PROVE  ViolatesFrozen(t, l) <=>
             \E i \in 1..Len(l) : /\ Content(l[i]) # Content(t[l[i].key])
                                  /\ t[l[i].key].frozen
  <1>1. \A i \in 1..Len(l) : WrittenBy(t, l, i - 1, l[i].key) = Content(t[l[i].key])
    BY NamedOnce
  <1>2. \A e : Content(e).frozen = e.frozen
    BY DEF Content
  <1> QED
    BY <1>1, <1>2 DEF ViolatesFrozen, Changes

(* An entry that such a list dates with the new revision has a new content. *)
LEMMA NamedOnceChanges ==
    ASSUME NEW t \in VTable, NEW l \in Seq(Attr), NamesOnce(l), NEW r \in Nat, NEW k \in Keys,
           Updated(t, l, r)[k] # t[k]
    PROVE  Content(Updated(t, l, r)[k]) # Content(t[k])
  <1>1. IsChanged(t, l, k)
    BY DEF Updated
  <1>2. PICK i \in 1..Len(l) : l[i].key = k /\ Changes(t, l, i)
    BY <1>1 DEF IsChanged, Writes
  <1> QED
    BY <1>2, NamedOnce, UpdatedContent DEF Changes

-----------------------------------------------------------------------------
(***************************************************************************)
(* The state of a session.                                                 *)
(***************************************************************************)

(* What entry e of the catalog tells about the attribute (ns, k) at revision
   r is true: it was blank before it was created, and it is what the entry
   says from its last update on. *)
SoundAt(e, ns, k, r) ==
    /\ r < e.createdAt => history[r][ns][k] = Blank
    /\ (e.createdAt <= r /\ e.updatedAt <= r) => history[r][ns][k] = Content(e)

(* The current catalog is sound at every revision, and mentions no revision
   that has not been made. *)
AttrsSound ==
    \A ns \in Namespaces, k \in Keys :
        /\ attrs[ns][k].createdAt <= rev
        /\ attrs[ns][k].updatedAt <= rev
        /\ ~Exists(attrs[ns][k]) => attrs[ns][k] = Absent
        /\ \A r \in 0..rev : SoundAt(attrs[ns][k], ns, k, r)

(* Frozen attributes stay as they are: FrozenForever of LocalSession. *)
FrozenKept ==
    \A ns \in Namespaces, k \in Keys : \A r1, r2 \in 0..rev :
        (r1 <= r2 /\ history[r1][ns][k].frozen) =>
            history[r2][ns][k] = history[r1][ns][k]

StateInv == StateTypeOK /\ AttrsSound /\ FrozenKept

(* A commit appends a version; each entry is the old one or carries the new
   revision; what was frozen keeps its content. *)
Appends ==
    /\ rev' = rev + 1
    /\ msgSeq' = 0
    /\ ~isDestroyed /\ isDestroyed' = FALSE
    /\ attrs' \in Catalog
    /\ history' \in [0..rev + 1 -> AllContents]
    /\ \A r \in 0..rev : history'[r] = history[r]
    /\ history'[rev + 1] = ContentsOf(attrs')
    /\ \E ns \in Namespaces :
          \A other \in Namespaces \ {ns} : attrs'[other] = attrs[other]
    /\ \A ns \in Namespaces, k \in Keys :
          /\ \/ attrs'[ns][k] = attrs[ns][k]
             \/ /\ attrs'[ns][k].updatedAt = rev + 1
                /\ attrs'[ns][k].createdAt =
                      IF Exists(attrs[ns][k]) THEN attrs[ns][k].createdAt ELSE rev + 1
          /\ attrs[ns][k].frozen => Content(attrs'[ns][k]) = Content(attrs[ns][k])

-----------------------------------------------------------------------------
(* The state that NewSession makes, with no attributes at revision 0,
   satisfies the invariant. *)
LEMMA StateInitInv == StateInit => StateInv
  <1> SUFFICES ASSUME StateInit PROVE StateInv
    OBVIOUS
  <1>1. EmptyCatalog \in Catalog /\ ContentsOf(EmptyCatalog) \in AllContents
    BY ContentType DEF EmptyCatalog, EmptyTable, Catalog, VTable, ContentsOf, AllContents
  <1>2. StateTypeOK
    <2>1. {0} = 0..0
      OBVIOUS
    <2>2. history \in [0..rev -> AllContents]
      BY <1>1, <2>1 DEF StateInit
    <2> QED
      BY <1>1, <2>2 DEF StateInit, StateTypeOK
  <1>3. \A ns \in Namespaces, k \in Keys :
            attrs[ns][k] = Absent /\ history[0][ns][k] = Blank
    BY DEF StateInit, EmptyCatalog, EmptyTable, ContentsOf, Absent, Content, Blank
  <1>4. AttrsSound
    <2> SUFFICES ASSUME NEW ns \in Namespaces, NEW k \in Keys
                 PROVE  /\ attrs[ns][k].createdAt <= rev
                        /\ attrs[ns][k].updatedAt <= rev
                        /\ ~Exists(attrs[ns][k]) => attrs[ns][k] = Absent
                        /\ \A r \in 0..rev : SoundAt(attrs[ns][k], ns, k, r)
      BY DEF AttrsSound
    <2>1. attrs[ns][k] = Absent /\ rev = 0 /\ Absent.createdAt = 0 /\ Absent.updatedAt = 0
      BY <1>3 DEF StateInit, Absent
    <2>2. Content(Absent) = Blank
      BY DEF Content, Absent, Blank
    <2>3. \A r \in 0..rev : r = 0
      BY <2>1
    <2> QED
      BY <1>3, <2>1, <2>2, <2>3 DEF SoundAt
  <1>5. FrozenKept
    BY DEF FrozenKept, StateInit
  <1> QED
    BY <1>2, <1>4, <1>5 DEF StateInv

(* The contents of a catalog are of the type that history records. *)
LEMMA ContentsOfType ==
    ASSUME NEW c \in Catalog
    PROVE  ContentsOf(c) \in AllContents
  BY ContentType DEF ContentsOf, AllContents, Catalog, VTable

(* Commit, for a table that follows the one it replaces. *)
LEMMA CommitAppends ==
    ASSUME StateTypeOK, NEW ns \in Namespaces, NEW t \in VTable,
           ~isDestroyed, Commit(ns, t),
           \A k \in Keys :
              /\ \/ t[k] = attrs[ns][k]
                 \/ /\ t[k].updatedAt = rev + 1
                    /\ t[k].createdAt =
                          IF Exists(attrs[ns][k]) THEN attrs[ns][k].createdAt ELSE rev + 1
              /\ attrs[ns][k].frozen => Content(t[k]) = Content(attrs[ns][k])
    PROVE  Appends
  <1>1. attrs' = [attrs EXCEPT ![ns] = t]
    BY DEF Commit, WithNamespace
  <1>2. attrs' \in Catalog
    BY <1>1 DEF StateTypeOK, Catalog
  <1>3. ContentsOf(attrs') \in AllContents
    BY <1>2, ContentsOfType
  <1>4. /\ rev' = rev + 1
        /\ msgSeq' = 0
        /\ isDestroyed' = isDestroyed
        /\ history' = [r \in 0..rev + 1 |->
                          IF r = rev + 1 THEN ContentsOf(attrs') ELSE history[r]]
    BY DEF Commit
  <1>5. rev \in Nat /\ history \in [0..rev -> AllContents]
    BY DEF StateTypeOK
  <1>6. /\ history' \in [0..rev + 1 -> AllContents]
        /\ \A r \in 0..rev : history'[r] = history[r]
        /\ history'[rev + 1] = ContentsOf(attrs')
    BY <1>3, <1>4, <1>5
  <1>7. /\ attrs'[ns] = t
        /\ \A other \in Namespaces \ {ns} : attrs'[other] = attrs[other]
    BY <1>1 DEF StateTypeOK, Catalog
  <1>8. \A n \in Namespaces, k \in Keys :
          /\ \/ attrs'[n][k] = attrs[n][k]
             \/ /\ attrs'[n][k].updatedAt = rev + 1
                /\ attrs'[n][k].createdAt =
                      IF Exists(attrs[n][k]) THEN attrs[n][k].createdAt ELSE rev + 1
          /\ attrs[n][k].frozen => Content(attrs'[n][k]) = Content(attrs[n][k])
    BY <1>7
  <1> QED
    BY <1>2, <1>4, <1>6, <1>7, <1>8 DEF Appends

(* A TryUpdate that is accepted adds one revision: an entry is the old one or
   dated with the new revision, and no frozen attribute changes content. *)
LEMMA UpdateAppends ==
    ASSUME StateInv, NEW r, NEW ns \in Namespaces, NEW l \in Seq(Attr), TryUpdate(r, ns, l)
    PROVE  Appends
  <1> DEFINE t == Updated(attrs[ns], l, rev + 1)
  <1>1. attrs[ns] \in VTable /\ rev + 1 \in Nat
    BY DEF StateInv, StateTypeOK, Catalog
  <1>2. ~isDestroyed /\ ~ViolatesFrozen(attrs[ns], l) /\ Commit(ns, t)
    BY DEF TryUpdate, CanUpdate, Accepts
  <1>3. t \in VTable /\ \A k \in Keys :
            \/ t[k] = attrs[ns][k]
            \/ /\ t[k].updatedAt = rev + 1
               /\ t[k].createdAt =
                     IF Exists(attrs[ns][k]) THEN attrs[ns][k].createdAt ELSE rev + 1
    BY <1>1, UpdatedEntries
  <1>4. \A k \in Keys : attrs[ns][k].frozen => Content(t[k]) = Content(attrs[ns][k])
    BY <1>1, <1>2, UpdateKeepsFrozen
  <1> QED
    BY <1>2, <1>3, <1>4, CommitAppends DEF StateInv

(* The same of a TryClear that is accepted. *)
LEMMA ClearAppends ==
    ASSUME StateInv, NEW r, NEW ns \in Namespaces, TryClear(r, ns)
    PROVE  Appends
  <1> DEFINE t == Cleared(attrs[ns], rev + 1)
  <1>1. attrs[ns] \in VTable /\ rev + 1 \in Nat
    BY DEF StateInv, StateTypeOK, Catalog
  <1>2. ~isDestroyed /\ ~ClearViolatesFrozen(attrs[ns]) /\ Commit(ns, t)
    BY DEF TryClear, CanClear, Accepts
  <1>3. \A k \in Keys : attrs[ns][k].value # Empty => Exists(attrs[ns][k])
    BY DEF StateInv, AttrsSound, Absent
  <1>4. t \in VTable /\ \A k \in Keys :
            \/ t[k] = attrs[ns][k]
            \/ /\ t[k].updatedAt = rev + 1
               /\ t[k].createdAt =
                     IF Exists(attrs[ns][k]) THEN attrs[ns][k].createdAt ELSE rev + 1
    BY <1>1, <1>3, ClearedEntries
  <1>5. \A k \in Keys : attrs[ns][k].frozen => Content(t[k]) = Content(attrs[ns][k])
    BY <1>1, <1>2, ClearKeepsFrozen
  <1> QED
    BY <1>2, <1>4, <1>5, CommitAppends DEF StateInv

(* An update by a list that names no key twice dates only entries whose content
   it changes. *)
LEMMA UpdateChanges ==
    ASSUME StateInv, NEW r, NEW ns \in Namespaces, NEW l \in Seq(Attr), NamesOnce(l),
           TryUpdate(r, ns, l), NEW n \in Namespaces, NEW k \in Keys,
           attrs'[n][k] # attrs[n][k]
    PROVE  Content(attrs'[n][k]) # Content(attrs[n][k])
  <1>1. attrs \in Catalog /\ rev + 1 \in Nat
    BY DEF StateInv, StateTypeOK
  <1>2. attrs' = [attrs EXCEPT ![ns] = Updated(attrs[ns], l, rev + 1)]
    BY DEF TryUpdate, Commit, WithNamespace
  <1>3. n = ns /\ attrs'[n] = Updated(attrs[ns], l, rev + 1) /\ attrs[ns] \in VTable
    BY <1>1, <1>2 DEF Catalog
  <1> QED
    BY <1>1, <1>3, NamedOnceChanges

(* So does a clear: it leaves alone what is empty already. *)
LEMMA ClearChanges ==
    ASSUME StateInv, NEW r, NEW ns \in Namespaces,
           TryClear(r, ns), NEW n \in Namespaces, NEW k \in Keys,
           attrs'[n][k] # attrs[n][k]
    PROVE  Content(attrs'[n][k]) # Content(attrs[n][k])
  <1>1. attrs \in Catalog
    BY DEF StateInv, StateTypeOK
  <1>2. attrs' = [attrs EXCEPT ![ns] = Cleared(attrs[ns], rev + 1)]
    BY DEF TryClear, Commit, WithNamespace
  <1>3. n = ns /\ attrs'[n] = Cleared(attrs[ns], rev + 1) /\ attrs[ns] \in VTable
    BY <1>1, <1>2 DEF Catalog
  <1>4. attrs[n][k].value # Empty /\ attrs'[n][k].value = Empty
    BY <1>3 DEF Cleared, VTable, VAttr
  <1> QED
    BY <1>4 DEF Content

-----------------------------------------------------------------------------
(* The catalog after a commit, against the longer history. *)
LEMMA AppendsKeepsAttrsSound ==
    ASSUME StateInv, Appends
    PROVE  AttrsSound'
  <1> SUFFICES ASSUME NEW ns \in Namespaces, NEW k \in Keys
               PROVE  /\ attrs'[ns][k].createdAt <= rev'
                      /\ attrs'[ns][k].updatedAt <= rev'
                      /\ ~Exists(attrs'[ns][k]) => attrs'[ns][k] = Absent
                      /\ \A r \in 0..rev' : SoundAt(attrs[ns][k], ns, k, r)'
    BY DEF AttrsSound
  <1> DEFINE e  == attrs[ns][k]
             e2 == attrs'[ns][k]
  <1>1. rev \in Nat /\ rev' = rev + 1
    BY DEF StateInv, StateTypeOK, Appends
  <1>2. /\ e \in VAttr /\ e2 \in VAttr
        /\ e.createdAt <= rev /\ e.updatedAt <= rev
        /\ ~Exists(e) => e = Absent
        /\ \A r \in 0..rev : SoundAt(e, ns, k, r)
    BY DEF StateInv, StateTypeOK, AttrsSound, Appends, Catalog, VTable
  <1>3. \/ e2 = e
        \/ /\ e2.updatedAt = rev + 1
           /\ e2.createdAt = IF Exists(e) THEN e.createdAt ELSE rev + 1
    BY DEF Appends
  <1>4. history'[rev + 1][ns][k] = Content(e2)
    BY DEF Appends, ContentsOf
  <1>5. \A r \in 0..rev : history'[r][ns][k] = history[r][ns][k]
    BY DEF Appends
  <1>6. e2.createdAt <= rev' /\ e2.updatedAt <= rev'
    BY <1>1, <1>2, <1>3 DEF VAttr
  <1>7. ~Exists(e2) => e2 = Absent
    BY <1>1, <1>2, <1>3 DEF Exists, VAttr
  <1>8. \A r \in 0..rev' : SoundAt(attrs[ns][k], ns, k, r)'
    <2> SUFFICES ASSUME NEW r \in 0..rev + 1
                 PROVE  /\ r < e2.createdAt => history'[r][ns][k] = Blank
                        /\ (e2.createdAt <= r /\ e2.updatedAt <= r) =>
                              history'[r][ns][k] = Content(e2)
      BY <1>1 DEF SoundAt
    <2>1. CASE r = rev + 1
      BY <2>1, <1>1, <1>2, <1>4, <1>6 DEF VAttr
    <2>2. CASE r \in 0..rev /\ e2 = e
      BY <2>2, <1>2, <1>5 DEF SoundAt
    <2>3. CASE r \in 0..rev /\ e2 # e
      <3>1. e2.updatedAt > r
        BY <2>3, <1>1, <1>3
      <3>2. CASE Exists(e)
        BY <3>1, <3>2, <2>3, <1>1, <1>2, <1>3, <1>5 DEF SoundAt, VAttr
      <3>3. CASE ~Exists(e)
        <4>1. history[r][ns][k] = Content(Absent)
          BY <3>3, <2>3, <1>1, <1>2 DEF SoundAt, Absent
        <4>2. history'[r][ns][k] = Blank
          BY <4>1, <2>3, <1>5 DEF Content, Absent, Blank
        <4> QED
          BY <3>1, <4>2, <2>3, <1>1, <1>2 DEF VAttr
      <3> QED
        BY <3>2, <3>3
    <2> QED
      BY <2>1, <2>2, <2>3, <1>1
  <1> QED
    BY <1>6, <1>7, <1>8

(* The version that a commit adds agrees with the one before it on every
   attribute frozen there, and so with every version in which it was frozen. *)
LEMMA AppendsKeepsFrozen ==
    ASSUME StateInv, Appends
    PROVE  FrozenKept'
  <1> SUFFICES ASSUME NEW ns \in Namespaces, NEW k \in Keys,
                      NEW r1 \in 0..rev', NEW r2 \in 0..rev',
                      r1 <= r2, history'[r1][ns][k].frozen
               PROVE  history'[r2][ns][k] = history'[r1][ns][k]
    BY DEF FrozenKept
  <1>1. rev \in Nat /\ rev' = rev + 1
    BY DEF StateInv, StateTypeOK, Appends
  <1>2. \A r \in 0..rev : history'[r][ns][k] = history[r][ns][k]
    BY DEF Appends
  <1>3. CASE r2 \in 0..rev
    BY <1>1, <1>2, <1>3 DEF StateInv, FrozenKept
  <1>4. CASE r2 = rev + 1 /\ r1 \in 0..rev
    <2>1. rev \in 0..rev /\ r1 <= rev
      BY <1>1, <1>4
    <2>2. history[rev][ns][k] = history[r1][ns][k] /\ history[r1][ns][k].frozen
      BY <1>2, <1>4, <2>1 DEF StateInv, FrozenKept
    <2>3. history[rev][ns][k] = Content(attrs[ns][k])
      BY <2>1 DEF StateInv, AttrsSound, SoundAt
    <2>4. attrs[ns][k].frozen
      BY <2>2, <2>3 DEF Content
    <2>5. Content(attrs'[ns][k]) = Content(attrs[ns][k])
      BY <2>4 DEF Appends
    <2>6. history'[rev + 1][ns][k] = Content(attrs'[ns][k])
      BY DEF Appends, ContentsOf
    <2> QED
      BY <1>2, <1>4, <2>2, <2>3, <2>5, <2>6
  <1>5. CASE r1 = rev + 1 /\ r2 = rev + 1
    BY <1>5
  <1> QED
    BY <1>1, <1>3, <1>4, <1>5

(* A commit, by update or by clear, preserves the invariant of the state. *)
LEMMA AppendsKeepsInv ==
    ASSUME StateInv, Appends
    PROVE  StateInv'
  <1>1. StateTypeOK'
    <2>1. rev' \in Nat /\ 0..rev' = 0..rev + 1
      BY DEF StateInv, StateTypeOK, Appends
    <2>2. history' \in [0..rev' -> AllContents]
      BY <2>1 DEF Appends
    <2>3. attrs' \in Catalog /\ msgSeq' \in Nat /\ isDestroyed' \in BOOLEAN
      BY DEF Appends
    <2> QED
      BY <2>1, <2>2, <2>3 DEF StateTypeOK
  <1> QED
    BY <1>1, AppendsKeepsAttrsSound, AppendsKeepsFrozen DEF StateInv

(* Steps that leave the table alone. *)
LEMMA UnchangedKeepsInv ==
    ASSUME StateInv, UNCHANGED <<rev, attrs, history>>,
           msgSeq' \in Nat, isDestroyed' \in BOOLEAN
    PROVE  StateInv'
  BY DEF StateInv, StateTypeOK, AttrsSound, SoundAt, FrozenKept
=============================================================================
