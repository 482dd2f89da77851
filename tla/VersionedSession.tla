-------------------------- MODULE VersionedSession --------------------------
(***************************************************************************)
(* What a session promises to the code that uses it (rinq/revision.go): an *)
(* append-only list of versions of an attribute table.  A client adds a    *)
(* version only on top of the one it is looking at, so that no version is  *)
(* ever lost under another; frozen attributes stay as they are; and a      *)
(* destroyed session never changes again.  The clients may be all there    *)
(* are, or share the session with others that are not among them.          *)
(***************************************************************************)
EXTENDS Naturals

CONSTANTS Clients, Namespaces, Keys,
          Contents,  \* what an attribute can be, a set of records
          Blank,     \* the attribute that was never written
          Shared     \* a Boolean: others add versions as well

VARIABLES head,       \* the number of the latest version
          versions,   \* versions[r] is the attribute table as of r
          destroyed,
          base        \* base[c] is the version client c is looking at

vars == <<head, versions, destroyed, base>>

Tables == [Namespaces -> [Keys -> Contents]]

Init ==
    /\ head = 0
    /\ versions = [r \in {0} |-> [ns \in Namespaces |-> [k \in Keys |-> Blank]]]
    /\ destroyed = FALSE
    /\ base = [c \in Clients |-> 0]

(* Client c looks at some version that exists. *)
Look(c) ==
    /\ \E r \in 0..head : base' = [base EXCEPT ![c] = r]
    /\ UNCHANGED <<head, versions, destroyed>>

(* t differs from the latest version in one namespace and in nothing frozen. *)
Follows(t) ==
    /\ \E ns \in Namespaces :
          \A other \in Namespaces \ {ns} : t[other] = versions[head][other]
    /\ \A ns \in Namespaces, k \in Keys :
          versions[head][ns][k].frozen => t[ns][k] = versions[head][ns][k]

(* A version is added. *)
Append ==
    /\ ~destroyed
    /\ head' = head + 1
    /\ versions' \in [0..head' -> Tables]
    /\ \A r \in 0..head : versions'[r] = versions[r]
    /\ Follows(versions'[head'])
    /\ UNCHANGED destroyed

(* Client c replaces the version it is looking at, which is the latest. *)
Replace(c) ==
    /\ base[c] = head
    /\ Append
    /\ base' = [base EXCEPT ![c] = head']

(* Somebody else does; the clients look at what they were looking at. *)
ReplaceElsewhere == Shared /\ Append /\ UNCHANGED base

Destroy ==
    /\ destroyed' = TRUE
    /\ UNCHANGED <<head, versions, base>>

Next == Destroy \/ ReplaceElsewhere \/ \E c \in Clients : Look(c) \/ Replace(c)

Spec == Init /\ [][Next]_vars
=============================================================================
