--------------------------- MODULE MCLocalSession ---------------------------
(***************************************************************************)
(* Instances of LocalSession for TLC.                                      *)
(***************************************************************************)
EXTENDS LocalSession, TLC

(* Lists of one attribute, and of up to two that do not have the same key. *)
OneAttr  == [1..1 -> Attr]
Distinct == OneAttr \cup {l \in [1..2 -> Attr] : l[1].key # l[2].key}

(* LocalSessionData is about attributes: nobody registers a handler, and the
   listener runs on. *)
NoHandlers == readers = {} /\ ~listenerStopped

(* Neither the clients nor the keys are told apart by any definition. *)
Symmetry == Permutations(Clients) \cup Permutations(Keys)
=============================================================================
