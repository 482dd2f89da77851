-------------------------- MODULE MCRemoteSession ---------------------------
(***************************************************************************)
(* Instances of RemoteSession for TLC.                                     *)
(***************************************************************************)
EXTENDS RemoteSession, TLC

(* Update lists of one attribute, and of two of the same key as well. *)
OneAttr == [1..1 -> Attr]
UpToTwo == OneAttr \cup [1..2 -> Attr]

Symmetry == Permutations(Threads)
=============================================================================
