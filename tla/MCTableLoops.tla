---------------------------- MODULE MCTableLoops ----------------------------
(***************************************************************************)
(* An instance of TableLoops and Constraints for TLC: all lists of up to   *)
(* three attributes, and the constraints whose terms are up to two simpler *)
(* ones, three operators deep.                                             *)
(***************************************************************************)
EXTENDS Constraints

UpToThree == UNION {[1..n -> Attr] : n \in 0..3}

UpToTwo(S) == {<<>>} \cup {<<a>> : a \in S} \cup {<<a, b>> : a, b \in S}

(* The constraints around the lists of terms in L. *)
Over(L) ==
    {And(l) : l \in L} \cup {Or(l) : l \in L}
       \cup {Within(n, l) : n \in Namespaces \cup {Empty}, l \in L}
       \cup {Not(l[1]) : l \in {x \in L : Len(x) = 1}}

Simple  == {None, Zero} \cup {Equal(k, v) : k \in Keys, v \in Values \ {Empty}}
Leaves  == Simple \cup {NotEqual(k, v) : k \in Keys, v \in Values}
Inner   == Over(UpToTwo(Simple))
Outer   == Over({<<a>> : a \in Inner} \cup {<<a, b>> : a \in Inner, b \in Simple})

EveryConstraint == Leaves \cup Inner \cup Outer
=============================================================================
