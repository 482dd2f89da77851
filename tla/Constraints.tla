---------------------------- MODULE Constraints -----------------------------
(***************************************************************************)
(* Constraints of multicast notifications (rinq/constraint) and the        *)
(* visitor that evaluates them against a session's attributes              *)
(* (attributes/catalog_matcher.go), as one more algorithm over the tables  *)
(* of TableLoops: for op = "match", pc is the outcome.                     *)
(*                                                                         *)
(* A visitor's method returns or panics, and its loops return at the first *)
(* term that decides them, so that a later one is not visited.             *)
(***************************************************************************)
EXTENDS TableLoops

CONSTANTS Cons,    \* the constraints that are evaluated
          NoCon    \* no constraint: another algorithm runs

VARIABLES con,     \* the constraint
          ns       \* the namespace of the notification

matchVars == <<con, ns>>

-----------------------------------------------------------------------------
(***************************************************************************)
(* The constructors.  A term of Not is a sequence of length one.           *)
(***************************************************************************)
Constraint(o, terms, k, v) == [op |-> o, terms |-> terms, key |-> k, value |-> v]

None            == Constraint("*", <<>>, Empty, Empty)
Zero            == Constraint("", <<>>, Empty, Empty)
Within(n, cons) == Constraint("ns", cons, Empty, n)
Equal(k, v)     == Constraint("=", <<>>, k, v)
NotEqual(k, v)  == Constraint("!=", <<>>, k, v)
Not(c)          == Constraint("!", <<c>>, Empty, Empty)
And(cons)       == Constraint("&", cons, Empty, Empty)
Or(cons)        == Constraint("|", cons, Empty, Empty)

(* What a loop returns that goes on as long as its terms give d. *)
FirstNot(d, outcomes) ==
    IF \A j \in DOMAIN outcomes : outcomes[j] = d
    THEN d
    ELSE LET differ == {j \in DOMAIN outcomes : outcomes[j] # d}
         IN outcomes[CHOOSE j \in differ : \A m \in differ : j <= m]

RECURSIVE Validate(_)
Validate(c) ==
    LET terms == FirstNot("valid", [j \in DOMAIN c.terms |-> Validate(c.terms[j])])
    IN CASE c.op \in {"*", "=", "!="} -> "valid"
         [] c.op = "ns"               -> IF c.value \notin Namespaces \/ c.terms = <<>>
                                         THEN "invalid" ELSE terms
         [] c.op \in {"&", "|"}       -> IF c.terms = <<>> THEN "invalid" ELSE terms
         [] c.op = "!"                -> terms
         [] OTHER                     -> "panic"

(* m.cat[ns][k].Value, where a namespace without a table yields zero values. *)
ValueIn(cat, n, k) == IF n \in Namespaces THEN cat[n][k].value ELSE Empty

Outcome(b) == IF b THEN "match" ELSE "differs"

(* Fault: the terms of Within are evaluated in the namespace outside it. *)
RECURSIVE AcceptOutside(_, _, _)
AcceptOutside(cat, n, c) ==
    LET terms == [j \in DOMAIN c.terms |-> AcceptOutside(cat, n, c.terms[j])]
    IN CASE c.op = "*"           -> "match"
         [] c.op = "="           -> Outcome(ValueIn(cat, n, c.key) = c.value)
         [] c.op = "!="          -> Outcome(ValueIn(cat, n, c.key) # c.value)
         [] c.op \in {"ns", "&"} -> FirstNot("match", terms)
         [] c.op = "|"           -> FirstNot("differs", terms)
         [] c.op = "!"           -> IF terms[1] = "panic" THEN "panic"
                                    ELSE Outcome(terms[1] = "differs")
         [] OTHER                -> "panic"

RECURSIVE Accept(_, _, _)
Accept(cat, n, c) ==
    LET inner == IF c.op = "ns" THEN c.value ELSE n
        terms == [j \in DOMAIN c.terms |-> Accept(cat, inner, c.terms[j])]
    IN CASE c.op = "*"           -> "match"
         [] c.op = "="           -> Outcome(ValueIn(cat, n, c.key) = c.value)
         [] c.op = "!="          -> Outcome(ValueIn(cat, n, c.key) # c.value)
         [] c.op \in {"ns", "&"} -> FirstNot("match", terms)
         [] c.op = "|"           -> FirstNot("differs", terms)
         [] c.op = "!"           -> IF terms[1] = "panic" THEN "panic"
                                    ELSE Outcome(terms[1] = "differs")
         [] OTHER                -> "panic"

-----------------------------------------------------------------------------
(* The session has attributes in the notification's namespace only. *)
Cat == WithNamespace(EmptyCatalog, ns, table)

MatchInit ==
    /\ op = "match"
    /\ con \in Cons
    /\ ns \in Namespaces
    /\ nextRev = MaxRev
    /\ table \in [Keys -> EntriesBefore(nextRev)]
    /\ \A k \in Keys : ~table[k].frozen
    /\ list = <<>> /\ nextAttrs = EmptyTable /\ changed = {} /\ i = 1 /\ left = {}
    /\ pc = "visit"

MatchConstraint ==
    /\ pc = "visit"
    /\ pc' = Accept(Cat, ns, con)
    /\ UNCHANGED <<inputs, nextAttrs, changed, i, left, matchVars>>

TableInit == MatchInit \/ (Init /\ con = NoCon /\ ns \in Namespaces)

TableNext == MatchConstraint \/ (Next /\ UNCHANGED matchVars)

TableSpec == TableInit /\ [][TableNext]_<<vars, matchVars>>

-----------------------------------------------------------------------------
(***************************************************************************)
(* Properties.                                                             *)
(***************************************************************************)

(* The attributes by which a session satisfies a constraint, as a set: what a
   value of each key in each namespace makes of it, with the operations of
   set algebra and no order of evaluation. *)
Contexts == [Namespaces -> [Keys -> Values]]

RECURSIVE Satisfying(_, _)
Satisfying(n, c) ==
    LET all(m) == {x \in Contexts : \A j \in DOMAIN c.terms : x \in Satisfying(m, c.terms[j])}
    IN CASE c.op = "*"  -> Contexts
         [] c.op = "="  -> {x \in Contexts : x[n][c.key] = c.value}
         [] c.op = "!=" -> Contexts \ {x \in Contexts : x[n][c.key] = c.value}
         [] c.op = "ns" -> all(c.value)
         [] c.op = "&"  -> all(n)
         [] c.op = "|"  -> UNION {Satisfying(n, c.terms[j]) : j \in DOMAIN c.terms}
         [] c.op = "!"  -> Contexts \ Satisfying(n, c.terms[1])

(* A constraint that Validate() accepts is evaluated without a panic, and a
   session receives the notification exactly if its attributes are in the set
   that the constraint describes, each term read in the innermost Within
   around it. *)
MatcherIsMeaning ==
    (op = "match" /\ pc # "visit" /\ Validate(con) = "valid") =>
        LET values == [n \in Namespaces |-> [k \in Keys |-> Cat[n][k].value]]
        IN pc = Outcome(values \in Satisfying(ns, con))
=============================================================================
