------------------------------ MODULE JsonStore ------------------------------
(***************************************************************************)
(* What parson.h promises of the values a program builds: containers with  *)
(* entries, an object's under distinct names, an array's in no particular  *)
(* order.  A call makes values, frees values, or changes one entry of one  *)
(* container; every value has one owner, the program or a container.       *)
(***************************************************************************)
EXTENDS Naturals, FiniteSets

CONSTANTS Values, None

VARIABLES
  roots,     \* the values the program owns
  content    \* of each value its entries, pairs of a name and a value; or None

vars == << roots, content >>

There(c) == {v \in Values : c[v] # None}

Inside(c, v) == {e[2] : e \in c[v]}

(* A value with what is in it down to a level, and with all that is in it. *)
Down(c, v) ==
  LET down[n \in Nat] ==
        IF n = 0 THEN {v}
        ELSE LET above == down[n - 1] IN above \cup UNION {Inside(c, w) : w \in above}
  IN down

Tree(c, v) == Down(c, v)[Cardinality(Values) - 1]

Init == roots = {} /\ content = [v \in Values |-> None]

Same(c, d, S) == \A v \in S : d[v] = c[v]

(* A new tree, of values that were not there. *)
Make(c, d) ==
  \E r \in Values \ There(c) :
    /\ roots' = roots \cup {r}
    /\ There(d) = There(c) \cup Tree(d, r)
    /\ Tree(d, r) \cap There(c) = {}
    /\ Same(c, d, There(c))

Drop(c, d) ==
  \E r \in roots :
    /\ roots' = roots \ {r}
    /\ There(d) = There(c) \ Tree(c, r)
    /\ Same(c, d, There(d))

(* Some entries of one container go, with all that is in them: one of      *)
(* them, or all.  At most one comes: a tree of values that were the        *)
(* program's or were not there.  Nothing else changes.                     *)
Change(c, d) ==
  \E o \in There(c) \cap There(d) :
    LET out  == c[o] \ d[o]
        in   == d[o] \ c[o]
        gone == UNION {Tree(c, e[2]) : e \in out}
        came == UNION {Tree(d, e[2]) : e \in in}
    IN /\ Cardinality(in) <= 1
       /\ Cardinality(out) <= 1 \/ d[o] = {}
       /\ \A e \in d[o], f \in in : e # f => e[1] # f[1] \/ f[1] = None
       /\ came \cap There(c) = UNION {Tree(c, r) : r \in roots \ roots'}
       /\ roots' \subseteq roots
       /\ There(d) = (There(c) \ gone) \cup came
       /\ Same(c, d, (There(c) \ gone) \ {o})

(* The program ends, and all it had with it. *)
End(d) == roots' = {} /\ There(d) = {}

Next ==
  LET before == content
      after  == content'
  IN Make(before, after) \/ Drop(before, after) \/ Change(before, after) \/ End(after)

Spec == Init /\ [][Next]_vars
=============================================================================
