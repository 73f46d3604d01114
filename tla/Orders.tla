-------------------------------- MODULE Orders --------------------------------
(***************************************************************************)
(* What the loops and the sorts of the program have in common: they go      *)
(* through some places, in an order, and make a slice of what they find. A  *)
(* relation on the places, the set of the pairs that come one before the    *)
(* other, stands for the order.                                             *)
(***************************************************************************)
EXTENDS Integers, FiniteSets, Sequences, SequencesExt

\* A slice.
IsSequence(s) == s \in Seq(ToSet(s))

\* The values of f, those of its places that come first in the order first.
InOrder(f, order) ==
    LET places == DOMAIN f
        Passed(x) == {y \in places : <<y, x>> \in order}
    IN  [n \in 1 .. Cardinality(places) |-> f[CHOOSE x \in places : Cardinality(Passed(x)) = n - 1]]

\* One index.
Rising(places) == {p \in places \X places : p[1] < p[2]}
Only(s, places) == InOrder([k \in places |-> s[k]], Rising(places))

\* Two nested loops: the rows one after the other.
PlacesIn(rows) == UNION {{k} \X DOMAIN rows[k] : k \in DOMAIN rows}
RowByRow(places) ==
    {p \in places \X places : \/ p[1][1] < p[2][1]
                              \/ p[1][1] = p[2][1] /\ p[1][2] < p[2][2]}
=============================================================================
