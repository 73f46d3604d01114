--------------------------- MODULE MCAvailability ---------------------------
EXTENDS Availability
CONSTANTS c1, c2, a, b, p1, p2, r1

OneRegistry == [i \in Images |-> r1]

\* By default a check every other tick; the entry of r1 makes it every tick.
EveryOther == [interval |-> 4, maxPerInterval |-> 2, fallback |-> "unset"]
FastR1 == [r \in {r1} |-> [interval |-> 0, maxPerInterval |-> 4, fallback |-> "unset"]]

S(is, v, e) == [pods |-> Pods, images |-> is, valid |-> v, expiry |-> e]
OneSpec == {S(Images, "yes", 1)}
KeepingSpecs == {S(Images, "yes", 1), S({b}, "yes", 1), S({b}, "yes", 0)}

Nothing == {<< >>}
Unmarked == {[i \in {a} |-> [since |-> InUse, verdict |-> "Available", last |-> MaxAge, original |-> FALSE]]}
NoPair == {}
FirstPair == {<<c1, a>>}

PlainPods == [image : Images, original : {FALSE}, secret : {"none"}]
RewrittenPods == [image : Images, original : {TRUE}, secret : {"none"}]
=============================================================================
