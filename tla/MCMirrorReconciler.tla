------------------------- MODULE MCMirrorReconciler -------------------------
EXTENDS MirrorReconciler
CONSTANTS i1, i2, m1, m2, p1, p2

OneImage == {i1}
TwoImages == {i1, i2}
OwnRef == [i \in Images |-> i]
OneRepo == [r \in Images |-> "repo"]

S(f, c, ms) == [filter |-> f, valid |-> TRUE, cleanup |-> c, mirrors |-> ms]
OneSpec == {S(Images, TRUE, Mirrors)}

\* A user may write a broken filter, or one that matches nothing any more while
\* the mirror, and with it the credential, is taken out.
Broken == [S(Images, TRUE, Mirrors) EXCEPT !.valid = FALSE]
SomeSpecs == OneSpec \cup {S({}, TRUE, {}), Broken}
=============================================================================
