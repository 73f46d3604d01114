----------------------------- MODULE MCAdmission -----------------------------
EXTENDS Admission
CONSTANTS p1, p2, n1, n2

Hub == <<"hub", "x">>
Ecr == <<"ecr", "x">>
JustEcr == {Ecr}
JustHub == {Hub}

\* The original, and a copy of it in a registry that wants credentials.
Upstream(r, prio, secret) == [registry |-> r, path |-> << >>, priority |-> prio, secret |-> secret,
                              valid |-> TRUE, discard |-> FALSE, accepts |-> {<<"x">>}]
Set(n, c, prio, secret) ==
    [name |-> n, set |-> [cluster |-> c, priority |-> prio,
                          upstreams |-> <<Upstream("hub", 0, NoSecret), Upstream("ecr", 0, secret)>>]]
NoSets == << >>
TwoSets == <<Set("cris", TRUE, 0, "kuik"), Set("ris", FALSE, 1, n2)>>
InN2 == "ris" :> n2

TwoNamespaces == (p1 :> n1) @@ (p2 :> n2)
SameImage == [p \in Slots |-> <<Hub>>]
EitherImage == (p1 :> <<Hub>>) @@ (p2 :> <<Ecr, Hub>>)
=============================================================================
