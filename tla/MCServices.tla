----------------------------- MODULE MCServices -----------------------------
EXTENDS Services

CONSTANTS s1, s2, r1, r2, once, twice, tick

OneServant == {{s1}}
OneOrTwo == {{s1}, {s1, s2}}
OnlyTick == {tick}

\* Requests or tasks for the node; tasks, repeated or not, for the test.
SomeNodeLoads == {[requests |-> {r1, r2}, tasks |-> {}], [requests |-> {}, tasks |-> {once, tick}]}
SomeTestLoads == {[requests |-> {}, tasks |-> {once, twice}], [requests |-> {}, tasks |-> {once, tick}]}
=============================================================================
