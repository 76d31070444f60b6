-------------------------- MODULE MCDecisionCuration --------------------------
EXTENDS DecisionCuration

CONSTANTS k1, k2, c1, c2, A, B

\* Two clusters, each placement with the other as its candidate.
MCOutcomes == {[placement |-> A, candidates |-> {B}], [placement |-> B, candidates |-> {A}]}

One(kind, choice) == [keys |-> {k1}, actor |-> c1, kind |-> kind, choice |-> choice]
Bulk(kind) == [keys |-> {k1, k2}, actor |-> c2, kind |-> kind, choice |-> None]

MCAsks == {One("accept", None), One("assign", A), Bulk("reject")}
=============================================================================
