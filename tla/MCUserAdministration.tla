------------------------- MODULE MCUserAdministration -------------------------
EXTENDS UserAdministration

CONSTANTS u1, u2, u3, c1, c2, e1, e2

MCPatches == {[set |-> {}, clear |-> {}],
              [set |-> {"verified"}, clear |-> {}],
              [set |-> {}, clear |-> {"active"}],
              [set |-> {"active"}, clear |-> {"superuser"}]}

MCNewFlags == {{"active"}, {"active", "superuser"}}
=============================================================================
