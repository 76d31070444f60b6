---------------------------- MODULE MCRequestRegistry ----------------------------
EXTENDS RequestRegistry, TLC

CONSTANTS t1, y1, y2, c1, c2, r1
CONSTANTS n1, n2, org, name, code, v, w, turtle, xml, json, ORGANISATION

MCConfig == ORGANISATION :> [rdf_type |-> org, fields |-> {name, code}]
MCEntityTypeOf == t1 :> ORGANISATION

\* A content whose entities of the class org are those with values in f.
About(f) ==
  [bytes |-> 1, readable |-> {turtle},
   classes |-> [n \in Entities |-> IF n \in DOMAIN f THEN {org} ELSE {}],
   values |-> [n \in Entities |->
     IF n \in DOMAIN f THEN (name :> f[n][1]) @@ (code :> f[n][2])
                       ELSE (name :> {}) @@ (code :> {})]]

\* Two values of a field; a field without a value; two entities; no value at all.
Two == About(n1 :> <<{v}, {v, w}>>)
Some == About(n1 :> <<{w}, {}>>)
Pair == About((n1 :> <<{v}, {}>>) @@ (n2 :> <<{}, {w}>>))
Empty == About(n1 :> <<{}, {}>>)
MCContents == {Two, Some, Pair, Empty}

Sent(d, type, y) == [content |-> d, type |-> type, context |-> y]
MCSubmitted == {Sent(Two, turtle, y1), Sent(Two, turtle, y2), Sent(Two, xml, y1),
                Sent(Two, json, y1), Sent(Some, turtle, y1), Sent(Pair, turtle, y1),
                Sent(Empty, turtle, y1)}

MCSymmetry == Permutations(Submitters)
=============================================================================
