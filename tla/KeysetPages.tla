------------------------------ MODULE KeysetPages ------------------------------
(***************************************************************************)
(* Keyset pagination as the repositories do it: rows are sorted by a value *)
(* and their id, a page is the first rows past a cursor, and the cursor    *)
(* is the position of the last row delivered.  A row is an id with its     *)
(* sort value; a document without the field has NoValue, which sorts       *)
(* before every value as null does in BSON.                                *)
(***************************************************************************)
EXTENDS Integers, FiniteSets

NoValue == -1

Row == [id: Nat, value: Nat \union {NoValue}]

\* The sort: by value, then by id, both in one direction.
Before(a, b, ascending) ==
  IF ascending
  THEN a.value < b.value \/ (a.value = b.value /\ a.id < b.id)
  ELSE a.value > b.value \/ (a.value = b.value /\ a.id > b.id)

\* _build_cursor_condition: the rows that the next page is taken from, further in
\* the tier of the cursor (the rows with a value, or those without).  A range
\* operator compares with values of its operand's type: no range condition
\* selects a row without the field, and {"$gt": None}, the branch that is to lead
\* an ascending traversal on to the rows with a value, selects nothing.
\* Mutant: the last row of a page is the first of the next.
PastInclusive(r, c, ascending) ==
  r = c \/ (Before(c, r, ascending) /\ (c.value = NoValue <=> r.value = NoValue))
Past(r, c, ascending) ==
  \/ r.value = c.value /\ (IF ascending THEN r.id > c.id ELSE r.id < c.id)
  \/ /\ NoValue \notin {r.value, c.value}
     /\ IF ascending THEN r.value > c.value ELSE r.value < c.value

\* The position of a row among the rows S, and the n first of them.
Position(r, S, ascending) == 1 + Cardinality({q \in S : Before(q, r, ascending)})
First(S, n, ascending) == {r \in S : Position(r, S, ascending) <= n}
Nth(S, n, ascending) == CHOOSE r \in S : Position(r, S, ascending) = n

\* One row more than the page holds is fetched, to know whether there is a next
\* page.  A page begins at the first row when there is no cursor.
Fetched(S, cursor, limit, ascending) ==
  First({r \in S : \A c \in cursor : Past(r, c, ascending)}, limit + 1, ascending)

PageOf(fetched, limit, ascending) == First(fetched, limit, ascending)

\* Nothing, or the cursor of the next page: the last row of this one.
\* Mutant: the row that was fetched in addition is where the next page begins,
\* and so in neither.
CursorSkipping(fetched, limit, ascending) ==
  IF Cardinality(fetched) > limit THEN {Nth(fetched, limit + 1, ascending)} ELSE {}
NextCursor(fetched, limit, ascending) ==
  IF Cardinality(fetched) > limit THEN {Nth(fetched, limit, ascending)} ELSE {}

\* The cursor of the cluster-size orderings: the id of the page's last row with
\* the size found in the last row fetched, which is the next page's.
NextCursorBySize(fetched, limit, ascending) ==
  IF Cardinality(fetched) > limit
  THEN {[id |-> Nth(fetched, limit, ascending).id,
         value |-> Nth(fetched, limit + 1, ascending).value]}
  ELSE {}
=============================================================================
