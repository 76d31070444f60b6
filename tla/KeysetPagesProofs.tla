--------------------------- MODULE KeysetPagesProofs ---------------------------
(***************************************************************************)
(* What keyset pagination promises for pages of any size over any finite   *)
(* set of rows: the cursor condition selects the rows that sort after the  *)
(* cursor and have a value like the cursor or none like it, and the page   *)
(* together with the rows that sort after its cursor is all there is.      *)
(***************************************************************************)
EXTENDS KeysetPages, FiniteSetTheorems, TLAPS

\* The sort is a strict total order on rows, in both directions.
LEMMA BeforeIsOrder ==
  ASSUME NEW asc \in BOOLEAN
  PROVE  /\ \A a \in Row : ~Before(a, a, asc)
         /\ \A a, b, c \in Row : Before(a, b, asc) /\ Before(b, c, asc) => Before(a, c, asc)
         /\ \A a, b \in Row : a = b \/ Before(a, b, asc) \/ Before(b, a, asc)
  <1>1. \A a \in Row : a.id \in Nat /\ a.value \in Int
    BY DEF Row, NoValue
  <1>2. \A a, b \in Row : a.id = b.id /\ a.value = b.value => a = b
    BY DEF Row
  <1>3. CASE asc
    BY <1>1, <1>2, <1>3 DEF Before
  <1>4. CASE ~asc
    BY <1>1, <1>2, <1>4 DEF Before
  <1>. QED
    BY <1>3, <1>4

\* The condition of the cursor selects what the sort puts after the cursor, but only
\* in the cursor's own tier: in no direction does it lead from the rows without a
\* value to those with one, or back, although the sort puts one tier after the other.
THEOREM PastIsAfter ==
  ASSUME NEW asc \in BOOLEAN, NEW r \in Row, NEW c \in Row
  PROVE  /\ Past(r, c, asc) <=> /\ Before(c, r, asc)
                                /\ c.value = NoValue <=> r.value = NoValue
         /\ ~(c.value = NoValue <=> r.value = NoValue) =>
              (Before(c, r, asc) <=> (c.value = NoValue <=> asc))
  <1>1. /\ r.id \in Nat /\ r.value \in Int /\ (r.value = NoValue \/ r.value \in Nat)
        /\ c.id \in Nat /\ c.value \in Int /\ (c.value = NoValue \/ c.value \in Nat)
    BY DEF Row, NoValue
  <1>2. NoValue = -1
    BY DEF NoValue
  <1>3. CASE asc
    BY <1>1, <1>2, <1>3 DEF Past, Before
  <1>4. CASE ~asc
    BY <1>1, <1>2, <1>4 DEF Past, Before
  <1>. QED
    BY <1>3, <1>4

-----------------------------------------------------------------------------
\* Positions count from 1, follow the sort, and are all taken.
LEMMA PositionRange ==
  ASSUME NEW asc \in BOOLEAN, NEW S \in SUBSET Row, IsFiniteSet(S), NEW r \in S
  PROVE  Position(r, S, asc) \in 1..Cardinality(S)
  <1> DEFINE B == {q \in S : Before(q, r, asc)}
  <1>1. B \subseteq S \ {r}
    BY BeforeIsOrder
  <1>2. IsFiniteSet(S \ {r}) /\ Cardinality(S \ {r}) = Cardinality(S) - 1
    BY FS_RemoveElement
  <1>3. Cardinality(S) \in Nat
    BY FS_CardinalityType
  <1>4. IsFiniteSet(B) /\ Cardinality(B) <= Cardinality(S) - 1
    BY <1>1, <1>2, FS_Subset
  <1>5. Cardinality(B) \in Nat
    BY <1>4, FS_CardinalityType
  <1>. QED
    BY <1>3, <1>4, <1>5 DEF Position

LEMMA PositionFollows ==
  ASSUME NEW asc \in BOOLEAN, NEW S \in SUBSET Row, IsFiniteSet(S),
         NEW a \in S, NEW b \in S, Before(a, b, asc)
  PROVE  Position(a, S, asc) < Position(b, S, asc)
  <1> DEFINE A == {q \in S : Before(q, a, asc)}
             B == {q \in S : Before(q, b, asc)}
  <1>1. A \subseteq B \ {a}
    BY BeforeIsOrder
  <1>2. IsFiniteSet(B) /\ a \in B
    BY FS_Subset
  <1>3. IsFiniteSet(B \ {a}) /\ Cardinality(B \ {a}) = Cardinality(B) - 1
    BY <1>2, FS_RemoveElement
  <1>4. IsFiniteSet(A) /\ Cardinality(A) <= Cardinality(B) - 1
    BY <1>1, <1>3, FS_Subset
  <1>5. Cardinality(A) \in Nat /\ Cardinality(B) \in Nat
    BY <1>2, <1>4, FS_CardinalityType
  <1>. QED
    BY <1>4, <1>5 DEF Position

LEMMA PositionTaken ==
  ASSUME NEW asc \in BOOLEAN, NEW S \in SUBSET Row, IsFiniteSet(S),
         NEW n \in 1..Cardinality(S)
  PROVE  \E r \in S : Position(r, S, asc) = n
  <1> DEFINE f == [r \in S |-> Position(r, S, asc)]
             T == 1..Cardinality(S)
  <1>1. Cardinality(S) \in Nat
    BY FS_CardinalityType
  <1>2. IsFiniteSet(T) /\ Cardinality(T) = Cardinality(S)
    BY <1>1, FS_Interval
  <1>3. f \in [S -> T]
    BY PositionRange
  <1>4. \A a, b \in S : f[a] = f[b] => a = b
    <2> SUFFICES ASSUME NEW a \in S, NEW b \in S, a # b PROVE f[a] # f[b]
      OBVIOUS
    <2>1. Before(a, b, asc) \/ Before(b, a, asc)
      BY BeforeIsOrder
    <2>2. f[a] \in Int /\ f[b] \in Int /\ (f[a] < f[b] \/ f[b] < f[a])
      BY <2>1, <1>1, PositionRange, PositionFollows
    <2>. QED
      BY <2>2
  <1>5. f \in Injection(S, T)
    BY <1>3, <1>4 DEF Injection, IsInjective
  <1>6. f \in Surjection(S, T)
    BY <1>2, <1>5, FS_Injection
  <1>7. \E r \in S : f[r] = n
    BY <1>6 DEF Surjection
  <1>. QED
    BY <1>7

LEMMA NthExists ==
  ASSUME NEW asc \in BOOLEAN, NEW S \in SUBSET Row, IsFiniteSet(S),
         NEW n \in 1..Cardinality(S)
  PROVE  Nth(S, n, asc) \in S /\ Position(Nth(S, n, asc), S, asc) = n
  BY PositionTaken DEF Nth

\* The page and the rows after its cursor are all there is, and nothing is in both:
\* what is fetched for a page of at most limit rows, one row in addition, tells
\* whether there are more rows, and the last row of the page is where they begin.
THEOREM PageThenRest ==
  ASSUME NEW asc \in BOOLEAN, NEW S \in SUBSET Row, IsFiniteSet(S), NEW limit \in Nat \ {0},
         NEW rows, rows = First(S, limit + 1, asc)
  PROVE  /\ rows \subseteq S /\ NextCursor(rows, limit, asc) \subseteq rows
         /\ NextCursor(rows, limit, asc) = {} => PageOf(rows, limit, asc) = S
         /\ \A c \in NextCursor(rows, limit, asc), q \in S :
              q \in PageOf(rows, limit, asc) <=> ~Before(c, q, asc)
  <1>1. /\ rows \in SUBSET S /\ rows \in SUBSET Row /\ IsFiniteSet(rows)
        /\ Cardinality(rows) \in Nat /\ Cardinality(S) \in Nat
    BY FS_Subset, FS_CardinalityType DEF First
  <1>2. \A r \in rows, q \in S : Before(q, r, asc) => q \in rows
    <2> SUFFICES ASSUME NEW r \in rows, NEW q \in S, Before(q, r, asc) PROVE q \in rows
      OBVIOUS
    <2>1. Position(q, S, asc) < Position(r, S, asc)
      BY <1>1, PositionFollows
    <2>2. Position(q, S, asc) \in Int /\ Position(r, S, asc) \in Int
      BY <1>1, PositionRange
    <2>. QED
      BY <2>1, <2>2 DEF First
  <1>3. \A r \in rows : Position(r, rows, asc) = Position(r, S, asc)
    <2> SUFFICES ASSUME NEW r \in rows PROVE Position(r, rows, asc) = Position(r, S, asc)
      OBVIOUS
    <2>1. {q \in rows : Before(q, r, asc)} = {q \in S : Before(q, r, asc)}
      BY <1>1, <1>2
    <2>. QED
      BY <2>1 DEF Position
  <1>4. CASE Cardinality(rows) <= limit
    <2>1. Cardinality(S) <= limit
      <3> SUFFICES ASSUME Cardinality(S) > limit PROVE FALSE
        BY <1>1
      <3>1. PICK r \in S : Position(r, S, asc) = limit + 1
        BY <1>1, PositionTaken
      <3>2. r \in rows
        BY <3>1 DEF First
      <3>3. Position(r, rows, asc) <= Cardinality(rows)
        BY <1>1, <3>2, PositionRange
      <3>. QED
        BY <1>1, <1>3, <1>4, <3>1, <3>2, <3>3
    <2>2. \A r \in S : Position(r, S, asc) \in Int /\ Position(r, S, asc) <= limit
      BY <1>1, <2>1, PositionRange
    <2>3. rows = S
      BY <1>1, <2>2 DEF First
    <2>4. PageOf(rows, limit, asc) = S
      BY <2>2, <2>3 DEF PageOf, First
    <2>5. NextCursor(rows, limit, asc) = {}
      BY <1>1, <1>4 DEF NextCursor
    <2>. QED
      BY <1>1, <2>4, <2>5
  <1>5. CASE Cardinality(rows) > limit
    <2> DEFINE c == Nth(rows, limit, asc)
    <2>1. c \in rows /\ Position(c, rows, asc) = limit
      BY <1>1, <1>5, NthExists
    <2>2. NextCursor(rows, limit, asc) = {c}
      BY <1>5 DEF NextCursor
    <2>3. ASSUME NEW q \in S PROVE q \in PageOf(rows, limit, asc) <=> ~Before(c, q, asc)
      <3>1. CASE Before(c, q, asc)
        <4>1. q \in rows => Position(q, rows, asc) > limit
          BY <1>1, <2>1, <3>1, PositionFollows
        <4>2. q \in rows => Position(q, rows, asc) \in Int
          BY <1>1, PositionRange
        <4>. QED
          BY <3>1, <4>1, <4>2 DEF PageOf, First
      <3>2. CASE q = c
        BY <1>1, <2>1, <3>2, BeforeIsOrder DEF PageOf, First
      <3>3. CASE Before(q, c, asc)
        <4>1. q \in rows
          BY <1>2, <2>1, <3>3
        <4>2. Position(q, rows, asc) < limit /\ Position(q, rows, asc) \in Int
          BY <1>1, <2>1, <3>3, <4>1, PositionFollows, PositionRange
        <4>3. ~Before(c, q, asc)
          BY <1>1, <2>1, <3>3, BeforeIsOrder
        <4>. QED
          BY <4>1, <4>2, <4>3 DEF PageOf, First
      <3>. QED
        BY <1>1, <2>1, <3>1, <3>2, <3>3, BeforeIsOrder
    <2>. QED
      BY <1>1, <2>1, <2>2, <2>3
  <1>. QED
    BY <1>1, <1>4, <1>5
-----------------------------------------------------------------------------
\* The n first rows are at most n, and what is left out comes after n of them.
THEOREM FirstAreFirst ==
  ASSUME NEW asc \in BOOLEAN, NEW S \in SUBSET Row, IsFiniteSet(S), NEW n \in Nat
  PROVE  /\ First(S, n, asc) \subseteq S
         /\ IsFiniteSet(First(S, n, asc))
         /\ Cardinality(First(S, n, asc)) <= n
         /\ \A r \in S \ First(S, n, asc) :
              /\ Cardinality(First(S, n, asc)) = n
              /\ \A f \in First(S, n, asc) : Before(f, r, asc)
  <1>. DEFINE F == First(S, n, asc)
              g == [r \in F |-> Position(r, S, asc)]
  <1>1. F \in SUBSET S /\ IsFiniteSet(F) /\ Cardinality(S) \in Nat
    BY FS_Subset, FS_CardinalityType DEF First
  <1>2. IsFiniteSet(1..n) /\ Cardinality(1..n) = n
    BY FS_Interval
  <1>3. \A a, b \in S : /\ Position(a, S, asc) \in 1..Cardinality(S)
                        /\ Before(a, b, asc) => Position(a, S, asc) < Position(b, S, asc)
    BY PositionRange, PositionFollows
  <1>4. g \in Injection(F, 1..n)
    <2>1. g \in [F -> 1..n]
      BY <1>1, <1>3 DEF First
    <2>2. \A a, b \in F : g[a] = g[b] => a = b
      <3>. SUFFICES ASSUME NEW a \in F, NEW b \in F, a # b PROVE g[a] # g[b]
        OBVIOUS
      <3>1. Before(a, b, asc) \/ Before(b, a, asc)
        BY <1>1, BeforeIsOrder
      <3>. QED
        BY <1>1, <1>3, <3>1
    <2>. QED
      BY <2>1, <2>2 DEF Injection, IsInjective
  <1>5. Cardinality(F) <= n
    BY <1>2, <1>4, FS_Injection
  <1>6. ASSUME NEW r \in S \ F PROVE Cardinality(F) = n /\ \A f \in F : Before(f, r, asc)
    <2>1. Position(r, S, asc) > n /\ Position(r, S, asc) \in Nat
      BY <1>1, <1>3, <1>6 DEF First
    <2>2. \A m \in 1..n : \E f \in F : g[f] = m
      <3>. SUFFICES ASSUME NEW m \in 1..n PROVE \E f \in F : g[f] = m
        OBVIOUS
      <3>1. m \in 1..Cardinality(S)
        BY <1>1, <1>3, <2>1
      <3>2. PICK f \in S : Position(f, S, asc) = m
        BY <3>1, PositionTaken
      <3>. QED
        BY <3>2 DEF First
    <2>3. g \in Surjection(F, 1..n)
      BY <1>4, <2>2 DEF Surjection, Injection
    <2>4. Cardinality(F) = n
      BY <1>2, <1>4, <2>3, FS_Injection
    <2>5. ASSUME NEW f \in F PROVE Before(f, r, asc)
      <3>1. Position(f, S, asc) <= n /\ f \in S /\ Position(f, S, asc) \in Nat
        BY <1>1, <1>3 DEF First
      <3>2. f # r /\ ~Before(r, f, asc)
        BY <1>3, <2>1, <3>1
      <3>. QED
        BY <3>1, <3>2, BeforeIsOrder
    <2>. QED
      BY <2>4, <2>5
  <1>. QED
    BY <1>1, <1>5, <1>6

\* All of few rows are among the first.
LEMMA FewAreFirst ==
  ASSUME NEW asc \in BOOLEAN, NEW S \in SUBSET Row, IsFiniteSet(S), NEW n \in Nat,
         Cardinality(S) <= n
  PROVE  First(S, n, asc) = S
  <1>1. \A r \in S : Position(r, S, asc) \in 1..Cardinality(S)
    BY PositionRange
  <1>2. Cardinality(S) \in Nat
    BY FS_CardinalityType
  <1>. QED
    BY <1>1, <1>2 DEF First

\* The first, second, third... row enumerate the rows in the order of the sort.
LEMMA NthEnumerates ==
  ASSUME NEW asc \in BOOLEAN, NEW S \in SUBSET Row, IsFiniteSet(S)
  PROVE  /\ \A n \in 1..Cardinality(S) : Nth(S, n, asc) \in S
         /\ \A m, n \in 1..Cardinality(S) :
              m < n => Before(Nth(S, m, asc), Nth(S, n, asc), asc)
         /\ \A r \in S : \E n \in 1..Cardinality(S) : Nth(S, n, asc) = r
  <1>0. Cardinality(S) \in Nat
    BY FS_CardinalityType
  <1>1. \A n \in 1..Cardinality(S) : Nth(S, n, asc) \in S /\ Position(Nth(S, n, asc), S, asc) = n
    BY NthExists
  <1>2. \A a, b \in S : /\ Position(a, S, asc) \in 1..Cardinality(S)
                        /\ Before(a, b, asc) => Position(a, S, asc) < Position(b, S, asc)
    BY PositionRange, PositionFollows
  <1>3. \A a, b \in S : a = b \/ Before(a, b, asc) \/ Before(b, a, asc)
    BY BeforeIsOrder
  <1>4. \A m, n \in 1..Cardinality(S) : m < n => Before(Nth(S, m, asc), Nth(S, n, asc), asc)
    <2>. SUFFICES ASSUME NEW m \in 1..Cardinality(S), NEW n \in 1..Cardinality(S), m < n
                  PROVE  Before(Nth(S, m, asc), Nth(S, n, asc), asc)
      OBVIOUS
    <2>1. /\ Nth(S, m, asc) \in S /\ Position(Nth(S, m, asc), S, asc) = m
          /\ Nth(S, n, asc) \in S /\ Position(Nth(S, n, asc), S, asc) = n
      BY <1>1
    <2>2. ~Before(Nth(S, n, asc), Nth(S, m, asc), asc)
      BY <1>0, <1>2, <2>1
    <2>. QED
      BY <1>3, <2>1, <2>2
  <1>5. ASSUME NEW r \in S PROVE \E n \in 1..Cardinality(S) : Nth(S, n, asc) = r
    <2>1. PICK n \in 1..Cardinality(S) : n = Position(r, S, asc)
      BY <1>2
    <2>2. Nth(S, n, asc) \in S /\ Position(Nth(S, n, asc), S, asc) = n
      BY <1>1
    <2>3. ~Before(r, Nth(S, n, asc), asc) /\ ~Before(Nth(S, n, asc), r, asc)
      BY <1>0, <1>2, <2>1, <2>2
    <2>. QED
      BY <1>3, <2>2, <2>3
  <1>. QED
    BY <1>1, <1>4, <1>5
\* The cursor of the cluster-size orderings repeats nothing of the page, but it skips
\* the rows with the value of the row fetched in addition, when the page ends in
\* another value, whose id does not come after that of the page's last row.
THEOREM SizeCursorSkips ==
  ASSUME NEW asc \in BOOLEAN, NEW S \in SUBSET Row, IsFiniteSet(S), NEW limit \in Nat \ {0},
         NEW rows, rows = First(S, limit + 1, asc),
         NEW c \in NextCursorBySize(rows, limit, asc)
  PROVE  /\ c \in Row /\ PageOf(rows, limit, asc) # {}
         /\ \A q \in PageOf(rows, limit, asc) : ~Before(c, q, asc)
         /\ \E last \in PageOf(rows, limit, asc) :
              /\ NextCursor(rows, limit, asc) = {last} /\ c.id = last.id
              /\ \A q \in S \ PageOf(rows, limit, asc) :
                   ~Before(c, q, asc) <=> /\ q.value = c.value /\ last.value # c.value
                                          /\ IF asc THEN q.id <= last.id ELSE q.id >= last.id
  <1>. DEFINE last == Nth(rows, limit, asc)
              next == Nth(rows, limit + 1, asc)
              page == PageOf(rows, limit, asc)
  <1>1. /\ rows \in SUBSET S /\ rows \in SUBSET Row /\ IsFiniteSet(rows)
        /\ Cardinality(rows) \in Nat /\ Cardinality(rows) <= limit + 1
        /\ \A q \in S \ rows, f \in rows : Before(f, q, asc)
    BY FirstAreFirst, FS_CardinalityType
  <1>2. /\ Cardinality(rows) > limit
        /\ c = [id |-> last.id, value |-> next.value]
        /\ NextCursor(rows, limit, asc) = {last}
    BY DEF NextCursorBySize, NextCursor
  <1>3. /\ limit \in 1..Cardinality(rows) /\ limit + 1 \in 1..Cardinality(rows)
    BY <1>1, <1>2
  <1>4. /\ last \in rows /\ Position(last, rows, asc) = limit
        /\ next \in rows /\ Position(next, rows, asc) = limit + 1
    BY <1>1, <1>3, NthExists
  <1>5. \A q \in S : q \in page <=> ~Before(last, q, asc)
    BY <1>2, PageThenRest
  <1>6. last \in page
    BY <1>1, <1>4, <1>5, BeforeIsOrder
  <1>7. Before(last, next, asc)
    <2>1. next \notin page
      BY <1>4 DEF PageOf, First
    <2>. QED
      BY <1>1, <1>4, <1>5, <2>1
  <1>8. ASSUME NEW q \in S, q \notin page PROVE q = next \/ Before(next, q, asc)
    <2>1. CASE q \notin rows
      BY <1>1, <1>4, <2>1
    <2>2. CASE q \in rows
      <3>1. Position(q, rows, asc) \in 1..Cardinality(rows) /\ ~(Position(q, rows, asc) <= limit)
        BY <1>1, <1>8, <2>2, PositionRange DEF PageOf, First
      <3>2. ~Before(q, next, asc)
        <4>. SUFFICES ASSUME Before(q, next, asc) PROVE FALSE
          OBVIOUS
        <4>1. Position(q, rows, asc) < limit + 1
          BY <1>1, <1>4, <2>2, PositionFollows
        <4>. QED
          BY <1>1, <3>1, <4>1
      <3>. QED
        BY <1>1, <1>4, <2>2, <3>2, BeforeIsOrder
    <2>. QED
      BY <2>1, <2>2
  <1>. HIDE DEF last, next, page
  <1>9. /\ last.id \in Nat /\ last.value \in Int /\ next.id \in Nat /\ next.value \in Int
        /\ next.value \in Nat \union {NoValue}
        /\ last \in Row /\ next \in Row /\ c \in Row
        /\ c.id = last.id /\ c.value = next.value
        /\ \A q \in S : q \in Row /\ q.id \in Nat /\ q.value \in Int
    BY <1>1, <1>2, <1>4 DEF Row, NoValue
  <1>10. ASSUME NEW q \in page PROVE ~Before(c, q, asc)
    <2>1. q \in S /\ ~Before(last, q, asc)
      BY <1>1, <1>5, <1>10 DEF page, PageOf, First
    <2>. QED
      BY <1>7, <1>9, <2>1 DEF Before
  <1>11. ASSUME NEW q \in S, q \notin page
         PROVE  ~Before(c, q, asc) <=> /\ q.value = c.value /\ last.value # c.value
                                       /\ IF asc THEN q.id <= last.id ELSE q.id >= last.id
    <2>1. Before(last, q, asc) /\ (q = next \/ Before(next, q, asc))
      BY <1>5, <1>8, <1>11
    <2>. QED
      BY <1>7, <1>9, <2>1 DEF Before
  <1>. QED
    BY <1>2, <1>6, <1>9, <1>10, <1>11 DEF page
================================================================================
