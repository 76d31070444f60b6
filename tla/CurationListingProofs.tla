------------------------- MODULE CurationListingProofs -------------------------
(***************************************************************************)
(* Theorems about CurationListing for every set of documents, page size    *)
(* and sequence of writes and lost responses: what a client that pages     *)
(* through a listing receives.                                             *)
(***************************************************************************)
EXTENDS CurationListing, KeysetPagesProofs, SequenceTheorems

-----------------------------------------------------------------------------
\* The position of a delivered row.
Key(s) == [id |-> s.id, value |-> s.value]

\* Row r is not past the cursor.
Reached(r) == \E c \in cursor : ~Before(c, r, Up)

\* Only finitely many documents exist, and only existing ones are fetched.
DocumentsExist ==
  /\ IsFiniteSet({i \in Ids : decisions[i] # None})
  /\ IsFiniteSet({i \in Ids : actions[i] # None})
  /\ \A r \in fetched : r.id \in Ids /\ (query.of # "actions" => decisions[r.id] # None)

\* The client has not begun; between pages nothing is kept of the last.
Phases ==
  /\ query = None <=> at = "idle"
  /\ at = "idle" => got = << >> /\ cursor = {} /\ touched = {} /\ count = 0
  /\ at # "deliver" => fetched = {}
  /\ at \in {"count", "fetch", "deliver"} /\ cursor = {} => got = << >>
  /\ at = "done" => cursor = {}
  /\ at = "count" => query.of # "sync"

\* What was fetched is past the cursor, and not more than a page and one row.
FetchedPast ==
  /\ IsFiniteSet(fetched)
  /\ at = "deliver" =>
       /\ Cardinality(fetched) <= Limit + 1
       /\ \A r \in fetched, c \in cursor : Past(r, c, Up)

\* What was delivered is in order, and nothing of it is past the cursor.
Ordered ==
  query # None =>
    /\ \A m, n \in DOMAIN got : m < n => Before(got[m], got[n], Up)
    /\ at \in {"count", "fetch", "deliver"} => \A n \in DOMAIN got : Reached(Key(got[n]))

\* By a stored field, whose value a write to another document leaves as it is.
ByStored == query # None => query.by.field # "size"

\* Both rows have a value, or neither has.
SameTier(a, b) == a.value = NoValue <=> b.value = NoValue

\* From its second page on, a traversal stays in the tier its first page ended in.
Tiers ==
  /\ cursor # {} => Len(got) >= Limit /\ \A c \in cursor : SameTier(c, got[Limit])
  /\ \A n \in DOMAIN got : n > Limit => SameTier(got[n], got[Limit])

\* What the next page is taken from.
Ahead(r) == \A c \in cursor : Past(r, c, Up)

\* A steady row of the fetched page still matches, and a matching one ahead of the
\* cursor that is not on the page comes after a full page.
SteadyFetched ==
  at = "deliver" => \A i \in Ids : Steady(i) =>
    /\ \A r \in fetched : r.id = i => r \in Matching(query)
    /\ \A r \in Matching(query) : r.id = i /\ Ahead(r) /\ r \notin fetched =>
         Cardinality(fetched) = Limit + 1 /\ \A f \in fetched : Before(f, r, Up)

\* A steady row was delivered as it is, once the cursor reached it; in the end, if
\* it was in reach.
SteadyDelivered ==
  query # None => \A i \in Ids : Steady(i) =>
    /\ \A n \in Delivered(i) : Key(got[n]) \in Matching(query)
    /\ \A r \in Matching(query) : r.id = i =>
         IF at = "done" THEN InReach(r) => Delivered(i) # {}
                        ELSE Delivered(i) # {} <=> Reached(r)

CountTrue ==
  /\ query # None /\ query.of = "sync" => count = 0
  /\ at \in {"fetch", "deliver", "done"} /\ query.of # "sync" /\ touched = {} =>
       count = Cardinality(Matching(query))

\* What holds for every ordering that the API offers.
ListingInv == TypeOK /\ DocumentsExist /\ Phases /\ FetchedPast /\ CountTrue

-----------------------------------------------------------------------------
\* Queries and the rows that match them.
LEMMA QueryFields ==
  ASSUME NEW q \in Query
  PROVE  /\ q.of \in {"decisions", "sync", "actions"}
         /\ q.by.ascending \in BOOLEAN /\ q.by.field \in Fields
         /\ q.of # "actions" => q.filter \in DecisionFilter
         /\ q.of = "actions" => q.by.field = "created" /\ q.filter \in ActionFilter
  BY DEF Query, Fields

\* A row of a listing is the state of one document.
LEMMA RowOf ==
  ASSUME NEW q, NEW r
  PROVE  /\ r \in Matching(q) =>
              /\ r.id \in Ids
              /\ q.of # "actions" =>
                   /\ Matches(r.id, q.filter)
                   /\ r = [id |-> r.id, value |-> SortValue(r.id, q.by.field)]
              /\ q.of = "actions" =>
                   /\ ActionMatches(r.id, q.filter)
                   /\ r = [id |-> r.id, value |-> actions[r.id].created]
         /\ \A i \in Ids :
              /\ q.of # "actions" /\ Matches(i, q.filter)
                   => [id |-> i, value |-> SortValue(i, q.by.field)] \in Matching(q)
              /\ q.of = "actions" /\ ActionMatches(i, q.filter)
                   => [id |-> i, value |-> actions[i].created] \in Matching(q)
  BY DEF Matching

\* The rows are finitely many, one to a document; without updated_at a decision has
\* a value in every column but that one.
LEMMA MatchingRows ==
  ASSUME TypeOK, DocumentsExist, NEW q \in Query
  PROVE  /\ Matching(q) \subseteq Row
         /\ IsFiniteSet(Matching(q))
         /\ \A a, b \in Matching(q) : a.id = b.id => a = b
         /\ \A r \in Matching(q) : r.id \in Ids /\ (q.of # "actions" => decisions[r.id] # None)
         /\ q.by.field \notin {"updated", "size"} => \A r \in Matching(q) : r.value # NoValue
  <1>0. /\ Ids \subseteq Nat /\ Times \subseteq Nat /\ Confidences \subseteq Nat
        /\ q.by.field \in Fields
    BY ListingAssumption, QueryFields
  <1>1. \A r \in Matching(q) : r.id \in Ids /\ (q.of # "actions" => decisions[r.id] # None)
                               /\ (q.of = "actions" => actions[r.id] # None)
    BY RowOf DEF Matches, MatchesPlacement, ActionMatches
  <1>2. \A c : Size(c) \in Nat
    <2>. SUFFICES ASSUME NEW c PROVE Size(c) \in Nat
      OBVIOUS
    <2>1. {i \in Ids : decisions[i] # None /\ decisions[i].cluster = c}
            \subseteq {i \in Ids : decisions[i] # None}
      OBVIOUS
    <2>. QED
      BY <2>1, FS_Subset, FS_CardinalityType DEF Size, DocumentsExist
  <1>3. ASSUME NEW r \in Matching(q)
        PROVE  /\ r \in Row
               /\ q.by.field \notin {"updated", "size"} => r.value # NoValue
    <2>1. CASE q.of # "actions"
      <3>1. r = [id |-> r.id, value |-> SortValue(r.id, q.by.field)] /\ decisions[r.id] \in Decision
        BY <1>1, <2>1, RowOf DEF TypeOK
      <3>2. /\ SortValue(r.id, q.by.field) \in Nat \union {NoValue}
            /\ q.by.field \notin {"updated", "size"} => SortValue(r.id, q.by.field) \in Nat
        BY <1>0, <1>2, <3>1 DEF SortValue, Decision, Fields
      <3>3. r.id \in Nat
        BY <1>0, <1>1
      <3>. QED
        BY <3>1, <3>2, <3>3 DEF Row, NoValue
    <2>2. CASE q.of = "actions"
      <3>1. r = [id |-> r.id, value |-> actions[r.id].created] /\ actions[r.id] \in UserAction
        BY <1>1, <2>2, RowOf DEF TypeOK
      <3>2. actions[r.id].created \in Nat /\ r.id \in Nat
        BY <1>0, <1>1, <3>1 DEF UserAction
      <3>. QED
        BY <3>1, <3>2 DEF Row, NoValue
    <2>. QED
      BY <2>1, <2>2
  <1>4. ASSUME NEW a \in Matching(q), NEW b \in Matching(q), a.id = b.id PROVE a = b
    BY <1>4, RowOf
  <1>5. IsFiniteSet(Matching(q))
    <2>. DEFINE there == IF q.of # "actions" THEN {i \in Ids : decisions[i] # None}
                                             ELSE {i \in Ids : actions[i] # None}
                f == [r \in Matching(q) |-> r.id]
    <2>1. IsFiniteSet(there)
      BY DEF DocumentsExist
    <2>2. f \in Injection(Matching(q), there)
      BY <1>1, <1>4 DEF Injection, IsInjective
    <2>. QED
      BY <2>1, <2>2, FS_Injection
  <1>. QED
    BY <1>1, <1>3, <1>4, <1>5

-----------------------------------------------------------------------------
\* The steps.
Writes(i) ==
  \/ \E c \in Clusters, confidence \in Confidences, t \in Times :
       CreateDecision(i, c, confidence, t) \/ ReplaceDecision(i, c, confidence, t)
  \/ ReviewDecision(i)
  \/ \E k \in Ids, t \in Times : SaveAction(i, k, t)
  \/ DeleteAction(i)

\* A query that the client may send.
Offered(q) ==
  q.by \in Orderings \/ q.by = [field |-> "updated", ascending |-> TRUE] \/ q.by.field = "created"

LEMMA StepsAre ==
  ASSUME [Next]_vars
  PROVE  \/ \E q \in Query : Begin(q) /\ Offered(q)
         \/ CountMatching \/ FetchPage \/ Deliver \/ AskAgain
         \/ \E i \in Ids : Writes(i)
         \/ UNCHANGED vars
  <1>1. ASSUME NEW by \in Orderings, NEW f \in Filters, ListDecisions(by, f)
        PROVE  \E q \in Query : Begin(q) /\ Offered(q)
    <2>. DEFINE q == [of |-> "decisions", by |-> by, filter |-> f]
    <2>1. q \in Query
      BY QueriesAssumption DEF Query
    <2>2. Begin(q) /\ q.by = by
      BY <1>1 DEF ListDecisions
    <2>. QED
      BY <2>1, <2>2 DEF Offered
  <1>2. ASSUME TraverseDecisions PROVE \E q \in Query : Begin(q) /\ Offered(q)
    <2>. DEFINE f == [ever |-> None, since |-> None, minimum |-> 0, mentions |-> Ids]
                by == [field |-> "updated", ascending |-> TRUE]
                q == [of |-> "sync", by |-> by, filter |-> f]
    <2>1. f \in DecisionFilter /\ by \in [field: Fields, ascending: BOOLEAN]
      BY DEF DecisionFilter, Fields
    <2>2. Begin(q)
      BY <1>2 DEF TraverseDecisions
    <2>. HIDE DEF f, by
    <2>3. q \in Query /\ q.by = by
      BY <2>1 DEF Query
    <2>. QED
      BY <2>2, <2>3 DEF Offered, by
  <1>3. ASSUME NEW ascending \in BOOLEAN, NEW f \in ActionFilters, ListUserActions(ascending, f)
        PROVE  \E q \in Query : Begin(q) /\ Offered(q)
    <2>. DEFINE q == [of |-> "actions", by |-> [field |-> "created", ascending |-> ascending],
                      filter |-> f]
    <2>1. q \in Query /\ q.by.field = "created"
      BY QueriesAssumption DEF Query
    <2>2. Begin(q)
      BY <1>3 DEF ListUserActions
    <2>. QED
      BY <2>1, <2>2 DEF Offered
  <1>. QED
    BY <1>1, <1>2, <1>3 DEF Next, ClientStep, Writes

\* A write changes one document, deletes no decision, and is remembered while the
\* client pages.
LEMMA WriteFrame ==
  ASSUME TypeOK, DocumentsExist, Phases, NEW i \in Ids, Writes(i)
  PROVE  /\ decisions' \in [Ids -> Decision \union {None}]
         /\ actions' \in [Ids -> UserAction \union {None}]
         /\ \A j \in Ids \ {i} : decisions'[j] = decisions[j] /\ actions'[j] = actions[j]
         /\ \A j \in Ids : decisions[j] # None => decisions'[j] # None
         /\ UNCHANGED <<query, at, cursor, count, fetched, got, retries>>
         /\ at # "done" /\ changes' = changes + 1
         /\ touched' = IF at = "idle" THEN touched ELSE touched \union {i}
         /\ IsFiniteSet({j \in Ids : decisions'[j] # None})
         /\ IsFiniteSet({j \in Ids : actions'[j] # None})
  <1>1. Write(i)
    BY DEF Writes, CreateDecision, ReplaceDecision, ReviewDecision, SaveAction, DeleteAction
  <1>2. \/ /\ actions' = actions
           /\ \E d \in Decision : decisions' = [decisions EXCEPT ![i] = d]
        \/ /\ decisions' = decisions
           /\ \E a \in UserAction \union {None} : actions' = [actions EXCEPT ![i] = a]
    <2>1. ASSUME NEW c \in Clusters, NEW confidence \in Confidences, NEW t \in Times,
                 CreateDecision(i, c, confidence, t)
          PROVE  /\ actions' = actions
                 /\ \E d \in Decision : decisions' = [decisions EXCEPT ![i] = d]
      <3>1. [created |-> t, updated |-> 0, confidence |-> confidence, cluster |-> c,
             reviews |-> 0, reviewed |-> FALSE] \in Decision
        BY DEF Decision
      <3>. QED
        BY <2>1, <3>1 DEF CreateDecision
    <2>2. ASSUME NEW c \in Clusters, NEW confidence \in Confidences, NEW t \in Times,
                 ReplaceDecision(i, c, confidence, t)
          PROVE  /\ actions' = actions
                 /\ \E d \in Decision : decisions' = [decisions EXCEPT ![i] = d]
      <3>1. decisions[i] \in Decision
        BY <2>2 DEF ReplaceDecision, TypeOK
      <3>2. [decisions[i] EXCEPT !.cluster = c, !.confidence = confidence,
                                 !.updated = t, !.reviewed = FALSE] \in Decision
        BY <3>1 DEF Decision
      <3>3. decisions' = [decisions EXCEPT ![i] =
              [decisions[i] EXCEPT !.cluster = c, !.confidence = confidence,
                                   !.updated = t, !.reviewed = FALSE]]
        BY <2>2 DEF ReplaceDecision, TypeOK
      <3>. QED
        BY <2>2, <3>2, <3>3 DEF ReplaceDecision
    <2>3. ASSUME ReviewDecision(i)
          PROVE  /\ actions' = actions
                 /\ \E d \in Decision : decisions' = [decisions EXCEPT ![i] = d]
      <3>1. decisions[i] \in Decision
        BY <2>3 DEF ReviewDecision, TypeOK
      <3>2. PICK n \in Nat : n = decisions[i].reviews + 1
        BY <3>1 DEF Decision
      <3>3. [decisions[i] EXCEPT !.reviewed = TRUE, !.reviews = n] \in Decision
        BY <3>1 DEF Decision
      <3>4. decisions' = [decisions EXCEPT ![i] =
              [decisions[i] EXCEPT !.reviewed = TRUE, !.reviews = n]]
        BY <2>3, <3>2 DEF ReviewDecision, TypeOK
      <3>. QED
        BY <2>3, <3>3, <3>4 DEF ReviewDecision
    <2>4. ASSUME NEW k \in Ids, NEW t \in Times, SaveAction(i, k, t)
          PROVE  /\ decisions' = decisions
                 /\ \E a \in UserAction \union {None} : actions' = [actions EXCEPT ![i] = a]
      <3>1. [created |-> t, about |-> k] \in UserAction
        BY DEF UserAction
      <3>. QED
        BY <2>4, <3>1 DEF SaveAction
    <2>5. ASSUME DeleteAction(i)
          PROVE  /\ decisions' = decisions
                 /\ \E a \in UserAction \union {None} : actions' = [actions EXCEPT ![i] = a]
      BY <2>5 DEF DeleteAction
    <2>. QED
      BY <2>1, <2>2, <2>3, <2>4, <2>5 DEF Writes
  <1>3. /\ decisions' \in [Ids -> Decision \union {None}]
        /\ actions' \in [Ids -> UserAction \union {None}]
        /\ \A j \in Ids \ {i} : decisions'[j] = decisions[j] /\ actions'[j] = actions[j]
        /\ \A j \in Ids : decisions[j] # None => decisions'[j] # None
    BY <1>2, NoneAssumption DEF TypeOK
  <1>4. /\ IsFiniteSet({j \in Ids : decisions'[j] # None})
        /\ IsFiniteSet({j \in Ids : actions'[j] # None})
    <2>1. /\ IsFiniteSet({j \in Ids : decisions[j] # None} \union {i})
          /\ IsFiniteSet({j \in Ids : actions[j] # None} \union {i})
      BY FS_AddElement DEF DocumentsExist
    <2>2. /\ {j \in Ids : decisions'[j] # None} \subseteq {j \in Ids : decisions[j] # None} \union {i}
          /\ {j \in Ids : actions'[j] # None} \subseteq {j \in Ids : actions[j] # None} \union {i}
      BY <1>3
    <2>. QED
      BY <2>1, <2>2, FS_Subset
  <1>. QED
    BY <1>1, <1>3, <1>4 DEF Write

-----------------------------------------------------------------------------
\* What a response makes of the rows that were fetched.
LEMMA PageRows ==
  ASSUME ListingInv, at = "deliver"
  PROVE  /\ query \in Query /\ Up \in BOOLEAN
         /\ PageOf(fetched, Limit, Up) \subseteq fetched
         /\ IsFiniteSet(PageOf(fetched, Limit, Up))
         /\ AfterPage(fetched) \subseteq Row
         /\ Cardinality(AfterPage(fetched)) <= 1
         /\ AfterPage(fetched) = {} => PageOf(fetched, Limit, Up) = fetched
         /\ Cardinality(fetched) = Limit + 1 => AfterPage(fetched) # {}
         /\ \A c \in AfterPage(fetched) :
              /\ PageOf(fetched, Limit, Up) # {}
              /\ \A q \in PageOf(fetched, Limit, Up) : ~Before(c, q, Up)
         /\ query.by.field # "size" =>
              /\ AfterPage(fetched) \subseteq fetched
              /\ \A c \in AfterPage(fetched), q \in fetched :
                   q \in PageOf(fetched, Limit, Up) <=> ~Before(c, q, Up)
  <1>1. query \in Query /\ Up \in BOOLEAN
    <2>1. query \in Query
      BY DEF ListingInv, TypeOK, Phases
    <2>. QED
      BY <2>1, QueryFields DEF Up
  <1>2. /\ fetched \in SUBSET Row /\ IsFiniteSet(fetched) /\ Cardinality(fetched) \in Nat
        /\ Cardinality(fetched) <= Limit + 1 /\ Limit \in Nat \ {0}
    BY FS_CardinalityType, ListingAssumption DEF ListingInv, TypeOK, FetchedPast
  <1>3. fetched = First(fetched, Limit + 1, Up)
    BY <1>1, <1>2, FewAreFirst
  <1>4. /\ NextCursor(fetched, Limit, Up) \subseteq fetched
        /\ NextCursor(fetched, Limit, Up) = {} => PageOf(fetched, Limit, Up) = fetched
        /\ \A c \in NextCursor(fetched, Limit, Up), q \in fetched :
             q \in PageOf(fetched, Limit, Up) <=> ~Before(c, q, Up)
    BY <1>1, <1>2, <1>3, PageThenRest
  <1>5. PageOf(fetched, Limit, Up) \subseteq fetched /\ IsFiniteSet(PageOf(fetched, Limit, Up))
    BY <1>1, <1>2, FirstAreFirst DEF PageOf
  <1>6. CASE Cardinality(fetched) > Limit
    <2>1. /\ Nth(fetched, Limit, Up) \in Row
          /\ Nth(fetched, Limit + 1, Up) \in Row
      <3>1. Limit \in 1..Cardinality(fetched) /\ Limit + 1 \in 1..Cardinality(fetched)
        BY <1>2, <1>6
      <3>. QED
        BY <1>1, <1>2, <3>1, NthExists
    <2>2. PICK r \in Row : AfterPage(fetched) = {r}
      BY <1>6, <2>1 DEF AfterPage, NextCursor, NextCursorBySize, Row
    <2>3. Cardinality(AfterPage(fetched)) = 1
      BY <2>2, FS_Singleton
    <2>4. \A c \in AfterPage(fetched) :
            /\ PageOf(fetched, Limit, Up) # {}
            /\ \A q \in PageOf(fetched, Limit, Up) : ~Before(c, q, Up)
      <3>1. CASE query.by.field = "size"
        <4>1. AfterPage(fetched) = NextCursorBySize(fetched, Limit, Up)
          BY <3>1 DEF AfterPage
        <4>2. ASSUME NEW c \in NextCursorBySize(fetched, Limit, Up)
              PROVE  /\ PageOf(fetched, Limit, Up) # {}
                     /\ \A q \in PageOf(fetched, Limit, Up) : ~Before(c, q, Up)
          <5>1. /\ Up \in BOOLEAN /\ fetched \in SUBSET Row /\ IsFiniteSet(fetched)
                /\ Limit \in Nat \ {0}
            BY <1>1, <1>2
          <5>. QED
            BY ONLY <5>1, <1>3, <4>2, SizeCursorSkips
        <4>. QED
          BY <4>1, <4>2
      <3>2. CASE query.by.field # "size"
        <4>1. AfterPage(fetched) = NextCursor(fetched, Limit, Up)
          BY <3>2 DEF AfterPage
        <4>2. \A c \in fetched : ~Before(c, c, Up)
          BY <1>1, <1>2, BeforeIsOrder
        <4>. QED
          BY <1>4, <1>5, <4>1, <4>2
      <3>. QED
        BY <3>1, <3>2
    <2>. QED
      BY <1>1, <1>4, <1>5, <2>2, <2>3, <2>4 DEF AfterPage
  <1>7. CASE ~(Cardinality(fetched) > Limit)
    <2>1. AfterPage(fetched) = {} /\ NextCursor(fetched, Limit, Up) = {}
      BY <1>7 DEF AfterPage, NextCursor, NextCursorBySize
    <2>. QED
      BY <1>1, <1>2, <1>4, <1>5, <1>7, <2>1, FS_EmptySet
  <1>. QED
    BY <1>6, <1>7

\* In the keyset orderings there is a cursor only after a full page, its last row.
LEMMA FullPage ==
  ASSUME ListingInv, at = "deliver", query.by.field # "size",
         NEW P, P = PageOf(fetched, Limit, Up)
  PROVE  /\ Cardinality(P) \in Nat /\ Cardinality(P) <= Limit
         /\ \A c \in AfterPage(fetched) : Cardinality(P) = Limit /\ c = Nth(P, Limit, Up)
  <1>1. /\ Up \in BOOLEAN /\ fetched \in SUBSET Row /\ IsFiniteSet(fetched) /\ Limit \in Nat \ {0}
        /\ P \in SUBSET Row /\ IsFiniteSet(P) /\ P = First(fetched, Limit, Up)
    BY PageRows, ListingAssumption DEF ListingInv, TypeOK, FetchedPast, PageOf
  <1>2. /\ Cardinality(P) \in Nat /\ Cardinality(P) <= Limit
        /\ \A r \in fetched \ P : Cardinality(P) = Limit
    BY <1>1, FirstAreFirst, FS_CardinalityType
  <1>3. ASSUME NEW c \in AfterPage(fetched)
        PROVE  Cardinality(P) = Limit /\ c = Nth(P, Limit, Up)
    <2>1. /\ c \in fetched /\ \A q \in fetched : q \in P <=> ~Before(c, q, Up)
          /\ ~Before(c, c, Up)
      BY <1>1, PageRows, BeforeIsOrder
    <2>2. fetched # P
      <3>1. AfterPage(fetched) = NextCursor(fetched, Limit, Up)
        BY DEF AfterPage
      <3>2. Cardinality(fetched) > Limit /\ Cardinality(fetched) \in Nat
        BY <1>1, <3>1, FS_CardinalityType DEF NextCursor
      <3>. QED
        BY <1>1, <1>2, <3>2
    <2>3. Cardinality(P) = Limit
      BY <1>1, <1>2, <2>2, FirstAreFirst
    <2>4. PICK n \in 1..Limit : Nth(P, n, Up) = c
      BY <1>1, <2>1, <2>3, NthEnumerates
    <2>5. /\ Limit \in 1..Limit /\ Nth(P, Limit, Up) \in P
          /\ n < Limit => Before(Nth(P, n, Up), Nth(P, Limit, Up), Up)
      BY <1>1, <2>3, NthEnumerates
    <2>6. Nth(P, Limit, Up) \in fetched
      BY <1>1, <2>5, PageRows
    <2>7. ~Before(c, Nth(P, Limit, Up), Up)
      BY <2>1, <2>5, <2>6
    <2>8. n = Limit
      BY <1>1, <2>4, <2>5, <2>7
    <2>. QED
      BY <2>3, <2>4, <2>8
  <1>. QED
    BY <1>2, <1>3

\* The summary of a row has its position.
LEMMA SummaryType ==
  ASSUME ListingInv, at = "deliver", NEW r \in fetched
  PROVE  /\ Summary(r) \in Summaries
         /\ Summary(r).id = r.id /\ Summary(r).value = r.value
         /\ Key(Summary(r)) = r
  <1>1. r \in Row /\ r.id \in Ids /\ r.value \in Nat \union {NoValue}
    BY DEF ListingInv, TypeOK, DocumentsExist, Row
  <1>2. query.of = "decisions" => ReviewMetadata(r.id) \in [reviewed: BOOLEAN, reviews: Nat]
    <2>. SUFFICES ASSUME query.of = "decisions"
                  PROVE  ReviewMetadata(r.id) \in [reviewed: BOOLEAN, reviews: Nat]
      OBVIOUS
    <2>1. decisions[r.id] \in Decision
      BY DEF ListingInv, DocumentsExist, TypeOK
    <2>. QED
      BY <2>1 DEF ReviewMetadata, Decision
  <1>3. Summary(r) \in Summaries
    BY <1>1, <1>2 DEF Summary, Summaries
  <1>4. Summary(r).id = r.id /\ Summary(r).value = r.value
    BY DEF Summary
  <1>. QED
    BY <1>1, <1>3, <1>4 DEF Key, Row

\* What the client has after a response: what it had, then the rows of the page in
\* the order of the sort.
LEMMA DeliverGot ==
  ASSUME ListingInv, Deliver, NEW P, P = PageOf(fetched, Limit, Up)
  PROVE  /\ got' \in Seq(Summaries)
         /\ Len(got) \in Nat /\ Cardinality(P) \in Nat
         /\ Len(got') = Len(got) + Cardinality(P)
         /\ DOMAIN got = 1..Len(got) /\ DOMAIN got' = 1..(Len(got) + Cardinality(P))
         /\ \A n \in 1..Len(got) : got'[n] = got[n]
         /\ \A n \in 1..Cardinality(P) :
              /\ Nth(P, n, Up) \in P
              /\ got'[Len(got) + n].id = Nth(P, n, Up).id
              /\ got'[Len(got) + n].value = Nth(P, n, Up).value
              /\ Key(got'[Len(got) + n]) = Nth(P, n, Up)
         /\ \A m, n \in 1..Cardinality(P) :
              m < n => Before(got'[Len(got) + m], got'[Len(got) + n], Up)
         /\ \A r \in P : \E n \in 1..Cardinality(P) : Key(got'[Len(got) + n]) = r
  <1>. DEFINE page == Sorted(P)
              s == [n \in DOMAIN page |-> Summary(page[n])]
  <1>1. at = "deliver" /\ got' = got \o s
    BY DEF Deliver
  <1>2. /\ P \in SUBSET Row /\ P \subseteq fetched /\ IsFiniteSet(P) /\ Cardinality(P) \in Nat
        /\ Up \in BOOLEAN
    BY <1>1, PageRows, FS_CardinalityType DEF ListingInv, TypeOK
  <1>3. /\ \A n \in 1..Cardinality(P) : Nth(P, n, Up) \in P
        /\ \A m, n \in 1..Cardinality(P) : m < n => Before(Nth(P, m, Up), Nth(P, n, Up), Up)
        /\ \A r \in P : \E n \in 1..Cardinality(P) : Nth(P, n, Up) = r
    BY <1>2, NthEnumerates
  <1>4. s = [n \in 1..Cardinality(P) |-> Summary(Nth(P, n, Up))]
    BY DEF Sorted
  <1>5. \A n \in 1..Cardinality(P) :
          /\ s[n] \in Summaries
          /\ s[n].id = Nth(P, n, Up).id /\ s[n].value = Nth(P, n, Up).value
          /\ Key(s[n]) = Nth(P, n, Up)
    BY <1>1, <1>2, <1>3, <1>4, SummaryType
  <1>6. s \in Seq(Summaries) /\ Len(s) = Cardinality(P)
    <2>. HIDE DEF s
    <2>1. s \in [1..Cardinality(P) -> Summaries]
      BY <1>4, <1>5
    <2>. QED
      BY <1>2, <2>1
  <1>7. got \in Seq(Summaries) /\ Len(got) \in Nat /\ DOMAIN got = 1..Len(got)
    BY DEF ListingInv, TypeOK
  <1>. HIDE DEF s
  <1>8. /\ got' \in Seq(Summaries)
        /\ Len(got') = Len(got) + Cardinality(P)
        /\ DOMAIN got' = 1..(Len(got) + Cardinality(P))
        /\ \A n \in 1..Len(got) : got'[n] = got[n]
        /\ \A n \in 1..Cardinality(P) : got'[Len(got) + n] = s[n]
    <2>1. /\ got \o s \in Seq(Summaries)
          /\ Len(got \o s) = Len(got) + Len(s)
          /\ \A n \in 1..Len(got) + Len(s) :
               (got \o s)[n] = IF n <= Len(got) THEN got[n] ELSE s[n - Len(got)]
      BY <1>6, <1>7, ConcatProperties
    <2>2. DOMAIN (got \o s) = 1..Len(got \o s)
      BY <2>1
    <2>3. \A n \in 1..Cardinality(P) :
            /\ Len(got) + n \in 1..Len(got) + Len(s)
            /\ ~(Len(got) + n <= Len(got))
            /\ Len(got) + n - Len(got) = n
      BY <1>2, <1>6, <1>7
    <2>4. \A n \in 1..Len(got) : n \in 1..Len(got) + Len(s) /\ n <= Len(got)
      BY <1>2, <1>6, <1>7
    <2>. QED
      BY <1>1, <1>6, <2>1, <2>2, <2>3, <2>4
  <1>9. \A m, n \in 1..Cardinality(P) :
          m < n => Before(got'[Len(got) + m], got'[Len(got) + n], Up)
    BY <1>3, <1>5, <1>8 DEF Before
  <1>10. \A n \in 1..Cardinality(P) :
           /\ Nth(P, n, Up) \in P
           /\ got'[Len(got) + n].id = Nth(P, n, Up).id
           /\ got'[Len(got) + n].value = Nth(P, n, Up).value
           /\ Key(got'[Len(got) + n]) = Nth(P, n, Up)
    BY <1>3, <1>5, <1>8
  <1>11. \A r \in P : \E n \in 1..Cardinality(P) : Key(got'[Len(got) + n]) = r
    BY <1>3, <1>10
  <1>. QED
    BY <1>2, <1>7, <1>8, <1>9, <1>10, <1>11

-----------------------------------------------------------------------------
\* Without a write the same rows match.
LEMMA MatchingFrame ==
  ASSUME UNCHANGED <<decisions, actions, query>>
  PROVE  Matching(query)' = Matching(query) /\ Up' = Up
  BY DEF Matching, SortValue, Size, Matches, MatchesPlacement, ActionMatches, Up

LEMMA ListingFirst ==
  ASSUME Init
  PROVE  ListingInv
  <1>1. PICK start \in Initial : decisions = start.decisions /\ actions = start.actions
    BY DEF Init
  <1>2. /\ decisions \in [Ids -> Decision \union {None}]
        /\ actions \in [Ids -> UserAction \union {None}]
        /\ IsFiniteSet({i \in Ids : decisions[i] # None})
        /\ IsFiniteSet({i \in Ids : actions[i] # None})
    BY <1>1, InitialAssumption
  <1>3. TypeOK
    BY <1>2, FS_EmptySet, EmptySeq DEF Init, TypeOK
  <1>4. DocumentsExist
    BY <1>2 DEF Init, DocumentsExist
  <1>5. Phases /\ CountTrue
    BY DEF Init, Phases, CountTrue
  <1>6. FetchedPast
    BY FS_EmptySet DEF Init, FetchedPast
  <1>. QED
    BY <1>3, <1>4, <1>5, <1>6 DEF ListingInv

LEMMA ListingStep ==
  ASSUME ListingInv, [Next]_vars
  PROVE  ListingInv'
  <1>0. /\ TypeOK /\ DocumentsExist /\ Phases /\ FetchedPast /\ CountTrue
        /\ (at # "idle" => query \in Query /\ Up \in BOOLEAN)
    BY QueryFields DEF ListingInv, TypeOK, Phases, Up
  <1>. USE DEF ListingInv
  <1>1. ASSUME NEW q \in Query, Begin(q) PROVE ListingInv'
    <2>1. /\ at = "idle" /\ fetched = {} /\ count = 0 /\ got = << >> /\ cursor = {}
          /\ query' = q /\ at' = FirstStep(q) /\ q # None /\ FirstStep(q) \in {"count", "fetch"}
          /\ UNCHANGED <<decisions, actions, touched, changes, cursor, count, fetched, got, retries>>
      BY <1>0, <1>1, NoneAssumption DEF Begin, data, Phases, FirstStep
    <2>2. FirstStep(q) = "count" <=> q.of # "sync"
      BY DEF FirstStep
    <2>3. TypeOK'
      BY <1>0, <2>1 DEF TypeOK
    <2>4. DocumentsExist' /\ Phases' /\ FetchedPast' /\ CountTrue'
      BY <1>0, <2>1, <2>2 DEF DocumentsExist, Phases, FetchedPast, CountTrue
    <2>. QED
      BY <2>3, <2>4
  <1>2. CASE CountMatching
    <2>1. /\ at = "count" /\ at' = "fetch" /\ count' = Cardinality(Matching(query))
          /\ UNCHANGED <<decisions, actions, touched, changes, query, cursor, fetched, got, retries>>
          /\ query \in Query
      BY <1>0, <1>2 DEF CountMatching, data
    <2>2. count' \in Nat /\ count' = Cardinality(Matching(query)')
      BY <1>0, <2>1, MatchingRows, MatchingFrame, FS_CardinalityType
    <2>3. TypeOK'
      BY <1>0, <2>1, <2>2 DEF TypeOK
    <2>4. DocumentsExist' /\ Phases' /\ FetchedPast'
      BY <1>0, <2>1 DEF DocumentsExist, Phases, FetchedPast
    <2>5. CountTrue'
      BY <1>0, <2>1, <2>2 DEF Phases, CountTrue
    <2>. QED
      BY <2>3, <2>4, <2>5
  <1>3. CASE FetchPage
    <2>. DEFINE S == {r \in Matching(query) : \A c \in cursor : Past(r, c, Up)}
    <2>1. /\ at = "fetch" /\ at' = "deliver" /\ fetched' = First(S, Limit + 1, Up)
          /\ UNCHANGED <<decisions, actions, touched, changes, query, cursor, count, got, retries>>
          /\ query \in Query /\ Up \in BOOLEAN /\ Limit + 1 \in Nat
      BY <1>0, <1>3, ListingAssumption DEF FetchPage, data, Fetched
    <2>2. /\ Matching(query) \subseteq Row /\ IsFiniteSet(Matching(query))
          /\ \A r \in Matching(query) : r.id \in Ids /\ (query.of # "actions" => decisions[r.id] # None)
      BY <1>0, <2>1, MatchingRows
    <2>3. S \in SUBSET Row /\ IsFiniteSet(S)
      BY <2>2, FS_Subset
    <2>4. /\ fetched' \subseteq S /\ IsFiniteSet(fetched') /\ Cardinality(fetched') <= Limit + 1
      <3>. HIDE DEF S
      <3>. QED
        BY <2>1, <2>3, FirstAreFirst
    <2>5. TypeOK'
      BY <1>0, <2>1, <2>3, <2>4 DEF TypeOK
    <2>6. DocumentsExist'
      BY <1>0, <2>1, <2>2, <2>4 DEF DocumentsExist
    <2>7. FetchedPast'
      BY <2>1, <2>4 DEF FetchedPast, Up
    <2>8. Phases'
      BY <1>0, <2>1 DEF Phases
    <2>9. CountTrue'
      BY <1>0, <2>1, MatchingFrame DEF CountTrue
    <2>. QED
      BY <2>5, <2>6, <2>7, <2>8, <2>9
  <1>4. CASE Deliver
    <2>1. /\ at = "deliver" /\ fetched' = {} /\ cursor' = AfterPage(fetched)
          /\ at' = IF AfterPage(fetched) = {} THEN "done" ELSE FirstStep(query)
          /\ UNCHANGED <<decisions, actions, touched, changes, query, count, retries>>
          /\ query \in Query /\ query # None
      BY <1>0, <1>4 DEF Deliver, data, Phases
    <2>2. /\ FirstStep(query) \in {"count", "fetch"}
          /\ FirstStep(query) = "count" <=> query.of # "sync"
      BY DEF FirstStep
    <2>3. got' \in Seq(Summaries)
      BY <1>4, DeliverGot
    <2>4. AfterPage(fetched) \subseteq Row /\ Cardinality(AfterPage(fetched)) <= 1
      BY <2>1, PageRows
    <2>5. TypeOK'
      BY <1>0, <2>1, <2>2, <2>3, <2>4 DEF TypeOK
    <2>6. DocumentsExist' /\ Phases' /\ FetchedPast'
      BY <1>0, <2>1, <2>2, FS_EmptySet DEF DocumentsExist, Phases, FetchedPast
    <2>7. CountTrue'
      BY <1>0, <2>1, <2>2, MatchingFrame DEF CountTrue
    <2>. QED
      BY <2>5, <2>6, <2>7
  <1>5. CASE AskAgain
    <2>1. /\ at \in {"fetch", "deliver"} /\ at' = FirstStep(query) /\ fetched' = {}
          /\ retries' = retries + 1
          /\ UNCHANGED <<decisions, actions, touched, changes, query, cursor, count, got>>
          /\ query \in Query /\ query # None
      BY <1>0, <1>5 DEF AskAgain, data, Phases
    <2>2. /\ FirstStep(query) \in {"count", "fetch"}
          /\ FirstStep(query) = "count" <=> query.of # "sync"
      BY DEF FirstStep
    <2>3. TypeOK'
      BY <1>0, <2>1, <2>2 DEF TypeOK
    <2>4. DocumentsExist' /\ Phases' /\ FetchedPast'
      BY <1>0, <2>1, <2>2, FS_EmptySet DEF DocumentsExist, Phases, FetchedPast
    <2>5. CountTrue'
      BY <1>0, <2>1, <2>2, MatchingFrame DEF CountTrue
    <2>. QED
      BY <2>3, <2>4, <2>5
  <1>6. ASSUME NEW i \in Ids, Writes(i) PROVE ListingInv'
    <2>1. /\ decisions' \in [Ids -> Decision \union {None}]
          /\ actions' \in [Ids -> UserAction \union {None}]
          /\ \A j \in Ids : decisions[j] # None => decisions'[j] # None
          /\ UNCHANGED <<query, at, cursor, count, fetched, got, retries>>
          /\ at # "done" /\ changes' = changes + 1
          /\ touched' = IF at = "idle" THEN touched ELSE touched \union {i}
          /\ IsFiniteSet({j \in Ids : decisions'[j] # None})
          /\ IsFiniteSet({j \in Ids : actions'[j] # None})
      BY <1>0, <1>6, WriteFrame
    <2>2. TypeOK'
      BY <1>0, <2>1 DEF TypeOK
    <2>3. DocumentsExist' /\ FetchedPast'
      BY <1>0, <2>1 DEF DocumentsExist, FetchedPast, Up
    <2>4. Phases' /\ CountTrue'
      BY <1>0, <2>1 DEF Phases, CountTrue
    <2>. QED
      BY <2>2, <2>3, <2>4
  <1>7. CASE UNCHANGED vars
    <2>1. UNCHANGED <<decisions, actions, touched, changes, query, at, cursor, count, fetched, got, retries>>
      BY <1>7 DEF vars
    <2>2. TypeOK'
      BY <1>0, <2>1 DEF TypeOK
    <2>3. DocumentsExist' /\ Phases' /\ FetchedPast'
      BY <1>0, <2>1 DEF DocumentsExist, Phases, FetchedPast, Up
    <2>4. CountTrue'
      BY <1>0, <2>1, MatchingFrame DEF CountTrue
    <2>. QED
      BY <2>2, <2>3, <2>4
  <1>. QED
    BY <1>1, <1>2, <1>3, <1>4, <1>5, <1>6, <1>7, StepsAre

LEMMA ListingInvariant == Spec => []ListingInv
  BY ListingFirst, ListingStep, PTL DEF Spec

\* Every variable keeps its type, for every ordering, whatever is written between
\* two pages.
THEOREM ListingTyped == Spec => []TypeOK
  <1>1. ListingInv => TypeOK
    BY DEF ListingInv
  <1>. QED
    BY <1>1, ListingInvariant, PTL

-----------------------------------------------------------------------------
\* The order of delivery.
OrderInv == ListingInv /\ Ordered

\* A client pages through one query.
LEMMA QueryKept ==
  ASSUME ListingInv, [Next]_vars
  PROVE  /\ query' = query \/ query = None
         /\ ByStored' => ByStored
  <1>1. ASSUME NEW i \in Ids, Writes(i) PROVE query' = query
    BY <1>1, WriteFrame DEF ListingInv
  <1>2. query' = query \/ query = None
    BY <1>1, StepsAre
       DEF Begin, CountMatching, FetchPage, Deliver, AskAgain, vars, ListingInv, Phases
  <1>. QED
    BY <1>2 DEF ByStored

\* The positions delivered are positions of rows.
LEMMA KeyType ==
  ASSUME TypeOK, NEW n \in DOMAIN got
  PROVE  /\ Key(got[n]) \in Row
         /\ Key(got[n]).id = got[n].id /\ Key(got[n]).value = got[n].value
  <1>1. got[n] \in Summaries
    BY DEF TypeOK
  <1>. QED
    BY <1>1, ListingAssumption DEF Summaries, Row, Key

\* Whatever was delivered is before every row of the page to come.
LEMMA DeliveredBefore ==
  ASSUME ListingInv, Ordered, at = "deliver", NEW n \in DOMAIN got, NEW r \in fetched
  PROVE  Before(got[n], r, Up) /\ Before(Key(got[n]), r, Up)
  <1>1. /\ query \in Query /\ query # None /\ Up \in BOOLEAN /\ r \in Row /\ cursor \subseteq Row
    BY QueryFields DEF ListingInv, TypeOK, Phases, Up
  <1>2. PICK c \in cursor : ~Before(c, Key(got[n]), Up)
    BY <1>1 DEF Ordered, Reached
  <1>3. Key(got[n]) \in Row /\ Key(got[n]).id = got[n].id /\ Key(got[n]).value = got[n].value
    BY KeyType DEF ListingInv
  <1>4. Before(c, r, Up)
    <2>1. Past(r, c, Up)
      BY DEF ListingInv, FetchedPast
    <2>. QED
      BY <1>1, <2>1, PastIsAfter
  <1>5. Before(Key(got[n]), r, Up)
    BY <1>1, <1>2, <1>3, <1>4, BeforeIsOrder
  <1>. QED
    BY <1>3, <1>5 DEF Before

LEMMA OrderStep ==
  ASSUME OrderInv, [Next]_vars
  PROVE  OrderInv'
  <1>. SUFFICES Ordered'
    BY ListingStep DEF OrderInv
  <1>0. ListingInv /\ ListingInv' /\ Ordered /\ TypeOK /\ Phases
    BY ListingStep DEF OrderInv, ListingInv
  <1>1. ASSUME NEW q \in Query, Begin(q) PROVE Ordered'
    <2>1. got' = << >>
      BY <1>0, <1>1 DEF Begin, Phases
    <2>. QED
      BY <2>1 DEF Ordered
  <1>2. CASE /\ UNCHANGED <<query, got, cursor>>
             /\ at' \in {"count", "fetch", "deliver"} => at \in {"count", "fetch", "deliver"}
    <2>1. Up' = Up /\ \A r : Reached(r)' <=> Reached(r)
      BY <1>2 DEF Up, Reached
    <2>. QED
      BY <1>0, <1>2, <2>1 DEF Ordered
  <1>3. CASE CountMatching \/ FetchPage \/ AskAgain
    BY <1>2, <1>3 DEF CountMatching, FetchPage, AskAgain
  <1>4. CASE Deliver
    <2>1. /\ at = "deliver" /\ query' = query /\ query # None /\ Up' = Up
          /\ cursor' = AfterPage(fetched)
          /\ at' # "done" => AfterPage(fetched) # {}
      BY <1>0, <1>4 DEF Deliver, Phases, Up
    <2>3. PICK P : P = PageOf(fetched, Limit, Up)
      OBVIOUS
    <2>4. /\ P \subseteq fetched /\ Up \in BOOLEAN /\ fetched \subseteq Row
          /\ AfterPage(fetched) \subseteq Row
          /\ \A c \in AfterPage(fetched) : P # {} /\ \A q \in P : ~Before(c, q, Up)
      BY <1>0, <2>1, <2>3, PageRows DEF TypeOK
    <2>5. /\ Len(got) \in Nat /\ Cardinality(P) \in Nat
          /\ DOMAIN got = 1..Len(got) /\ DOMAIN got' = 1..(Len(got) + Cardinality(P))
          /\ \A n \in 1..Len(got) : got'[n] = got[n]
          /\ \A n \in 1..Cardinality(P) :
              /\ Nth(P, n, Up) \in P
              /\ got'[Len(got) + n].id = Nth(P, n, Up).id
              /\ got'[Len(got) + n].value = Nth(P, n, Up).value
              /\ Key(got'[Len(got) + n]) = Nth(P, n, Up)
          /\ \A m, n \in 1..Cardinality(P) :
              m < n => Before(got'[Len(got) + m], got'[Len(got) + n], Up)
      BY <1>0, <1>4, <2>3, DeliverGot
    <2>6. \A n \in DOMAIN got' : \/ n \in 1..Len(got)
                                 \/ \E k \in 1..Cardinality(P) : n = Len(got) + k
      <3>. SUFFICES ASSUME NEW n \in DOMAIN got', n \notin 1..Len(got)
                    PROVE  \E k \in 1..Cardinality(P) : n = Len(got) + k
        OBVIOUS
      <3>1. n - Len(got) \in 1..Cardinality(P) /\ n = Len(got) + (n - Len(got))
        BY <2>5
      <3>. QED
        BY <3>1
    <2>7. ASSUME NEW m \in DOMAIN got', NEW n \in DOMAIN got', m < n
          PROVE  Before(got'[m], got'[n], Up)
      <3>1. CASE m \in 1..Len(got) /\ n \in 1..Len(got)
        BY <1>0, <2>1, <2>5, <2>7, <3>1 DEF Ordered
      <3>2. CASE m \in 1..Len(got) /\ n \notin 1..Len(got)
        <4>1. PICK k \in 1..Cardinality(P) : n = Len(got) + k
          BY <2>6, <3>2
        <4>2. Before(got[m], Nth(P, k, Up), Up)
          BY <1>0, <2>1, <2>4, <2>5, <3>2, DeliveredBefore
        <4>. QED
          BY <2>5, <3>2, <4>1, <4>2 DEF Before
      <3>3. CASE m \notin 1..Len(got)
        <4>1. PICK j \in 1..Cardinality(P) : m = Len(got) + j
          BY <2>6, <3>3
        <4>2. n \notin 1..Len(got)
          BY <2>5, <2>7, <4>1
        <4>3. PICK k \in 1..Cardinality(P) : n = Len(got) + k
          BY <2>6, <4>2
        <4>4. j < k
          BY <2>5, <2>7, <4>1, <4>3
        <4>. QED
          BY <2>5, <4>1, <4>3, <4>4
      <3>. QED
        BY <3>1, <3>2, <3>3
    <2>8. ASSUME NEW n \in DOMAIN got', NEW c \in AfterPage(fetched)
          PROVE  ~Before(c, Key(got'[n]), Up)
      <3>1. CASE n \in 1..Len(got)
        <4>1. PICK q \in P : ~Before(c, q, Up)
          BY <2>4
        <4>2. /\ Before(Key(got[n]), q, Up) /\ Key(got[n]) \in Row
              /\ q \in Row /\ c \in Row
          BY <1>0, <2>1, <2>4, <2>5, <3>1, DeliveredBefore, KeyType
        <4>3. ~Before(c, Key(got[n]), Up)
          BY <2>4, <4>1, <4>2, BeforeIsOrder
        <4>. QED
          BY <2>5, <3>1, <4>3
      <3>2. CASE n \notin 1..Len(got)
        <4>1. PICK k \in 1..Cardinality(P) : n = Len(got) + k
          BY <2>6, <3>2
        <4>. QED
          BY <2>4, <2>5, <4>1
      <3>. QED
        BY <3>1, <3>2
    <2>9. Ordered'
      <3>1. at' # "done" => \A n \in DOMAIN got' : \E c \in cursor' : ~Before(c, Key(got'[n]), Up')
        BY <2>1, <2>8
      <3>2. \A m, n \in DOMAIN got' : m < n => Before(got'[m], got'[n], Up')
        BY <2>1, <2>7
      <3>. QED
        BY <3>1, <3>2 DEF Ordered, Reached, Key
    <2>. QED
      BY <2>9
  <1>5. ASSUME NEW i \in Ids, Writes(i)
        PROVE  Ordered'
    <2>1. UNCHANGED <<query, got, cursor, at>>
      BY <1>0, <1>5, WriteFrame DEF ListingInv
    <2>. QED
      BY <1>2, <2>1
  <1>6. CASE UNCHANGED vars
    BY <1>2, <1>6 DEF vars
  <1>. QED
    BY <1>1, <1>3, <1>4, <1>5, <1>6, StepsAre

LEMMA OrderInvariant == Spec => []OrderInv
  <1>1. Init => OrderInv
    BY ListingFirst DEF Init, OrderInv, Ordered
  <1>2. OrderInv /\ [Next]_vars => OrderInv'
    BY OrderStep
  <1>. QED
    BY <1>1, <1>2, PTL DEF Spec

\* Across pages, lost responses and concurrent writes, the client receives the rows
\* in the order it asked for, and no position twice, in every ordering.
THEOREM InOrder == Spec => []DeliveredInOrder
  <1>1. OrderInv => DeliveredInOrder
    <2>1. OrderInv /\ query = None => got = << >>
      BY DEF OrderInv, ListingInv, Phases
    <2>. QED
      BY <2>1 DEF OrderInv, Ordered, DeliveredInOrder
  <1>. QED
    BY <1>1, OrderInvariant, PTL

-----------------------------------------------------------------------------
\* Completeness.
SteadyInv == OrderInv /\ (ByStored => Tiers /\ SteadyFetched /\ SteadyDelivered)

\* The condition of the cursor selects the matching rows of its tier that it has not
\* reached.
LEMMA AheadIsUnreached ==
  ASSUME ListingInv, query # None, NEW r \in Matching(query)
  PROVE  Ahead(r) <=> ~Reached(r) /\ \A c \in cursor : SameTier(c, r)
  <1>1. query \in Query /\ Up \in BOOLEAN /\ cursor \subseteq Row
    BY QueryFields DEF ListingInv, TypeOK, Up
  <1>2. r \in Row
    BY <1>1, MatchingRows DEF ListingInv
  <1>3. \A c \in cursor : Past(r, c, Up) <=> Before(c, r, Up) /\ SameTier(c, r)
    BY <1>1, <1>2, PastIsAfter DEF SameTier
  <1>. QED
    BY <1>3 DEF Reached, Ahead

\* What was delivered was in reach.
LEMMA DeliveredInReach ==
  ASSUME ListingInv, Ordered, Tiers, query # None, NEW n \in DOMAIN got
  PROVE  InReach(Key(got[n]))
  <1>1. /\ query \in Query /\ Up \in BOOLEAN /\ Limit \in Nat \ {0}
        /\ Len(got) \in Nat /\ DOMAIN got = 1..Len(got)
    BY QueryFields, ListingAssumption DEF ListingInv, TypeOK, Up
  <1>. SUFFICES ASSUME Len(got) >= Limit, FirstTier(got[Limit].value)
                PROVE  FirstTier(got[n].value)
    BY DEF InReach, Key
  <1>2. Limit \in DOMAIN got
    BY <1>1
  <1>3. CASE n > Limit
    BY <1>3 DEF Tiers, SameTier, FirstTier
  <1>4. CASE n = Limit
    BY <1>4
  <1>5. CASE n < Limit
    <2>1. Before(got[n], got[Limit], Up)
      BY <1>2, <1>5 DEF Ordered
    <2>2. Before(Key(got[n]), Key(got[Limit]), Up)
      BY <2>1 DEF Before, Key
    <2>3. /\ Key(got[n]) \in Row /\ Key(got[n]).value = got[n].value
          /\ Key(got[Limit]) \in Row /\ Key(got[Limit]).value = got[Limit].value
      BY <1>2, KeyType DEF ListingInv
    <2>4. CASE SameTier(Key(got[n]), Key(got[Limit]))
      BY <2>3, <2>4 DEF SameTier, FirstTier
    <2>5. CASE ~SameTier(Key(got[n]), Key(got[Limit]))
      BY <1>1, <2>2, <2>3, <2>5, PastIsAfter DEF SameTier, FirstTier
    <2>. QED
      BY <2>4, <2>5
  <1>. QED
    BY <1>1, <1>3, <1>4, <1>5

\* A write leaves the rows of the other documents as they are.
LEMMA SteadyFrame ==
  ASSUME ListingInv, ByStored, query # None, NEW i \in Ids, Writes(i),
         NEW j \in Ids, Steady(j)'
  PROVE  /\ Steady(j)
         /\ \A r : r.id = j => (r \in Matching(query)' <=> r \in Matching(query))
  <1>1. /\ \A k \in Ids \ {i} : decisions'[k] = decisions[k] /\ actions'[k] = actions[k]
        /\ query' = query /\ touched' = touched \union {i}
        /\ query \in Query
    BY WriteFrame DEF ListingInv, TypeOK, Phases
  <1>2. /\ j # i /\ Steady(j)
        /\ query.of = "actions" => query.filter.decision # i
    BY <1>1 DEF Steady
  <1>3. decisions'[j] = decisions[j] /\ actions'[j] = actions[j]
    BY <1>1, <1>2
  <1>4. ASSUME NEW r, r.id = j PROVE r \in Matching(query)' <=> r \in Matching(query)
    <2>1. CASE query.of # "actions"
      <3>1. query.by.field \in {"created", "updated", "confidence"}
        BY <1>1, QueryFields DEF ByStored, Fields
      <3>2. Matches(j, query.filter)' <=> Matches(j, query.filter)
        BY <1>1, <1>3 DEF Matches, MatchesPlacement
      <3>3. SortValue(j, query.by.field)' = SortValue(j, query.by.field)
        BY <1>1, <1>3, <3>1 DEF SortValue
      <3>4. r \in Matching(query) <=> /\ Matches(j, query.filter)
                                      /\ r = [id |-> j, value |-> SortValue(j, query.by.field)]
        BY <1>4, <2>1 DEF Matching
      <3>5. r \in Matching(query)' <=> /\ Matches(j, query.filter)'
                                       /\ r = [id |-> j, value |-> SortValue(j, query.by.field)']
        BY <1>1, <1>4, <2>1 DEF Matching
      <3>. QED
        BY <3>2, <3>3, <3>4, <3>5
    <2>2. CASE query.of = "actions"
      <3>1. query.filter.decision # None => query.filter.decision \in Ids \ {i}
        BY <1>1, <1>2, <2>2, QueryFields DEF ActionFilter
      <3>2. ActionMatches(j, query.filter)' <=> ActionMatches(j, query.filter)
        BY <1>1, <1>3, <3>1 DEF ActionMatches
      <3>3. r \in Matching(query) <=> /\ ActionMatches(j, query.filter)
                                      /\ r = [id |-> j, value |-> actions[j].created]
        BY <1>4, <2>2 DEF Matching
      <3>4. r \in Matching(query)' <=> /\ ActionMatches(j, query.filter)'
                                       /\ r = [id |-> j, value |-> actions'[j].created]
        BY <1>1, <1>4, <2>2 DEF Matching
      <3>. QED
        BY <1>3, <3>2, <3>3, <3>4
    <2>. QED
      BY <2>1, <2>2
  <1>. QED
    BY <1>2, <1>4

\* The first page decides on the tier, the others keep it.
LEMMA TiersDeliver ==
  ASSUME SteadyInv, ByStored, Deliver
  PROVE  Tiers'
  <1>1. /\ ListingInv /\ Tiers /\ at = "deliver" /\ query # None /\ query.by.field # "size"
        /\ cursor' = AfterPage(fetched) /\ Limit \in Nat \ {0}
        /\ cursor = {} => got = << >>
    BY ListingAssumption DEF SteadyInv, OrderInv, ListingInv, Phases, ByStored, Deliver
  <1>2. PICK P : P = PageOf(fetched, Limit, Up)
    OBVIOUS
  <1>3. /\ P \subseteq fetched /\ AfterPage(fetched) \subseteq fetched
        /\ Cardinality(P) \in Nat /\ Cardinality(P) <= Limit
        /\ \A c \in AfterPage(fetched) : Cardinality(P) = Limit /\ c = Nth(P, Limit, Up)
    BY <1>1, <1>2, PageRows, FullPage
  <1>4. /\ Len(got) \in Nat /\ Len(got') = Len(got) + Cardinality(P)
        /\ DOMAIN got = 1..Len(got) /\ DOMAIN got' = 1..(Len(got) + Cardinality(P))
        /\ \A n \in 1..Len(got) : got'[n] = got[n]
        /\ \A n \in 1..Cardinality(P) :
             /\ Nth(P, n, Up) \in P
             /\ got'[Len(got) + n].value = Nth(P, n, Up).value
    BY <1>1, <1>2, DeliverGot
  <1>5. CASE cursor = {}
    <2>1. Len(got) = 0
      BY <1>1, <1>5
    <2>2. \A c \in cursor' : Len(got') >= Limit /\ SameTier(c, got'[Limit])
      BY <1>1, <1>3, <1>4, <2>1 DEF SameTier
    <2>3. \A n \in DOMAIN got' : ~(n > Limit)
      BY <1>1, <1>3, <1>4, <2>1
    <2>. QED
      BY <2>2, <2>3 DEF Tiers
  <1>6. CASE cursor # {}
    <2>1. PICK d \in cursor : SameTier(d, got[Limit]) /\ Len(got) >= Limit
      BY <1>1, <1>6 DEF Tiers
    <2>2. /\ Limit \in 1..Len(got) /\ got'[Limit] = got[Limit] /\ Len(got') >= Limit
      BY <1>1, <1>3, <1>4, <2>1
    <2>3. ASSUME NEW r \in fetched PROVE SameTier(r, got[Limit])
      <3>1. Past(r, d, Up) /\ r \in Row /\ d \in Row /\ Up \in BOOLEAN
        BY <1>1, PageRows DEF ListingInv, FetchedPast, TypeOK
      <3>. QED
        BY <2>1, <3>1, PastIsAfter DEF SameTier
    <2>4. ASSUME NEW n \in DOMAIN got', n > Limit PROVE SameTier(got'[n], got'[Limit])
      <3>1. CASE n \in 1..Len(got)
        BY <1>1, <1>4, <2>2, <2>4, <3>1 DEF Tiers
      <3>2. CASE n \notin 1..Len(got)
        <4>1. n - Len(got) \in 1..Cardinality(P) /\ n = Len(got) + (n - Len(got))
          BY <1>3, <1>4, <3>2
        <4>2. PICK k \in 1..Cardinality(P) : n = Len(got) + k
          BY <4>1
        <4>. QED
          BY <1>3, <1>4, <2>2, <2>3, <4>2 DEF SameTier
      <3>. QED
        BY <3>1, <3>2
    <2>. QED
      BY <1>1, <1>3, <2>2, <2>3, <2>4 DEF Tiers
  <1>. QED
    BY <1>5, <1>6

\* A response delivers what the cursor moves over.
LEMMA SteadyDeliver ==
  ASSUME SteadyInv, ByStored, Deliver
  PROVE  SteadyDelivered'
  <1>1. /\ ListingInv /\ OrderInv /\ Ordered /\ Tiers /\ ByStored /\ TypeOK
        /\ at = "deliver" /\ query # None /\ query' = query /\ Up' = Up
        /\ UNCHANGED <<decisions, actions, touched>>
        /\ cursor' = AfterPage(fetched)
        /\ at' = "done" <=> AfterPage(fetched) = {}
        /\ Matching(query)' = Matching(query)
    BY MatchingFrame
       DEF SteadyInv, OrderInv, ListingInv, ByStored, Phases, Deliver, data, Up, FirstStep
  <1>2. PICK P : P = PageOf(fetched, Limit, Up)
    OBVIOUS
  <1>3. /\ query \in Query /\ Up \in BOOLEAN
        /\ P \subseteq fetched /\ fetched \subseteq Row /\ cursor \subseteq Row
        /\ AfterPage(fetched) \subseteq fetched
        /\ AfterPage(fetched) = {} => P = fetched
        /\ Cardinality(fetched) = Limit + 1 => AfterPage(fetched) # {}
        /\ \A c \in AfterPage(fetched), q \in fetched : q \in P <=> ~Before(c, q, Up)
    BY <1>1, <1>2, PageRows DEF TypeOK, ByStored
  <1>4. /\ Len(got) \in Nat /\ Cardinality(P) \in Nat
        /\ DOMAIN got = 1..Len(got) /\ DOMAIN got' = 1..(Len(got) + Cardinality(P))
        /\ \A n \in 1..Len(got) : got'[n] = got[n]
        /\ \A n \in 1..Cardinality(P) :
             /\ Nth(P, n, Up) \in P
             /\ got'[Len(got) + n].id = Nth(P, n, Up).id
             /\ Key(got'[Len(got) + n]) = Nth(P, n, Up)
        /\ \A r \in P : \E n \in 1..Cardinality(P) : Key(got'[Len(got) + n]) = r
    BY <1>1, <1>2, DeliverGot
  <1>5. \A n \in DOMAIN got' : \/ n \in 1..Len(got)
                               \/ \E k \in 1..Cardinality(P) : n = Len(got) + k
    <2>. SUFFICES ASSUME NEW n \in DOMAIN got', n \notin 1..Len(got)
                  PROVE  \E k \in 1..Cardinality(P) : n = Len(got) + k
      OBVIOUS
    <2>1. n - Len(got) \in 1..Cardinality(P) /\ n = Len(got) + (n - Len(got))
      BY <1>4
    <2>. QED
      BY <2>1
  <1>6. ASSUME NEW i \in Ids, Steady(i)
        PROVE  /\ \A n \in DOMAIN got' : got'[n].id = i => Key(got'[n]) \in Matching(query)
               /\ \A r \in Matching(query) : r.id = i =>
                    IF AfterPage(fetched) = {}
                    THEN InReach(r)' => \E n \in DOMAIN got' : got'[n].id = i
                    ELSE (\E n \in DOMAIN got' : got'[n].id = i)
                           <=> \E c \in AfterPage(fetched) : ~Before(c, r, Up)
    <2>1. /\ \A n \in DOMAIN got : got[n].id = i => Key(got[n]) \in Matching(query)
          /\ \A r \in Matching(query) : r.id = i =>
               ((\E n \in DOMAIN got : got[n].id = i) <=> Reached(r))
          /\ \A r \in fetched : r.id = i => r \in Matching(query)
          /\ \A r \in Matching(query) : r.id = i /\ Ahead(r) /\ r \notin fetched =>
               Cardinality(fetched) = Limit + 1 /\ \A f \in fetched : Before(f, r, Up)
      BY <1>1, <1>6 DEF SteadyInv, SteadyDelivered, SteadyFetched, Delivered
    <2>2. /\ Matching(query) \subseteq Row
          /\ \A a, b \in Matching(query) : a.id = b.id => a = b
      BY <1>1, <1>3, MatchingRows DEF ListingInv
    <2>3. ASSUME NEW n \in DOMAIN got', got'[n].id = i PROVE Key(got'[n]) \in Matching(query)
      <3>1. CASE n \in 1..Len(got)
        BY <1>4, <2>1, <2>3, <3>1
      <3>2. CASE \E k \in 1..Cardinality(P) : n = Len(got) + k
        BY <1>3, <1>4, <2>1, <2>3, <3>2
      <3>. QED
        BY <1>5, <2>3, <3>1, <3>2
    <2>4. ASSUME NEW r \in Matching(query), r.id = i
          PROVE  (\E n \in DOMAIN got' : got'[n].id = i) <=> Reached(r) \/ r \in P
      <3>1. ASSUME NEW n \in DOMAIN got', got'[n].id = i PROVE Reached(r) \/ r \in P
        <4>1. CASE n \in 1..Len(got)
          BY <1>4, <2>1, <2>4, <3>1, <4>1
        <4>2. CASE \E k \in 1..Cardinality(P) : n = Len(got) + k
          <5>1. PICK k \in 1..Cardinality(P) : n = Len(got) + k
            BY <4>2
          <5>2. Nth(P, k, Up) \in P /\ Nth(P, k, Up).id = i
            BY <1>4, <3>1, <5>1
          <5>3. Nth(P, k, Up) = r
            BY <1>3, <2>1, <2>2, <2>4, <5>2
          <5>. QED
            BY <5>2, <5>3
        <4>. QED
          BY <1>5, <3>1, <4>1, <4>2
      <3>2. ASSUME Reached(r) PROVE \E n \in DOMAIN got' : got'[n].id = i
        <4>1. PICK n \in DOMAIN got : got[n].id = i
          BY <2>1, <2>4, <3>2
        <4>2. n \in DOMAIN got' /\ got'[n] = got[n]
          BY <1>4
        <4>. QED
          BY <4>1, <4>2
      <3>3. ASSUME r \in P PROVE \E n \in DOMAIN got' : got'[n].id = i
        <4>1. PICK k \in 1..Cardinality(P) : Key(got'[Len(got) + k]) = r
          BY <1>4, <3>3
        <4>2. Len(got) + k \in DOMAIN got' /\ got'[Len(got) + k].id = i
          BY <1>4, <2>4, <4>1
        <4>. QED
          BY <4>2
      <3>. QED
        BY <3>1, <3>2, <3>3
    <2>5. ASSUME NEW r \in Matching(query), r.id = i, ~Reached(r), r \notin P,
                 \A c \in cursor : SameTier(c, r)
          PROVE  AfterPage(fetched) # {} /\ \A c \in AfterPage(fetched) : Before(c, r, Up)
      <3>1. Ahead(r)
        BY <1>1, <2>5, AheadIsUnreached
      <3>. QED
        BY <1>3, <2>1, <2>5, <3>1
    <2>6. ASSUME NEW r \in Matching(query), r.id = i, NEW c \in AfterPage(fetched)
          PROVE  Reached(r) \/ r \in P <=> ~Before(c, r, Up)
      <3>1. ASSUME NEW d \in cursor
            PROVE  Before(d, c, Up) /\ SameTier(d, c) /\ d \in Row /\ c \in Row
        <4>1. Past(c, d, Up) /\ c \in Row /\ d \in Row
          BY <1>1, <1>3 DEF ListingInv, FetchedPast
        <4>. QED
          BY <1>3, <4>1, PastIsAfter DEF SameTier
      <3>2. ASSUME Reached(r) PROVE ~Before(c, r, Up)
        <4>1. PICK d \in cursor : ~Before(d, r, Up)
          BY <3>2 DEF Reached
        <4>. QED
          BY <1>3, <2>2, <3>1, <4>1, BeforeIsOrder
      <3>3. ASSUME ~Reached(r), r \notin P PROVE Before(c, r, Up)
        <4>1. CASE \A d \in cursor : SameTier(d, r)
          BY <2>5, <2>6, <3>3, <4>1
        <4>2. ASSUME NEW d \in cursor, ~SameTier(d, r) PROVE Before(c, r, Up)
          <5>1. Before(d, r, Up) /\ SameTier(d, c) /\ d \in Row /\ c \in Row /\ r \in Row
            BY <2>2, <3>1, <3>3, <4>2 DEF Reached
          <5>. QED
            BY <1>3, <4>2, <5>1, PastIsAfter DEF SameTier
        <4>. QED
          BY <4>1, <4>2
      <3>. QED
        BY <1>3, <2>6, <3>2, <3>3
    <2>7. ASSUME NEW r \in Matching(query), r.id = i, AfterPage(fetched) = {}, ~Reached(r), r \notin P
          PROVE  ~InReach(r)'
      <3>1. PICK d \in cursor : ~SameTier(d, r)
        BY <2>5, <2>7
      <3>2. /\ Before(d, r, Up) /\ d \in Row /\ r \in Row
            /\ SameTier(d, got[Limit]) /\ Len(got) >= Limit /\ Limit \in Nat \ {0}
        BY <1>1, <1>3, <2>2, <2>7, <3>1, ListingAssumption DEF Reached, Tiers
      <3>3. FirstTier(got[Limit].value) /\ ~FirstTier(r.value)
        BY <1>3, <3>1, <3>2, PastIsAfter DEF SameTier, FirstTier
      <3>4. /\ got'[Limit] = got[Limit] /\ Len(got') >= Limit
        BY <1>4, <3>2
      <3>. QED
        BY <1>1, <3>3, <3>4 DEF InReach, FirstTier
    <2>. QED
      BY <2>3, <2>4, <2>6, <2>7
  <1>7. \A i \in Ids : Steady(i)' <=> Steady(i)
    BY <1>1 DEF Steady
  <1>8. \A i \in Ids : Steady(i)' =>
          /\ \A n \in Delivered(i)' : Key(got'[n]) \in Matching(query)'
          /\ \A r \in Matching(query)' : r.id = i =>
               IF at' = "done" THEN InReach(r)' => Delivered(i)' # {}
                               ELSE Delivered(i)' # {} <=> Reached(r)'
    BY <1>1, <1>6, <1>7 DEF Delivered, Reached
  <1>. QED
    BY <1>8 DEF SteadyDelivered, Key

LEMMA SteadyStep ==
  ASSUME SteadyInv, [Next]_vars
  PROVE  SteadyInv'
  <1>. SUFFICES ASSUME ByStored' PROVE Tiers' /\ SteadyFetched' /\ SteadyDelivered'
    BY OrderStep DEF SteadyInv
  <1>0. /\ OrderInv /\ OrderInv' /\ ListingInv /\ ListingInv' /\ TypeOK /\ DocumentsExist /\ Phases
        /\ ByStored /\ Tiers /\ SteadyFetched /\ SteadyDelivered
    BY OrderStep, QueryKept DEF SteadyInv, OrderInv, ListingInv
  <1>1. ASSUME NEW q \in Query, Begin(q) PROVE Tiers' /\ SteadyFetched' /\ SteadyDelivered'
    <2>1. /\ query' = q /\ got' = << >> /\ cursor' = {} /\ at' # "deliver" /\ at' # "done"
      BY <1>0, <1>1 DEF Begin, Phases, FirstStep
    <2>3. SteadyFetched'
      BY <2>1 DEF SteadyFetched
    <2>4. \A i : Delivered(i)' = {}
      BY <2>1 DEF Delivered
    <2>5. \A r : ~Reached(r)'
      BY <2>1 DEF Reached
    <2>6. SteadyDelivered'
      BY <2>1, <2>4, <2>5 DEF SteadyDelivered
    <2>7. Tiers'
      BY <2>1 DEF Tiers
    <2>. QED
      BY <2>3, <2>6, <2>7
  \* The reads and the retries leave what was delivered and what matches as it is.
  <1>2. CASE /\ UNCHANGED <<decisions, actions, touched, query, got, cursor>>
             /\ (at' = "done") = (at = "done")
             /\ at' = "deliver" => SteadyFetched'
    <2>1. /\ Up' = Up /\ \A r : (Reached(r)' <=> Reached(r)) /\ (Ahead(r)' <=> Ahead(r)) /\ (InReach(r)' <=> InReach(r))
          /\ Matching(query)' = Matching(query)
          /\ \A i : (Steady(i)' <=> Steady(i)) /\ Delivered(i)' = Delivered(i)
      BY <1>2, MatchingFrame DEF Reached, Ahead, InReach, FirstTier, Steady, Delivered, Up
    <2>2. SteadyFetched'
      BY <1>0, <1>2, <2>1 DEF SteadyFetched
    <2>3. SteadyDelivered'
      BY <1>0, <1>2, <2>1 DEF SteadyDelivered
    <2>4. Tiers'
      BY <1>0, <1>2 DEF Tiers
    <2>. QED
      BY <2>2, <2>3, <2>4
  <1>3. CASE CountMatching \/ AskAgain
    <2>1. /\ UNCHANGED <<decisions, actions, touched, query, got, cursor>>
          /\ at # "done" /\ at' # "done" /\ at' # "deliver"
      BY <1>3 DEF CountMatching, AskAgain, data, FirstStep
    <2>. QED
      BY <1>2, <2>1
  <1>4. CASE FetchPage
    <2>. DEFINE S == {r \in Matching(query) : \A c \in cursor : Past(r, c, Up)}
    <2>1. /\ at = "fetch" /\ at' = "deliver" /\ fetched' = First(S, Limit + 1, Up)
          /\ UNCHANGED <<decisions, actions, touched, query, got, cursor>>
          /\ query \in Query /\ query # None /\ Up \in BOOLEAN /\ Limit + 1 \in Nat
      <3>1. query \in Query /\ query # None
        BY <1>0, <1>4 DEF FetchPage, TypeOK, Phases
      <3>. QED
        BY <1>4, <3>1, ListingAssumption, QueryFields DEF FetchPage, data, Fetched, Up
    <2>2. /\ Matching(query) \subseteq Row /\ IsFiniteSet(Matching(query))
      BY <1>0, <2>1, MatchingRows
    <2>3. S \in SUBSET Row /\ IsFiniteSet(S)
      BY <2>2, FS_Subset
    <2>4. \A r \in Matching(query) : r \in S <=> Ahead(r)
      BY DEF Ahead
    <2>5. /\ fetched' \subseteq S
          /\ \A r \in S \ fetched' :
               Cardinality(fetched') = Limit + 1 /\ \A f \in fetched' : Before(f, r, Up)
      <3>. HIDE DEF S
      <3>. QED
        BY <2>1, <2>3, FirstAreFirst
    <2>6. Up' = Up /\ Matching(query)' = Matching(query) /\ \A r : (Reached(r)' <=> Reached(r)) /\ (Ahead(r)' <=> Ahead(r)) /\ (InReach(r)' <=> InReach(r))
      BY <2>1, MatchingFrame DEF Reached, Ahead, Up, InReach, FirstTier
    <2>7. SteadyFetched'
      <3>1. \A r \in fetched' : r \in Matching(query)'
        BY <2>5, <2>6
      <3>2. \A r \in Matching(query)' : Ahead(r)' /\ r \notin fetched' =>
              Cardinality(fetched') = Limit + 1 /\ \A f \in fetched' : Before(f, r, Up')
        <4>. HIDE DEF S
        <4>. QED
          BY <2>4, <2>5, <2>6
      <3>. QED
        BY <3>1, <3>2 DEF SteadyFetched
    <2>. QED
      BY <1>2, <2>1, <2>7
  <1>5. CASE Deliver
    <2>1. SteadyFetched'
      BY <1>5 DEF Deliver, FirstStep, SteadyFetched
    <2>. QED
      BY <1>0, <1>5, <2>1, TiersDeliver, SteadyDeliver
  <1>6. ASSUME NEW i \in Ids, Writes(i)
        PROVE  Tiers' /\ SteadyFetched' /\ SteadyDelivered'
    <2>1. UNCHANGED <<query, at, cursor, fetched, got>> /\ Up' = Up
      BY <1>0, <1>6, WriteFrame DEF Up
    <2>3. CASE query = None
      BY <1>0, <2>1, <2>3 DEF Phases, Tiers, SteadyFetched, SteadyDelivered
    <2>4. CASE query # None
      <3>1. ASSUME NEW j \in Ids, Steady(j)'
            PROVE  /\ Steady(j)
                   /\ \A r : r.id = j => (r \in Matching(query)' <=> r \in Matching(query))
        BY <1>0, <1>6, <2>4, <3>1, SteadyFrame
      <3>2. \A r : (Reached(r)' <=> Reached(r)) /\ (Ahead(r)' <=> Ahead(r)) /\ (InReach(r)' <=> InReach(r))
        BY <2>1 DEF Reached, Ahead, InReach, FirstTier
      <3>3. \A j : Delivered(j)' = Delivered(j)
        BY <2>1 DEF Delivered
      <3>4. SteadyFetched'
        BY <1>0, <2>1, <3>1, <3>2 DEF SteadyFetched
      <3>5. ASSUME NEW j \in Ids, Steady(j)'
            PROVE  /\ \A n \in Delivered(j)' : Key(got'[n]) \in Matching(query)'
                   /\ \A r \in Matching(query)' : r.id = j =>
                        IF at' = "done" THEN InReach(r)' => Delivered(j)' # {}
                                        ELSE Delivered(j)' # {} <=> Reached(r)'
        <4>1. /\ \A n \in Delivered(j) : Key(got[n]) \in Matching(query)
              /\ \A r \in Matching(query) : r.id = j =>
                   IF at = "done" THEN InReach(r) => Delivered(j) # {}
                                  ELSE Delivered(j) # {} <=> Reached(r)
          BY <1>0, <2>4, <3>1, <3>5 DEF SteadyDelivered
        <4>2. \A n \in Delivered(j) : Key(got[n]).id = j
          BY DEF Delivered, Key
        <4>3. \A n \in Delivered(j) : Key(got[n]) \in Matching(query)'
          BY <3>1, <3>5, <4>1, <4>2
        <4>. QED
          BY <2>1, <3>1, <3>2, <3>3, <3>5, <4>1, <4>3
      <3>6. SteadyDelivered'
        BY <2>1, <3>5 DEF SteadyDelivered, Key
      <3>7. Tiers'
        BY <1>0, <2>1 DEF Tiers
      <3>. QED
        BY <3>4, <3>6, <3>7
    <2>. QED
      BY <2>3, <2>4
  <1>7. CASE UNCHANGED vars
    <2>1. /\ UNCHANGED <<decisions, actions, touched, query, got, cursor, at, fetched>>
      BY <1>7 DEF vars
    <2>2. /\ Up' = Up /\ Matching(query)' = Matching(query)
          /\ \A r : (Reached(r)' <=> Reached(r)) /\ (Ahead(r)' <=> Ahead(r)) /\ (InReach(r)' <=> InReach(r))
          /\ \A i : Steady(i)' <=> Steady(i)
      BY <2>1, MatchingFrame DEF Reached, Ahead, InReach, FirstTier, Steady, Up
    <2>3. SteadyFetched'
      BY <1>0, <2>1, <2>2 DEF SteadyFetched
    <2>. QED
      BY <1>2, <2>1, <2>3
  <1>. QED
    BY <1>1, <1>3, <1>4, <1>5, <1>6, <1>7, StepsAre

LEMMA SteadyInvariant == Spec => []SteadyInv
  <1>1. Init => SteadyInv
    <2>. SUFFICES ASSUME Init PROVE SteadyInv
      OBVIOUS
    <2>1. query = None /\ at = "idle"
      BY DEF Init
    <2>. QED
      BY <2>1, ListingFirst DEF Init, SteadyInv, OrderInv, Ordered, Tiers, SteadyFetched, SteadyDelivered
  <1>2. SteadyInv /\ [Next]_vars => SteadyInv'
    BY SteadyStep
  <1>. QED
    BY <1>1, <1>2, PTL DEF Spec

\* Two deliveries of one steady row are one.
LEMMA SteadySingle ==
  ASSUME SteadyInv, ByStored, query # None, NEW i \in Ids, Steady(i),
         NEW m \in Delivered(i), NEW n \in Delivered(i)
  PROVE  m = n
  <1>1. query \in Query /\ Up \in BOOLEAN
    BY QueryFields DEF SteadyInv, OrderInv, ListingInv, TypeOK, Up
  <1>2. /\ m \in DOMAIN got /\ n \in DOMAIN got /\ m \in Nat /\ n \in Nat
        /\ got[m].id = i /\ got[n].id = i
    BY DEF Delivered, SteadyInv, OrderInv, ListingInv, TypeOK
  <1>3. Key(got[m]) \in Matching(query) /\ Key(got[n]) \in Matching(query)
    BY DEF SteadyInv, SteadyDelivered
  <1>4. /\ Key(got[m]).id = i /\ Key(got[n]).id = i
        /\ \A a, b \in Matching(query) : a.id = b.id => a = b
    BY <1>1, <1>2, MatchingRows DEF Key, SteadyInv, OrderInv, ListingInv
  <1>5. Key(got[m]) = Key(got[n])
    BY <1>3, <1>4
  <1>6. /\ ~Before(Key(got[m]), Key(got[n]), Up) /\ ~Before(Key(got[n]), Key(got[m]), Up)
    <2>1. Key(got[m]) \in Row
      BY <1>2, KeyType DEF SteadyInv, OrderInv, ListingInv
    <2>. QED
      BY <1>1, <1>5, <2>1, BeforeIsOrder
  <1>7. /\ m < n => Before(Key(got[m]), Key(got[n]), Up)
        /\ n < m => Before(Key(got[n]), Key(got[m]), Up)
    <2>1. /\ m < n => Before(got[m], got[n], Up)
          /\ n < m => Before(got[n], got[m], Up)
      BY <1>2 DEF SteadyInv, OrderInv, Ordered
    <2>. QED
      BY <2>1 DEF Before, Key
  <1>. QED
    BY <1>2, <1>6, <1>7

\* In every ordering but by cluster size, a row that nobody writes meanwhile is received
\* at most once, and in the end exactly if it matches and is in reach: in the tier that
\* the sort puts first, or in the other one if the first page already ends in it.
THEOREM SteadyOnce == Spec => [](ByStored => SteadyRowsOnce)
  <1>1. SteadyInv => (ByStored => SteadyRowsOnce)
    <2>. SUFFICES ASSUME SteadyInv, ByStored, query # None, NEW i \in Ids, Steady(i)
                  PROVE  /\ Cardinality(Delivered(i)) <= 1
                         /\ at = "done" => (Delivered(i) # {}
                                              <=> \E r \in Matching(query) : r.id = i /\ InReach(r))
      BY DEF SteadyRowsOnce
    <2>1. Cardinality(Delivered(i)) <= 1
      <3>1. CASE Delivered(i) = {}
        BY <3>1, FS_EmptySet
      <3>2. CASE Delivered(i) # {}
        <4>1. PICK n \in Delivered(i) : Delivered(i) = {n}
          BY <3>2, SteadySingle
        <4>2. Cardinality({n}) = 1
          BY FS_Singleton
        <4>. QED
          BY <4>1, <4>2
      <3>. QED
        BY <3>1, <3>2
    <2>2. /\ \A n \in Delivered(i) : Key(got[n]) \in Matching(query)
          /\ \A r \in Matching(query) : r.id = i /\ at = "done" /\ InReach(r) => Delivered(i) # {}
      BY DEF SteadyInv, SteadyDelivered
    <2>3. \A n \in Delivered(i) : Key(got[n]).id = i /\ InReach(Key(got[n]))
      BY DeliveredInReach DEF Delivered, Key, SteadyInv, OrderInv
    <2>. QED
      BY <2>1, <2>2, <2>3
  <1>. QED
    BY <1>1, SteadyInvariant, PTL

\* No ordering but by cluster size gets past its first tier: once a whole page of rows
\* has ended in it, nothing of the other tier is ever received, steady or not.  By
\* updated_at ascending, as in the bulk synchronisation, those are all the decisions
\* that were ever replaced.
OneTier ==
  query # None /\ Len(got) >= Limit /\ FirstTier(got[Limit].value) =>
    \A n \in DOMAIN got : FirstTier(got[n].value)

THEOREM TierNeverLeft == Spec => [](ByStored => OneTier)
  <1>1. SteadyInv => (ByStored => OneTier)
    <2>. SUFFICES ASSUME SteadyInv, ByStored, query # None, Len(got) >= Limit,
                         FirstTier(got[Limit].value), NEW n \in DOMAIN got
                  PROVE  FirstTier(got[n].value)
      BY DEF OneTier
    <2>1. InReach(Key(got[n]))
      BY DeliveredInReach DEF SteadyInv, OrderInv
    <2>. QED
      BY <2>1 DEF InReach, Key
  <1>. QED
    BY <1>1, SteadyInvariant, PTL

\* Without a write meanwhile the last page completes the rows in reach of a scan.
LEMMA WholeScan ==
  ASSUME SteadyInv, ByStored, at = "done", touched = {}
  PROVE  /\ query # None /\ query \in Query
         /\ \A i \in Ids : Steady(i)
         /\ \A n \in DOMAIN got : /\ got[n].id \in Ids /\ Key(got[n]) \in Matching(query)
                                  /\ InReach(Key(got[n]))
         /\ \A r \in Matching(query) : r.id \in Ids /\ (InReach(r) => Delivered(r.id) # {})
  <1>1. /\ ListingInv /\ Ordered /\ Tiers /\ SteadyDelivered /\ query # None /\ query \in Query
    BY DEF SteadyInv, OrderInv, ListingInv, TypeOK, Phases
  <1>2. \A i \in Ids : Steady(i)
    BY <1>1, QueryFields DEF Steady
  <1>3. \A n \in DOMAIN got : got[n].id \in Ids /\ n \in Delivered(got[n].id)
    BY <1>1 DEF ListingInv, TypeOK, Summaries, Delivered
  <1>4. \A r \in Matching(query) : r.id \in Ids
    BY <1>1, MatchingRows DEF ListingInv
  <1>5. \A n \in DOMAIN got : InReach(Key(got[n]))
    BY <1>1, DeliveredInReach
  <1>. QED
    BY <1>1, <1>2, <1>3, <1>4, <1>5 DEF SteadyDelivered

\* When nothing was written meanwhile, the count sent with the last page is the number
\* of rows that were received and of those that no page could reach; the bulk
\* synchronisation does not count.
THEOREM CountExact == Spec => [](ByStored => CountIsExact)
  <1>1. SteadyInv => (ByStored => CountIsExact)
    <2>. DEFINE near == {r \in Matching(query) : InReach(r)}
                far == {r \in Matching(query) : ~InReach(r)}
    <2>. SUFFICES ASSUME SteadyInv, ByStored, at = "done", touched = {}, query.of # "sync"
                  PROVE  count = Len(got) + Cardinality(far)
      BY DEF CountIsExact, SteadyInv, OrderInv, ListingInv, CountTrue, Phases
    <2>1. /\ query # None /\ query \in Query /\ count = Cardinality(Matching(query))
          /\ Len(got) \in Nat /\ DOMAIN got = 1..Len(got)
      BY DEF SteadyInv, OrderInv, ListingInv, TypeOK, Phases, CountTrue
    <2>2. /\ IsFiniteSet(Matching(query))
          /\ \A a, b \in Matching(query) : a.id = b.id => a = b
          /\ \A r \in Matching(query) : r.id \in Ids
      BY <2>1, MatchingRows DEF SteadyInv, OrderInv, ListingInv
    <2>3. /\ \A i \in Ids : Steady(i)
          /\ \A n \in DOMAIN got : got[n].id \in Ids /\ Key(got[n]) \in near
          /\ \A r \in near : Delivered(r.id) # {}
      BY WholeScan
    <2>. DEFINE f == [n \in 1..Len(got) |-> Key(got[n])]
    <2>4. f \in Injection(1..Len(got), near)
      <3>1. ASSUME NEW n \in 1..Len(got)
            PROVE  got[n].id \in Ids /\ n \in Delivered(got[n].id) /\ f[n] \in near
        BY <2>1, <2>3, <3>1 DEF Delivered
      <3>2. ASSUME NEW m \in 1..Len(got), NEW n \in 1..Len(got), f[m] = f[n]
            PROVE  m = n
        <4>1. got[m].id = got[n].id
          BY <3>2 DEF Key
        <4>2. m \in Delivered(got[n].id) /\ n \in Delivered(got[n].id) /\ got[n].id \in Ids
          BY <3>1, <4>1
        <4>. QED
          BY <2>1, <2>3, <4>2, SteadySingle
      <3>. QED
        BY <3>1, <3>2 DEF Injection, IsInjective
    <2>5. f \in Surjection(1..Len(got), near)
      <3>1. f \in [1..Len(got) -> near]
        BY <2>4 DEF Injection
      <3>2. ASSUME NEW r \in near PROVE \E n \in 1..Len(got) : f[n] = r
        <4>1. PICK n \in Delivered(r.id) : TRUE
          BY <2>3
        <4>2. n \in 1..Len(got) /\ got[n].id = r.id
          BY <2>1 DEF Delivered
        <4>3. f[n] \in near /\ f[n].id = r.id
          BY <3>1, <4>2 DEF Key
        <4>. QED
          BY <2>2, <4>2, <4>3
      <3>. QED
        BY <3>1, <3>2 DEF Surjection
    <2>6. /\ IsFiniteSet(near) /\ IsFiniteSet(far) /\ Matching(query) = near \union far
          /\ near \intersect far = {}
      BY <2>2, FS_Subset
    <2>. HIDE DEF f, near, far
    <2>7. IsFiniteSet(1..Len(got)) /\ Cardinality(1..Len(got)) = Len(got)
      <3>1. PICK k \in Nat : k = Len(got)
        BY <2>1
      <3>2. IsFiniteSet(1..k) /\ Cardinality(1..k) = k
        BY FS_Interval
      <3>. QED
        BY <3>1, <3>2
    <2>8. Cardinality(near) = Len(got)
      <3>1. \E g : g \in Bijection(1..Len(got), near)
        BY <2>4, <2>5 DEF Bijection
      <3>. QED
        BY <2>7, <3>1, FS_Bijection DEF ExistsBijection
    <2>9. Cardinality(near \union far) = Cardinality(near) + Cardinality(far)
      <3>1. /\ Cardinality(near \union far)
                 = Cardinality(near) + Cardinality(far) - Cardinality(near \intersect far)
            /\ Cardinality(near \intersect far) = 0
        BY <2>6, FS_Union, FS_EmptySet
      <3>2. Cardinality(near) \in Nat /\ Cardinality(far) \in Nat
        BY <2>6, FS_CardinalityType
      <3>. QED
        BY <3>1, <3>2
    <2>. QED
      BY <2>1, <2>6, <2>8, <2>9
  <1>. QED
    BY <1>1, SteadyInvariant, PTL

\* By a field that no document lacks: by created_at and by confidence.
ByPresent == query # None => query.by.field \in {"created", "confidence"}

\* What a test of the repository asks of the cluster-size orderings, where it does not
\* hold (PagesCoverScan), is true of the orderings by a stored field that no document
\* lacks, in both directions: without a write meanwhile the pages have exactly the rows
\* of a scan.
THEOREM ScanCovered == Spec => [](ByPresent => PagesCoverScan)
  <1>1. SteadyInv => (ByPresent => PagesCoverScan)
    <2>. SUFFICES ASSUME SteadyInv, ByPresent, at = "done", touched = {}
                  PROVE  {got[n].id : n \in DOMAIN got} = {r.id : r \in Matching(query)}
      BY DEF PagesCoverScan
    <2>1. ByStored
      BY DEF ByPresent, ByStored
    <2>2. /\ query # None /\ query \in Query
          /\ \A n \in DOMAIN got : Key(got[n]) \in Matching(query)
          /\ \A r \in Matching(query) : InReach(r) => Delivered(r.id) # {}
      BY <2>1, WholeScan
    <2>3. \A r \in Matching(query) : r.value # NoValue
      BY <2>2, MatchingRows DEF ByPresent, SteadyInv, OrderInv, ListingInv
    <2>4. Len(got) >= Limit => got[Limit].value # NoValue
      <3>1. Len(got) >= Limit => Limit \in DOMAIN got
        BY ListingAssumption DEF SteadyInv, OrderInv, ListingInv, TypeOK
      <3>. QED
        BY <2>2, <2>3, <3>1 DEF Key
    <2>5. \A r \in Matching(query) : InReach(r)
      BY <2>3, <2>4 DEF InReach, FirstTier
    <2>6. \A n \in DOMAIN got : Key(got[n]).id = got[n].id
      BY DEF Key
    <2>. QED
      BY <2>2, <2>5, <2>6 DEF Delivered
  <1>. QED
    BY <1>1, SteadyInvariant, PTL

-----------------------------------------------------------------------------
\* A client that is offered no ordering by cluster size pages by stored fields only.
KeysetOrderings == \A by \in Orderings : by.field # "size"

LEMMA OnlyStored == ASSUME KeysetOrderings PROVE Spec => []ByStored
  <1>. DEFINE I == ListingInv /\ ByStored
  <1>1. Init => I
    BY ListingFirst DEF Init, ByStored
  <1>2. I /\ [Next]_vars => I'
    <2>. SUFFICES ASSUME I, [Next]_vars PROVE ByStored'
      BY ListingStep
    <2>1. ASSUME NEW q \in Query, Begin(q), Offered(q) PROVE ByStored'
      <3>1. query' = q
        BY <2>1 DEF Begin
      <3>2. q.by.field # "size"
        BY <2>1 DEF Offered, KeysetOrderings
      <3>. QED
        BY <3>1, <3>2 DEF ByStored
    <2>2. CASE query' = query
      BY <2>2 DEF ByStored
    <2>3. ASSUME NEW i \in Ids, Writes(i) PROVE query' = query
      BY <2>3, WriteFrame DEF ListingInv
    <2>. QED
      BY <2>1, <2>2, <2>3, StepsAre DEF CountMatching, FetchPage, Deliver, AskAgain, vars
  <1>. QED
    BY <1>1, <1>2, PTL DEF Spec

\* What the listing run checks, for every choice of orderings of that kind.
THEOREM KeysetListings ==
  ASSUME KeysetOrderings
  PROVE  Spec => [](DeliveredInOrder /\ SteadyRowsOnce /\ CountIsExact)
  BY OnlyStored, InOrder, SteadyOnce, CountExact, PTL
================================================================================
