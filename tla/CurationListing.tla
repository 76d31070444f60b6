---------------------------- MODULE CurationListing ----------------------------
(***************************************************************************)
(* A client that pages through the decisions (the curation listing, or the *)
(* unfiltered bulk synchronisation of the decision store) or through the   *)
(* audit log of user actions, while decisions are made, replaced and       *)
(* reviewed and user actions come and go.                                  *)
(*                                                                         *)
(* A page is several awaited reads: the count of all matching documents,   *)
(* the page, and for decisions the review metadata of the page's rows.     *)
(***************************************************************************)
EXTENDS KeysetPages, Sequences

CONSTANTS
  Ids,          \* ids of decisions and of user actions, in their sort order
  Clusters, Times, Confidences,
  Orderings,    \* orderings of decisions: [field, ascending]
  Filters,      \* filters of decisions
  ActionFilters,\* filters of user actions
  Initial,      \* the decisions and user actions there are when the client begins
  Limit,        \* rows of a page
  MaxChanges,   \* bound: writes while the client reads
  MaxRetries,   \* bound: pages whose response is lost
  None

ASSUME ListingAssumption ==
  /\ Ids \subseteq Nat /\ Times \subseteq Nat \ {0} /\ Confidences \subseteq Nat
  /\ Limit \in Nat \ {0} /\ MaxChanges \in Nat /\ MaxRetries \in Nat

Fields == {"created", "updated", "confidence", "size"}

\* updated 0: never replaced, the document has no updated_at.
Decision == [created: Times, updated: Times \union {0}, confidence: Confidences,
             cluster: Clusters, reviews: Nat, reviewed: BOOLEAN]
UserAction == [created: Times, about: Ids]

\* ever, since: ever_reviewed, reviewed_since_placement; mentions: the decisions
\* whose mention the search finds.
DecisionFilter == [ever: BOOLEAN \union {None}, since: BOOLEAN \union {None},
                   minimum: Nat, mentions: SUBSET Ids]
\* decision: decision_id; from: time_range_start.
ActionFilter == [decision: Ids \union {None}, from: Nat]

ASSUME QueriesAssumption ==
  /\ Orderings \subseteq [field: Fields, ascending: BOOLEAN]
  /\ Filters \subseteq DecisionFilter /\ ActionFilters \subseteq ActionFilter

\* sync: the unfiltered traversal of the decision store.
Query == [of: {"decisions", "sync"}, by: [field: Fields, ascending: BOOLEAN], filter: DecisionFilter]
   \union [of: {"actions"}, by: [field: {"created"}, ascending: BOOLEAN], filter: ActionFilter]

\* Both collections hold finitely many documents.
ASSUME InitialAssumption ==
  \A start \in Initial :
    /\ start.decisions \in [Ids -> Decision \union {None}]
    /\ start.actions \in [Ids -> UserAction \union {None}]
    /\ IsFiniteSet({i \in Ids : start.decisions[i] # None})
    /\ IsFiniteSet({i \in Ids : start.actions[i] # None})
ASSUME NoneAssumption == None \notin Query \union Decision

\* What the client receives of a row.
Summaries == [id: Ids, value: Nat \union {NoValue}]
       \union [id: Ids, value: Nat \union {NoValue},
               review: [reviewed: BOOLEAN, reviews: Nat]]

VARIABLES
  decisions,  \* decisions[i]: the decision with id i, or None
  actions,    \* actions[i]: the user action with id i, or None
  query,      \* what the client traverses, or None
  at,         \* the step of the page in progress
  cursor,     \* the cursor the client holds: {} or one row
  count,      \* the count read for this page
  fetched,    \* the rows read for this page
  got,        \* what the client has received, in order
  touched,    \* history: rows written since the client began
  changes, retries

vars == <<decisions, actions, query, at, cursor, count, fetched, got, touched, changes, retries>>
data == <<decisions, actions, touched, changes>>

-----------------------------------------------------------------------------
\* cluster_sizes, which follows the decisions (DecisionStore).
Size(c) == Cardinality({i \in Ids : decisions[i] # None /\ decisions[i].cluster = c})

SortValue(i, field) ==
  CASE field = "created" -> decisions[i].created
    [] field = "updated" -> IF decisions[i].updated = 0 THEN NoValue ELSE decisions[i].updated
    [] field = "confidence" -> decisions[i].confidence
    [] field = "size" -> Size(decisions[i].cluster)

\* _build_query, then _augment_query_with_curation_filters.
MatchesPlacement(i, f) ==
  /\ decisions[i] # None
  /\ i \in f.mentions
  /\ decisions[i].confidence >= f.minimum
Matches(i, f) ==
  /\ MatchesPlacement(i, f)
  /\ f.ever # None => (decisions[i].reviews > 0) = f.ever
  /\ f.since # None => decisions[i].reviewed = f.since

\* _resolve_decision_filter: a decision that does not exist filters nothing out.
\* A decision is about one mention, so actions about the mention are the decision's.
ActionMatches(i, f) ==
  /\ actions[i] # None
  /\ f.decision # None /\ decisions[f.decision] # None => actions[i].about = f.decision
  /\ actions[i].created >= f.from

Matching(q) ==
  IF q.of # "actions"
  THEN {[id |-> i, value |-> SortValue(i, q.by.field)] : i \in {j \in Ids : Matches(j, q.filter)}}
  ELSE {[id |-> i, value |-> actions[i].created] : i \in {j \in Ids : ActionMatches(j, q.filter)}}

Up == query.by.ascending

\* The rows of a page in the order in which they are delivered.
Sorted(rows) == [n \in 1..Cardinality(rows) |-> Nth(rows, n, Up)]

Init ==
  /\ \E start \in Initial : decisions = start.decisions /\ actions = start.actions
  /\ query = None
  /\ at = "idle"
  /\ cursor = {}
  /\ count = 0
  /\ fetched = {}
  /\ got = << >>
  /\ touched = {}
  /\ changes = 0
  /\ retries = 0

-----------------------------------------------------------------------------
\* A page of the unfiltered traversal is not counted.
FirstStep(q) == IF q.of = "sync" THEN "fetch" ELSE "count"

Begin(q) ==
  /\ at = "idle"
  /\ query' = q
  /\ at' = FirstStep(q)
  /\ UNCHANGED <<data, cursor, count, fetched, got, retries>>

ListDecisions(by, f) == Begin([of |-> "decisions", by |-> by, filter |-> f])
\* query_decisions_paginated.
TraverseDecisions ==
  Begin([of |-> "sync", by |-> [field |-> "updated", ascending |-> TRUE],
         filter |-> [ever |-> None, since |-> None, minimum |-> 0, mentions |-> Ids]])
ListUserActions(ascending, f) ==
  Begin([of |-> "actions", by |-> [field |-> "created", ascending |-> ascending], filter |-> f])

\* count_documents of everything that matches, wherever the cursor is.
\* Mutant: counted with the condition of the cursor.
CountPast ==
  /\ at = "count"
  /\ count' = Cardinality({r \in Matching(query) : \A c \in cursor : Past(r, c, Up)})
  /\ at' = "fetch"
  /\ UNCHANGED <<data, query, cursor, fetched, got, retries>>
CountMatching ==
  /\ at = "count"
  /\ count' = Cardinality(Matching(query))
  /\ at' = "fetch"
  /\ UNCHANGED <<data, query, cursor, fetched, got, retries>>

FetchPage ==
  /\ at = "fetch"
  /\ fetched' = Fetched(Matching(query), cursor, Limit, Up)
  /\ at' = "deliver"
  /\ UNCHANGED <<data, query, cursor, count, got, retries>>

\* find_review_metadata of the page's decisions, read after the page was.
ReviewMetadata(i) == [reviewed |-> decisions[i].reviewed, reviews |-> decisions[i].reviews]

\* The mentions and the actors are read as well; then the response.
Summary(r) ==
  IF query.of = "decisions"
  THEN [id |-> r.id, value |-> r.value, review |-> ReviewMetadata(r.id)]
  ELSE [id |-> r.id, value |-> r.value]

AfterPage(rows) ==
  IF query.by.field = "size" THEN NextCursorBySize(rows, Limit, Up) ELSE NextCursor(rows, Limit, Up)

Deliver ==
  LET page == Sorted(PageOf(fetched, Limit, Up))
  IN /\ at = "deliver"
     /\ got' = got \o [n \in DOMAIN page |-> Summary(page[n])]
     /\ cursor' = AfterPage(fetched)
     /\ at' = IF AfterPage(fetched) = {} THEN "done" ELSE FirstStep(query)
     /\ fetched' = {}
     /\ UNCHANGED <<data, query, count, retries>>

\* A read fails or the response is lost: the client asks for the same page again.
AskAgain ==
  /\ at \in {"fetch", "deliver"}
  /\ retries < MaxRetries
  /\ at' = FirstStep(query)
  /\ fetched' = {}
  /\ retries' = retries + 1
  /\ UNCHANGED <<data, query, cursor, count, got>>

-----------------------------------------------------------------------------
Write(i) ==
  /\ changes < MaxChanges
  /\ changes' = changes + 1
  /\ touched' = IF at \in {"idle", "done"} THEN touched ELSE touched \union {i}
  /\ at # "done"
  /\ UNCHANGED <<query, at, cursor, count, fetched, got, retries>>

\* Decisions are created, replaced by an outcome with a later boundary, reviewed.
CreateDecision(i, c, confidence, t) ==
  /\ decisions[i] = None
  /\ decisions' = [decisions EXCEPT ![i] =
       [created |-> t, updated |-> 0, confidence |-> confidence, cluster |-> c,
        reviews |-> 0, reviewed |-> FALSE]]
  /\ Write(i)
  /\ UNCHANGED actions

ReplaceDecision(i, c, confidence, t) ==
  /\ decisions[i] # None
  /\ decisions[i].updated < t /\ decisions[i].created < t
  /\ decisions' = [decisions EXCEPT ![i].cluster = c, ![i].confidence = confidence,
                                    ![i].updated = t, ![i].reviewed = FALSE]
  /\ Write(i)
  /\ UNCHANGED actions

\* Mutant: the counter goes down, as if a review were taken back.
ReviewTakenBack(i) ==
  /\ decisions[i] # None
  /\ ~decisions[i].reviewed
  /\ decisions' = [decisions EXCEPT ![i].reviewed = TRUE, ![i].reviews = @ - 1]
  /\ Write(i)
  /\ UNCHANGED actions
ReviewDecision(i) ==
  /\ decisions[i] # None
  /\ ~decisions[i].reviewed
  /\ decisions' = [decisions EXCEPT ![i].reviewed = TRUE, ![i].reviews = @ + 1]
  /\ Write(i)
  /\ UNCHANGED actions

\* User actions are saved, and deleted when their claim is lost.
SaveAction(i, k, t) ==
  /\ actions[i] = None
  /\ decisions[k] # None
  /\ actions' = [actions EXCEPT ![i] = [created |-> t, about |-> k]]
  /\ Write(i)
  /\ UNCHANGED decisions

DeleteAction(i) ==
  /\ actions[i] # None
  /\ actions' = [actions EXCEPT ![i] = None]
  /\ Write(i)
  /\ UNCHANGED decisions

-----------------------------------------------------------------------------
ClientStep ==
  \/ CountMatching
  \/ FetchPage
  \/ Deliver

Next ==
  \/ \E by \in Orderings, f \in Filters : ListDecisions(by, f)
  \/ TraverseDecisions
  \/ \E ascending \in BOOLEAN, f \in ActionFilters : ListUserActions(ascending, f)
  \/ ClientStep
  \/ AskAgain
  \/ \E i \in Ids, c \in Clusters, confidence \in Confidences, t \in Times :
       \/ CreateDecision(i, c, confidence, t)
       \/ ReplaceDecision(i, c, confidence, t)
  \/ \E i \in Ids : ReviewDecision(i)
  \/ \E i, k \in Ids, t \in Times : SaveAction(i, k, t)
  \/ \E i \in Ids : DeleteAction(i)

Spec == Init /\ [][Next]_vars

-----------------------------------------------------------------------------
Delivered(i) == {n \in DOMAIN got : got[n].id = i}

\* Nothing that decides whether and where the row is listed has been written
\* since the client began.
Steady(i) == i \notin touched /\ (query.of = "actions" => query.filter.decision \notin touched)

TypeOK ==
  /\ decisions \in [Ids -> Decision \union {None}]
  /\ actions \in [Ids -> UserAction \union {None}]
  /\ query \in Query \union {None}
  /\ at \in {"idle", "count", "fetch", "deliver", "done"}
  /\ cursor \subseteq Row /\ Cardinality(cursor) <= 1
  /\ fetched \subseteq Row /\ count \in Nat
  /\ got \in Seq(Summaries)
  /\ touched \subseteq Ids
  /\ changes \in Nat /\ retries \in Nat

\* Rows without a value and rows with one are two tiers of the sort, and no cursor
\* leads from one to the other (Past): the second tier is in reach only if the
\* first page already ends in it.  Only updated_at is ever missing.
FirstTier(v) == (v = NoValue) <=> Up
InReach(r) == Len(got) >= Limit /\ FirstTier(got[Limit].value) => FirstTier(r.value)

\* A row that nobody writes while the client pages is delivered at most once,
\* and has been delivered by the last page if and only if it matches and is in
\* reach, whatever is created, replaced, reviewed or deleted around it.
SteadyRowsOnce ==
  query # None => \A i \in Ids : Steady(i) =>
    /\ Cardinality(Delivered(i)) <= 1
    /\ at = "done" => (Delivered(i) # {} <=> \E r \in Matching(query) : r.id = i /\ InReach(r))

\* Across pages, lost responses and concurrent writes the positions delivered
\* only advance: the client never sees the same state of a row twice.
DeliveredInOrder ==
  \A m, n \in DOMAIN got : m < n => Before(got[m], got[n], Up)

\* If nothing was written meanwhile, the count of the last page is the number of
\* rows delivered and of those that were out of reach.
CountIsExact ==
  at = "done" /\ touched = {} =>
    count = IF query.of = "sync" THEN 0
            ELSE Len(got) + Cardinality({r \in Matching(query) : ~InReach(r)})

\* A test of the repository says it of the cluster-size orderings: paginating
\* must return the same set as an unpaged scan.
PagesCoverScan ==
  at = "done" /\ touched = {} =>
    {got[n].id : n \in DOMAIN got} = {r.id : r \in Matching(query)}
=============================================================================
