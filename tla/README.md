# Entity Resolution Service in TLA+

A model of the Entity Resolution Service (ERS, `src/src/ers`): how a mention is
parsed and registered, how requests, integrators and the decision store turn the
answers of the Entity Resolution Engine (ERE) into decisions while responses come
late, twice or never, how source systems and curators page through the
decisions, how curators review them, and how the accounts behind the curation API
change. The modules are checked with TLC on small instances; every type invariant
and every safety property of the passing runs is proved with TLAPS for every
instance (of the listings, for every choice of orderings by a stored field, that is without cluster size).

1. Inventory of the system
2. Modules
3. Runs
4. Fairness
5. Proofs
6. Not modelled, and plan

## 1. Inventory of the system

An ERS deployment is a number of identical instances: a FastAPI process whose
event loop runs HTTP handlers, one outcome integration worker and one
notification subscriber worker. The curation API is a second application over the
same database. The instances share MongoDB and Redis and nothing else. The ERE
is a separate system that reads requests from a Redis list and writes responses to
another. There are no MongoDB transactions and no locks across awaits, so the unit
of atomicity is one database or Redis command: an action of the models is one
awaited operation with the code up to the next await.

| Component | State | Operations | Modelled in |
|---|---|---|---|
| rdf_mention_parser | the mapping configuration | validate, parse, query, merge the rows | MentionParser |
| request_registry | resolution requests, snapshots of sources | register once by content hash, look up, advance a snapshot | RequestRegistry, SourceRefresh |
| resolution_coordinator | the waiter's weak dictionary of asyncio events; the local variables of requests | `resolve_single`, `resolve_bulk`, bulk refresh; Pub/Sub subscriber | AsyncResolutionWaiter, ResolutionCoordinator, RequestRegistry, SourceRefresh |
| ere_result_integrator | the response a worker has popped | pull, validate, check the registry, store, ring | OutcomeIntegration |
| ere_contract_client | Redis request and response lists, Pub/Sub channel | publish a request, pull a response, publish a notification | a step of the above and of DecisionCuration |
| resolution_decision_store | `decisions`, `cluster_sizes` | `store_decision`, `record_review`, listing, delta | DecisionRegister, DecisionStore, ClusterSizeMaintenance, KeysetPages, CurationListing, SourceRefresh |
| curation | `user_actions` | accept, reject, assign, their bulk forms; compensation, re-evaluation; listings | DecisionCuration, CurationListing |
| users | `users` | seed, register, create, change; last-administrator guard | UserAdministration |
| ers_rest_api | start-up of the workers, the outcome-stored callback | look-up, bulk look-up, resolve, refresh | OutcomeIntegration, RequestRegistry, SourceRefresh |
| commons | none of its own | repositories, cursor pagination, hashing, settings, tracing | KeysetPages; where used |
| scripts | none of their own | two backfills, a verification, a seed | ClusterSizeMaintenance, DecisionCuration |

How they interact. A request is parsed and registered, the store is read, the
mention is published and the coroutine waits for the event of its mention. The
integrator of *some* instance pops the response, checks the registry, calls
`store_decision`, and then rings: its own waiter, if the mention has an event
there, otherwise a Redis notification to all subscribed instances. A request
that wakes, or whose budget elapses, reads the store; if there is still nothing
it stores the provisional singleton decision itself. So integrators and
coordinators are concurrent writers of the same document, with timestamps from
two clocks: the ERE's (time of its decision) and ERS's own. Curators write the
review fields of the same documents, between any two of those writes, and ask the
ERE to evaluate mentions again.

What is hard, and what makes each part correct:

* *decision store*: several awaits between the read and the write; outcomes out
  of order, repeated, with equal timestamps; a race of two first inserts; a size
  index written after the decision, with the cluster of a decision read before.
  Correct when every call behaves as if it took effect at one instant, the
  placement boundary never recedes, an acknowledged write is never undone, and
  cluster sizes count decisions whenever nothing has spoilt them.
* *coordinator and integrator*: an answer may arrive at any instance, at any
  time before or after the timeout; the doorbell may be lost; a bulk timeout
  cancels requests in the middle of a write; a crash loses what was popped.
  Correct when every request that begins is answered, a client is only told what
  the store held during the request, no doorbell rings without a decision behind it, only
  registered mentions have decisions, and ERE outcomes end up in the decisions.
* *registry and parser*: a mention is registered by a look-up and a later insert;
  concurrent first registrations bring different contents; a repeated request is
  compared by the hash of its content only; the rows of the query come in any
  order. Correct when the first record stays, represents the content on record,
  and what is published or looked up agrees with it.
* *refresh of a source*: every page reads the snapshot anew, the last one moves it;
  decisions are replaced, mentions registered and pages lost in between. Correct
  when a refresh delivers all of the delta it began with and snapshots do not recede.
* *curation*: an insert, two conditional updates and a compensation around a
  placement that changes; bulk items share a semaphore. Correct when the audit
  log, the review fields, what curators are told and what the ERE is asked agree.
* *listings*: the cursor is a position among rows that move, and a range condition
  on a field that some rows lack. Correct when rows that nobody touches are
  delivered once, in order, and counted exactly.
* *users*: count-then-write guard, read-then-replace of whole documents, look up
  then insert. Correct when an active administrator remains, addresses are
  unique and a change alters what was asked.

`PROJECT.json` lists the single places where these bite ("hazards"), each with
the properties that watch it.

## 2. Modules

Store and coordination:

* **DecisionRegister** - the abstract specification. A decision per mention
  or `None`; a call is invoked, takes effect atomically (`Create`, `Replace`,
  `RejectStale`, `KeepSame`, `LoseInsertRace`) or fails, and returns. Reviews are
  two more actions since a new placement resets the review state. The weak
  places of the code's promise are spelt out here: `LoseInsertRace` lets a call
  that found no decision at its start be answered with another writer's
  decision, whatever the timestamps.
* **DecisionStore** - `DecisionStoreService.store_decision` over
  `MongoDecisionRepository` and `MongoClusterSizeIndex`, one action per awaited
  database operation. `op[w]` holds the local variables of a call: the step, the
  cluster read (`from`), the writes of the unordered `bulk_write` that the server
  has not yet applied (`todo`), the answer. `documents`, `rows`, `sizes` are the two
  collections. `Fail` raises from any operation and leaves earlier writes in
  place. `Fresh` is the R2 filter of the update, `Insert` / `InsertMeetsDocument` /
  `InsertDuplicateKey` the three outcomes of the upsert with `$setOnInsert`.
* **ClusterSizeMaintenance** - DecisionStore with `backfill_cluster_sizes.py` (aggregate,
  upserts in any order, deletion of stale rows, death half-way) and what
  `verify_cluster_sizes.py` finds. Overlapping and failing calls let the sizes
  drift; `exact` remembers whether anything has since they were last right.
* **AsyncResolutionWaiter** - operators over the references to events. The
  dictionary is weak, so an entry exists exactly while a request holds its event
  or the shielded `event.wait()` of a timed-out request still refers to it
  (`lingering`, until `Collect`).
* **OutcomeIntegration** - integrator, doorbell and subscriber of every instance,
  over the register and the waiter. A response is *popped* (`Pull`) before
  anything is done about it. The worker task ends on a Redis error
  that is no `ConnectionError`.
* **ResolutionCoordinator** - `resolve_single` with a step per await, the timeout of
  `resolve_bulk`, crashes, and the environment (ERE, clock). It uses
  DecisionRegister, not DecisionStore: the proved refinement justifies the
  replacement, so the two instances can interleave with atomic stores. `held` is a
  history variable: what the store has held for the mention since the request began.

Mentions and sources:

* **MentionParser** - pure operators. A content is known by its size, the types it
  can be read as, the classes of its entities and the values at the end of each
  field's path. `Rows` is what the SPARQL query yields (an `OPTIONAL` per field:
  every combination of values), `Orders` every order of them, `Merged` the first
  value of each field, `Refusal` the checks in their order. `Extractions` says
  the same without rows and is the reference definition.
* **RequestRegistry** - `register_resolution_request` (look up, parse, insert; the
  duplicate that `resolve_single` passes over), what follows as far as it
  concerns the mention (replay or publish), and the look-ups, whose single form reads
  the decision first and whose bulk form the contexts first.
* **SourceRefresh** - `get_lookup_state`, the delta query, `advance_snapshot` and the
  reply, a step each; registrations and stores in between. `source_has_requests` and
  the read of the snapshot are one step, since a source with requests keeps them.
* **KeysetPages** - the sort, the range condition of a cursor, the row fetched in
  addition, the next cursor; and the cursor of the cluster-size orderings.
  MongoDB sorts a missing field first. Its range operators compare with values of
  their operand's type, so no range condition matches a missing field, and
  `$gt: null` matches nothing at all: `Past` never leads from the rows without a value
  to those with one, against the comment beside the code.
* **CurationListing** - a client that pages through decisions (filters, orderings,
  reviews added afterwards) or user actions, or traverses all decisions, with
  writes between the reads of a page and lost responses. The unfiltered
  traversal does not count, so its count is 0.

Curation API:

* **DecisionCuration** - one item per decision under review with a step per await:
  find, save the action, the two updates of `record_review`, the compensation,
  the re-evaluation. A bulk request is several items under a semaphore.
  `backfill_previous_review_count.py` runs while nobody curates. Placements are those of
  DecisionRegister and change between any two steps. The look-up of the mention
  belongs to the publication, which nobody else reads in between.
* **UserAdministration** - the requests that change accounts, with the read, the
  guard, the count and the save apart; seeds of several instances; the account
  of the caller checked when the request begins. Tokens are signed and the service
  keeps none of them, so any account may call.

**MC...** modules define the small instances. **...Proofs** modules hold the
theorems. Definitions with a comment beginning "Mutant" are plausible bugs
kept next to the definition they alter; nothing uses them, and they show that a
property can fail. Variables marked "history" are read by properties only.

Abstractions. A mention, an outcome and a cluster are model values; the decision
id is the mention itself. A content stands for its SHA-256 hash. The wall clocks
are one counter in the coordinator and the refresh (`now`; an ERE response carries
its own time) and free timestamps in the store and the curation. Timestamps
are positive so that 0 can stand for an absent `updated_at`. The response list is
a set because nothing orders what the ERE answers, and a doorbell inbox is a set
because a second notification for a key changes nothing. A duplicate of a response
is a second `EREResponds` of the same response.

## 3. Runs

Passing runs:

| Run | Question | Instance | Distinct states |
|---|---|---|---|
| store_races | Does a call take effect at one of its database operations, are boundaries monotone, acknowledged writes lasting? | 1 decision, 2 writers, 3 calls, times 1..3, 1 review | 162 k |
| store_sizes | Are cluster sizes the numbers of decisions while nothing spoils them, and right again after a backfill? | 2 decisions, 2 writers, 3 calls, 2 clusters with rows | 1.7 M |
| coordinator_peers | Doorbells, answers told, registration, with two instances and one failure or crash anywhere | 1 mention, 2 requests on 2 instances of which one answers at once, times 1..2, 1 response | 585 k |
| coordinator_live | Is a begun request answered, and a response integrated? | 1 mention, 1 request of a bulk, 2 instances, times 1..2, 1 response, 2 failures or crashes | 108 k |
| request_registry | Is what is on record, published and looked up the same mention, when it is parsed and registered twice at once? | 1 mention, 4 contents (several values, a missing one, two entities, none), 3 content types, 2 clients, 1 look-up | 415 k |
| source_refresh | Does a refresh deliver its delta, do snapshots advance? | 2 mentions, 2 clients, pages of 1, times 1..3, 1 failure or lost response | 1.3 M |
| curation | Do audit log, review fields, replies and re-evaluations agree; is every request answered? | 2 ids of which 1 exists, 2 curators (single and bulk), 2 requests, 2 placements, 1 failure or crash | 307 k |
| curation_listing | Which untouched rows are delivered, once and in order, and what is counted? | 4 ids, pages of 1, 2 writes, 1 lost response, filters on every field | 1.3 M |
| accounts | Addresses, the last administrator, changes as asked | 3 accounts, 2 addresses, 2 clients, 4 requests | 100 k |

Violated runs, each a disagreement of the code with its own documents or tests
(`PROJECT.json`, "findings"):

| Run | What the documents say | What the code does |
|---|---|---|
| override | the ERE determines canonical identity, ERS never overrides it | a draft issued with the current time after the last read replaces an outcome of the ERE that came in between |
| listing_scan | paging by cluster size returns the set of an unpaged scan | the cursor joins the id of one row and the size of the next: rows are skipped (never repeated, `InOrder`) |
| listing_scan, second trace | `$gt: null` matches every document whose field is non-null | it matches none: by `updated_at` ascending, as in the bulk synchronisation, a traversal whose first page ends among the decisions never replaced does not deliver the replaced ones |
| missed_delta | all decisions changed since the last snapshot are retrieved | the snapshot moves to the current time, after the query; an outcome with an earlier ERE timestamp that is stored later is in no delta |

`listing_scan` violates one property for two reasons. TLC stops at the first, by cluster
size; `tlc -continue` prints both, and `SizeCursorSkips` and `TierNeverLeft` prove each
in general. Only the second depends on the database: MongoDB's comparison operators bracket
types, and so do the engines with its protocol.

Why the bounds are enough.

* *store* (`MaxCalls`, `MaxReviews`, `MaxCandidates`): a decision is only related to the calls for its
  own key, so one key with two writers shows every pair of steps; a third call
  starts after one of the first two has returned, which is what it takes for an
  older outcome to follow a newer one; three times let a call be earlier than,
  between and later than two others; the candidate list is longer than the cap, so
  truncation happens. Sizes relate different keys in one cluster: two keys and two
  clusters let a cluster be emptied and filled while another call moves a decision,
  before, during and after the script.
* *coordinator* (`MaxTime`, `MaxResponses`, `MaxFaults`): two requests on two instances suffice
  for a doorbell that rings at the wrong instance, a draft of one request that
  meets the draft or the wait of the other, and an outcome that arrives
  in between; one fault is a failure or crash at any step. For a response to be
  integrated after a draft, to lose the race of the inserts, or to be popped by the other
  instance one request suffices; it needs two times, the draft's and the ERE's.
* *registry* (`MaxSubmissions`, `MaxBytes`): records of different mentions do not meet. Two clients
  overlap in every way; the third submission is a repeated request after both. The
  contents are chosen so that every refusal is met except those for the size, for an unknown
  type of entity and for a graph without such an entity, and a merge has a choice between rows.
* *refresh* (`MaxFaults`, `Limit`): pages of one row make two mentions two pages; three times are before,
  at and after a snapshot.
* *curation* (`MaxRequests`, `MaxChanges`, `MaxFaults`, `BulkConcurrency`): one decision that two curators review while its
  placement changes twice; the bulk also asks for one that does not exist and has
  one place in its semaphore, so an item that keeps it would starve the other.
* *listing* (`MaxChanges`, `MaxRetries`, `Limit`): pages of one row make every row a boundary; two writes move a row
  across a cursor and back, or two rows past each other. By `updated_at` the first page ends
  in either tier. For `listing_scan`, five rows in two clusters, since two of equal size must straddle
  a page, or eight of which one was replaced.
* *accounts* (`MaxUserRequests`): two changes that overlap after two accounts are there, with the seed.

In every configuration the system may stop (a bounded number of calls, of
requests), so deadlock is not checked; where waiting for ever is the hazard a liveness
property says that it does not happen. Symmetry is used for interchangeable
writers, clients and submitters, and never with a liveness property.

Properties with a condition name what the code does not promise and why: `exact` and
`clean` (sizes, counters) end with the first overlap or failure and begin again
with the backfill; `undisturbed` (refresh) ends when another refresh of the source
overlaps or the response to a last page is lost; `raced` (accounts) when two changes
overlap, since both administrators who deactivate each other pass the guard;
`lostInserts` (registry) when two first registrations overlap. Those properties do not catch the
overlap itself, whose outcome is the code's behaviour; the hazards in `PROJECT.json` say so.

`ToldWasStored` compares what a client is told with `held`, the outcomes that were in the store at
some instant of its request: neither a proposal that lost, nor a decision replaced before the
request began. `OutcomeIsIntegrated` asks that the decision becomes the
response's outcome, or has a boundary at least as late; a draft does not satisfy it. It exempts one
case besides failures, `LostInsertRace`. Without this disjunct TLC refutes it on the instance of
`coordinator_live`, with no failure: the request times out and finds nothing; the ERE responds with the later
time; the integrator calls `store_decision` before there is a decision; the draft is inserted
first; the integrator's insert meets it and is answered with it. The draft stays. The docstring of the
repository's upsert says that insert races surface as StaleOutcomeError; whether as that error or as the
winner's document, the later outcome is dropped.

`SteadyRowsOnce` says exactly which rows arrive: the matching ones that are `InReach`, in the tier that
the sort puts first, or in the other if the first page ends in it. `CountIsExact` says what the count
then exceeds the rows by.

## 4. Fairness

`Progress` (coordinator) is weak fairness per process: of a request's next step
and of the database call it has issued, and of an integrator's. The code
justifies it: asyncio runs what is ready, `asyncio.wait_for` bounds the wait for the
doorbell so that `TimeOut` is always enabled in it, and a driver call returns or
raises. Not fair: the ERE, the clock, doorbell delivery, resubscription, garbage
collection, failures, the bulk timeout, and the arrival of requests. So
`BegunIsAnswered` holds although no response and no doorbell need ever come; and
`OutcomeIsIntegrated` is claimed only until something fails, since a popped response
whose store fails is gone.

`CurationProgress` is weak fairness per curator of "some item goes on, or the reply
is sent". Items of one request are tasks of one event loop; nothing is promised of a
single item, of other writers or of the arrival of requests. `AskedIsAnswered` then
says that the semaphore of a bulk never blocks it.

## 5. Proofs

About 8100 obligations in eight modules. Every theorem holds for arbitrary sets of mentions, requests, instances,
curators, accounts and timestamps. Assumptions, all named in the module that declares
the constants and evaluated by TLC: timestamps are positive naturals, every
reference has a cluster, page limits are positive, what is submitted is well
formed, `None` is none of the values it stands in for, bounds are naturals, and a
client of the listings begins with typed, finitely many documents.
Finite sets are assumed where the code enumerates (the mentions of a refresh, the
nodes, fields and values of a graph); keys, clusters, writers and ids may be infinite, and
the proofs show that finitely many of them are ever in use.

* **DecisionStoreProofs**. `TypeCorrect` is inductive as it stands. `Consistent` is the inductive
  invariant: a call that has read nothing was invoked before there was a decision,
  a call about to update has a decision to update, and a call is answered exactly when
  its decisive operation has happened. It is needed because a read and the write
  that relies on it are different steps. `Refinement`: reads and index writes stutter;
  `Insert`, `Update`, the stale and equal answers and the two losing inserts map to
  the atomic actions. `Forwards` and `Lasting` follow from one lemma about steps.
  `SizesCount` and `Verified` are about ClusterSizeMaintenance. A size plus the increments and
  less the decrements still to be applied is the number of decisions (`SizesFollow`), which is inductive only together with: calls in progress have keys of
  their own (`KeysApart`), so that what a call has read of its decision is still true
  (`CallCurrent`); a script in a window without calls has the true counts, and what it has
  written agrees with them (`WindowTrue`); a row is there for a decision or for
  one that is just leaving (`RowsEarned`), so that no row of an empty cluster stays behind.
  All but `WindowTrue` are conditions on `exact`. Each step moves one decision, and the
  lemma `OneMoves` says what that does to two cardinalities.
* **ResolutionCoordinatorProofs**. `CoordinatorInv` adds to the four properties of
  `coordinator_peers`: the history of a request in progress has the present outcome
  and the one that its own call was granted (`HeldUpToNow`); an
  answered call has met a decision (`CallsMetDecisions`); a
  call is of its owner's mention, which is registered (`CallsAreOwned`); a request past its
  registration is for a registered mention; an integrator at work holds a response. A step
  of the store only keeps or replaces decisions (`EffectKeeps`), so what a caller, a doorbell or a
  client has been told stays true; the other steps do not touch decisions.
* **RequestRegistryProofs**. `ParserSound` is about the parser alone: in whatever order
  the finitely many rows come, the merge is one of the reference definition's
  extractions. A field with a value has it in every row, so the first row suffices; a field with none
  stays None. `ParserComplete` is the converse: every extraction is the merge of the rows in some
  order (the row with all the wanted values listed first, `ListedFrom`), so the reference definition is exact
  and the order of the SPARQL results really decides.
  `RegistryInv` adds `RequestsMatchRecords`: a request past the comparison brings the content on
  record, one about to be inserted has been parsed, a decided mention is on record.
  `OthersKept` shows once that adding records disturbs no other request; the rest
  is what each step does to its own. `RecordsStay` needs that both inserts (the
  acknowledged one and the one that only seems to fail) meet no record.
* **DecisionCurationProofs**. `CurationInv`: items hold their own user action while they
  are unsettled, no two hold the same one (`ItemsDiffer`), the log is finite and numbered, what was
  published is backed by an action that no compensation will delete, a reviewed decision has a
  settled action later than its placement, and the counter is at most, without failures exactly, the number of
  settled actions. The last is a count of a set that changes at the claim, at
  the count and at neither save nor compensation.
* **SourceRefreshProofs**. `RefreshDelivers` rests on: an undisturbed refresh is alone with its
  source (`Alone`), and whatever was due is delivered, on the page in hand, or still past
  the cursor with a value at least as large (`LoneRefresh`), since replacements only move
  rows forwards.
* **KeysetPagesProofs**. `PastIsAfter`: the cursor condition selects what the sort puts
  after the cursor in the cursor's own tier, the rows with a value or those without; in neither
  direction does it lead from one to the other. `PageThenRest`: page and rest are a partition, by positions in
  a finite total order. `FirstAreFirst` says the same of the page as the first rows of the
  sort. `SizeCursorSkips` is the reason for the violated run `listing_scan`: the cursor by
  cluster size repeats nothing, and skips exactly the rows with the size of the row that was
  fetched in addition whose id does not come after the cursor's.
* **CurationListingProofs**. `ListingInv` is the typing with what is fetched and when
  (`Phases`, `FetchedPast`). `InOrder`: what was delivered is sorted and reached by the
  cursor (`Ordered`), hence in order and no position twice, in *every* ordering,
  cluster sizes included, across lost responses and writes. `SteadyInv` is about every ordering by a
  stored field (`ByStored`, all but cluster size): the cursor and all that
  follows the first page are of the tier in which that page ended (`Tiers`); a matching
  row ahead of the cursor that nobody touches is on the fetched page or after a full one (`SteadyFetched`); and it
  was delivered as it is exactly when the cursor has reached it, in the end if it is in reach
  (`SteadyDelivered`). Hence `SteadyOnce` and, with nothing written meanwhile, `CountExact`.
  `TierNeverLeft` is the negative side, for rows that are written too. By `created_at` and confidence,
  which no document lacks, all rows are in reach, so `ScanCovered`: the pages are the scan. `KeysetListings`
  is what `curation_listing` checks, for every set of orderings without cluster size.
* **UserAdministrationProofs**. `AdminRemains`: while changes do not overlap, the account read by a
  change is the one stored (`ChangesAlone`), and a guarded change has counted another
  administrator.

Only model-checked: the liveness properties (`BegunIsAnswered`, `OutcomeIsIntegrated`,
`AskedIsAnswered`: fairness and ENABLED are outside the prover), and the three violated claims,
which are false. No module has a RECURSIVE operator.

## 6. Not modelled, and plan

Left out for good: HTTP conversion, serialisation and validation of messages,
tracing, settings, dependency wiring, rdflib, and Redis and MongoDB internals beyond
what a command does; login and tokens (stateless) and password hashes; the statistics,
previews and catalogue of the curation API and the offset-paged listings of
users and candidates, which read and keep nothing; `seed_db.py`, the fixture and export scripts.

Mentions and decision ids are one to one in the models. The code concatenates the
triad without a separator, so different mentions may share an id; this needs
identifiers made of characters and is listed as a hazard without a property.

Known behaviours that a reader should expect of the models, without a run of their own:

* A call that loses the insert race is answered with the winner's document
  (`LoseInsertRace`), and a repeated outcome does not advance the boundary.
* A review may consume the slot of a placement that replaced the one it judged, if the ERE dated
  the new one earlier than the review.
* A response popped from Redis whose store fails is gone (`OutcomeFailed`).
* A doorbell after the timeout finds the event of the abandoned wait (`lingering`).
* A Redis error other than `ConnectionError` ends the integration worker's task, although
  the docstring of `run` says that all exceptions are swallowed (`IntegratorEnds`).
* A repeated request is published with its own context and content type,
  which the comparison by content hash does not see.
* An unsupported content type is reported as an internal error, because it is
  not among the parsing errors of `resolve_single` (`ParseFails`).
* Without a snapshot the delta has decisions that were updated at least once, although the docstring
  of the query says that None returns all; the snapshot is moved by the
  last page only, although the bulk refresh's docstring says after each page.
* Sorted by `updated_at`, a traversal ends in the tier in which its first page ends: ascending, the decisions
  that were replaced are missing after a full page of others (a finding, with the bulk synchronisation);
  descending, those never replaced are missing after a full page of replaced ones. The count includes them (`CountIsExact`).
* An outcome of the ERE whose insert loses the race against a draft is dropped, although it is later
  and nothing fails (`LostInsertRace`, section 3).

Next, in this order: mentions whose identifiers concatenate to one key, which takes
identifiers as sequences of parts; the retries of a client that repeats a pending request
as an abstract session over ResolutionCoordinator and RequestRegistry composed.
