--------------------------- MODULE DecisionCuration ---------------------------
(***************************************************************************)
(* Curators accept, reject or reassign decisions, one at a time or in bulk *)
(* (DecisionCurationService over UserActionService).  One decision under   *)
(* review is an item with a step per awaited operation: find the decision, *)
(* save the user action in the audit log, claim the review slot of the     *)
(* placement (two conditional updates of the decision), undo the action if *)
(* the slot is taken, and ask the ERE for a re-evaluation.                 *)
(*                                                                         *)
(* Between any two steps the ERE or a coordinator may replace the          *)
(* placement; decisions are those of DecisionRegister, written in one      *)
(* atomic step here (DecisionStore implements it).                         *)
(***************************************************************************)
EXTENDS Integers, FiniteSets

CONSTANTS
  Keys,            \* ids that curators ask for
  Mentions,        \* those among them that mentions can have: decision ids
  Curators,        \* users of the curation API, one request at a time each
  Clusters,
  Outcomes,        \* [placement, candidates]
  Times,           \* timestamps: of outcomes, of user actions
  BulkConcurrency, \* items of a bulk request worked on at a time
  Asks,            \* requests that arrive
  MaxRequests,     \* bound: how many of them
  MaxFaults,       \* bound: failing operations
  MaxChanges,      \* bound: placements written
  None

ASSUME OutcomesAssumption ==
  /\ Outcomes \subseteq [placement: Clusters, candidates: SUBSET Clusters]
  /\ None \notin Outcomes \union Clusters
ASSUME MentionsAssumption == Mentions \subseteq Keys
ASSUME AsksAssumption ==
  \A a \in Asks :
    /\ a.keys \subseteq Keys /\ a.keys # {}
    /\ a.actor \in Curators
    /\ \/ a.kind \in {"accept", "reject"} /\ a.choice = None
       \/ a.kind = "assign" /\ a.choice \in Clusters /\ Cardinality(a.keys) = 1
ASSUME TimesAssumption == Times \subseteq Nat \ {0}
ASSUME BoundsAssumption ==
  BulkConcurrency \in Nat \ {0} /\ {MaxRequests, MaxFaults, MaxChanges} \subseteq Nat

VARIABLES
  decision,   \* decision[k]: the decision document, or None
  review,     \* review[c][k]: the item for k of c's request, or None
  actions,    \* the user_actions collection
  published,  \* re-evaluation requests sent to the ERE
  asked,      \* curation requests so far
  issued,     \* user actions created so far (the last id)
  faults,     \* failed operations so far
  clean,      \* history: nothing failed since the last backfill
  changes     \* placements written so far

vars == <<decision, review, actions, published, asked, issued, faults, clean, changes>>
counters == <<asked, issued, faults, clean, changes>>

Register == INSTANCE DecisionRegister WITH Writers <- {}, call <- <<>>

Kinds == {"accept", "reject", "assign"}
\* What the item does next.
Working == {"saving", "claiming", "counting", "undoing", "publishing"}
\* What the curator is told in the end.
Ended == {"success", "not_found", "invalid", "already_curated", "error"}

Item == [at: {"queued"} \union Working \union Ended, kind: Kinds,
         choice: Clusters \union {None}, seen: Outcomes \union {None},
         id: Nat, time: Times \union {0}]

UserAction == [id: Nat, key: Keys, kind: Kinds, selected: Clusters \union {None},
               candidates: SUBSET Clusters, actor: Curators, time: Times]

Reevaluation == [id: Nat, key: Keys, proposed: SUBSET Clusters,
                 excluded: SUBSET Clusters]

ASSUME NoneAssumption == None \notin Item \union Register!Decision

-----------------------------------------------------------------------------
Boundary(d) == Register!Boundary(d)

At(c, k, step) == review[c][k] # None /\ review[c][k].at = step
Idle(c) == \A k \in Keys : review[c][k] = None
Seen(c, k) == review[c][k].seen
InWork(c) == {k \in Keys : review[c][k] # None /\ review[c][k].at \in Working}

Goto(c, k, step) == review' = [review EXCEPT ![c][k].at = step]

\* The cluster a user action selects.
\* Mutant: a rejection records the candidates in its place.
SelectedCandidates(i) ==
  CASE i.kind = "accept" -> i.seen.placement
    [] i.kind = "reject" -> i.seen.candidates
    [] i.kind = "assign" -> i.choice
Selected(i) ==
  CASE i.kind = "accept" -> i.seen.placement
    [] i.kind = "reject" -> None
    [] i.kind = "assign" -> i.choice

\* _find_candidate: only a candidate can be assigned.
Assignable(i) == i.kind = "assign" => i.choice \in i.seen.candidates

ActionOf(c, k, id, t) ==
  [id |-> id, key |-> k, kind |-> review[c][k].kind, selected |-> Selected(review[c][k]),
   candidates |-> Seen(c, k).candidates, actor |-> c, time |-> t]

\* _reject_exclusion_ids.  Mutant: ExcludedCandidates, the exclusions before the
\* placement was added to them.
ExcludedCandidates(i) == IF i.kind = "reject" THEN i.seen.candidates ELSE {}
Excluded(i) ==
  IF i.kind = "reject" THEN {i.seen.placement} \union i.seen.candidates ELSE {}

Proposed(i) == {Selected(i)} \ {None}

Init ==
  /\ decision = [k \in Keys |-> None]
  /\ review = [c \in Curators |-> [k \in Keys |-> None]]
  /\ actions = {}
  /\ published = {}
  /\ asked = 0
  /\ issued = 0
  /\ faults = 0
  /\ clean = TRUE
  /\ changes = 0

-----------------------------------------------------------------------------
\* The decision store.
Integrate(k, o, t) ==
  /\ k \in Mentions
  /\ changes < MaxChanges
  /\ decision[k] # None => Boundary(decision[k]) < t /\ decision[k].outcome # o
  /\ decision' = [decision EXCEPT ![k] =
       IF @ = None THEN Register!Created(o, t) ELSE Register!Replaced(@, o, t)]
  /\ changes' = changes + 1
  /\ UNCHANGED <<review, actions, published, asked, issued, faults, clean>>

-----------------------------------------------------------------------------
\* A request arrives: accept, reject or assign of one decision, or a bulk of
\* accepts or rejects, whose ids are a set.
Ask(a) == LET c == a.actor IN
  /\ Idle(c)
  /\ asked < MaxRequests
  /\ review' = [review EXCEPT ![c] =
       [k \in Keys |-> IF k \in a.keys
                       THEN [at |-> "queued", kind |-> a.kind, choice |-> a.choice,
                             seen |-> None, id |-> 0, time |-> 0]
                       ELSE None]]
  /\ asked' = asked + 1
  /\ UNCHANGED <<decision, actions, published, issued, faults, clean, changes>>

\* Mutant: the place of an item that ended with an error is never given back.
AdmittedUnlessErrors(c, k) ==
  /\ At(c, k, "queued")
  /\ Cardinality(InWork(c) \union {l \in Keys : At(c, l, "error")}) < BulkConcurrency
Admitted(c, k) == At(c, k, "queued") /\ Cardinality(InWork(c)) < BulkConcurrency

FindNothing(c, k) ==
  /\ Admitted(c, k)
  /\ decision[k] = None
  /\ Goto(c, k, "not_found")
  /\ UNCHANGED <<decision, actions, published, counters>>

Find(c, k) ==
  /\ Admitted(c, k)
  /\ decision[k] # None
  /\ LET found == [review[c][k] EXCEPT !.seen = decision[k].outcome]
     IN review' = [review EXCEPT ![c][k] =
          [found EXCEPT !.at = IF Assignable(found) THEN "saving" ELSE "invalid"]]
  /\ UNCHANGED <<decision, actions, published, counters>>

\* UserActionFactory stamps the action with this host's clock, save inserts it.
Save(c, k, t) ==
  /\ At(c, k, "saving")
  /\ issued' = issued + 1
  /\ actions' = actions \union {ActionOf(c, k, issued + 1, t)}
  /\ review' = [review EXCEPT ![c][k].at = "claiming", ![c][k].id = issued + 1,
                              ![c][k].time = t]
  /\ UNCHANGED <<decision, published, asked, faults, clean, changes>>

\* record_review, first update: the action is later than the placement.
\* Mutant: without the guard on reviewed_since_placement.
FreshEvenReviewed(k, t) == Boundary(decision[k]) < t
\* Mutant: the filter looks at created_at only.
FreshSinceCreation(k, t) ==
  /\ ~decision[k].reviewed
  /\ decision[k].created < t
Fresh(k, t) ==
  /\ ~decision[k].reviewed
  /\ Boundary(decision[k]) < t

Claim(c, k) ==
  /\ At(c, k, "claiming")
  /\ Fresh(k, review[c][k].time)
  /\ decision' = [decision EXCEPT ![k].reviewed = TRUE, ![k].reviews = @ + 1]
  /\ Goto(c, k, "publishing")
  /\ UNCHANGED <<actions, published, counters>>

ClaimNothing(c, k) ==
  /\ At(c, k, "claiming")
  /\ ~Fresh(k, review[c][k].time)
  /\ Goto(c, k, "counting")
  /\ UNCHANGED <<decision, actions, published, counters>>

\* record_review, second update: counted although it did not claim.
Count(c, k) ==
  /\ At(c, k, "counting")
  /\ ~decision[k].reviewed
  /\ decision' = [decision EXCEPT ![k].reviews = @ + 1]
  /\ Goto(c, k, "publishing")
  /\ UNCHANGED <<actions, published, counters>>

\* Mutant: a lost claim is answered without the compensation.
LoseClaimSilently(c, k) ==
  /\ At(c, k, "counting")
  /\ decision[k].reviewed
  /\ Goto(c, k, "already_curated")
  /\ UNCHANGED <<decision, actions, published, counters>>
LoseClaim(c, k) ==
  /\ At(c, k, "counting")
  /\ decision[k].reviewed
  /\ Goto(c, k, "undoing")
  /\ UNCHANGED <<decision, actions, published, counters>>

\* The compensation: delete_by_id, then AlreadyCuratedError.
Undo(c, k) ==
  /\ At(c, k, "undoing")
  /\ actions' = {a \in actions : a.id # review[c][k].id}
  /\ Goto(c, k, "already_curated")
  /\ UNCHANGED <<decision, published, counters>>

\* _publish_reevaluation: the mention is looked up and sent with the clusters.
Publish(c, k) ==
  /\ At(c, k, "publishing")
  /\ LET i == review[c][k]
     IN published' = published \union
          {[id |-> i.id, key |-> k, proposed |-> Proposed(i), excluded |-> Excluded(i)]}
  /\ Goto(c, k, "success")
  /\ UNCHANGED <<decision, actions, counters>>

\* The mention is not in the registry, or the ERE's list cannot be written: the
\* curator is told of success all the same.
PublishNothing(c, k) ==
  /\ At(c, k, "publishing")
  /\ Goto(c, k, "success")
  /\ UNCHANGED <<decision, actions, published, counters>>

\* A database operation raises; what was written stays.  The failed delete
\* may have been applied, and at the end it is the look-up of the mention that
\* fails, with the review recorded.
Fail(c, k) ==
  /\ faults < MaxFaults
  /\ review[c][k] # None
  /\ review[c][k].at \in Working \union {"queued"}
  /\ Goto(c, k, "error")
  /\ \/ UNCHANGED actions
     \/ At(c, k, "undoing") /\ actions' = {a \in actions : a.id # review[c][k].id}
  /\ faults' = faults + 1
  /\ clean' = FALSE
  /\ UNCHANGED <<decision, published, asked, issued, changes>>

\* gather returns when every item has ended, and the curator gets the reply.
Reply(c) ==
  /\ ~Idle(c)
  /\ \A k \in Keys : review[c][k] # None => review[c][k].at \in Ended
  /\ review' = [review EXCEPT ![c] = [k \in Keys |-> None]]
  /\ UNCHANGED <<decision, actions, published, counters>>

\* The instance dies: its requests end without a reply.
Crash(c) ==
  /\ faults < MaxFaults
  /\ ~Idle(c)
  /\ review' = [review EXCEPT ![c] = [k \in Keys |-> None]]
  /\ faults' = faults + 1
  /\ clean' = FALSE
  /\ UNCHANGED <<decision, actions, published, asked, issued, changes>>

\* scripts/backfill_previous_review_count, run while nobody curates: the
\* decisions with actions get their count, and are reviewed when the latest
\* action is later than the placement.
ActionsOn(k) == {a \in actions : a.key = k}
Backfilled(k) ==
  IF decision[k] = None \/ ActionsOn(k) = {} THEN decision[k]
  ELSE [decision[k] EXCEPT
          !.reviews = Cardinality(ActionsOn(k)),
          !.reviewed = \E a \in ActionsOn(k) : a.time > Boundary(decision[k])]

Backfill ==
  /\ \A c \in Curators : Idle(c)
  /\ decision' = [k \in Keys |-> Backfilled(k)]
  /\ clean' = TRUE
  /\ UNCHANGED <<review, actions, published, asked, issued, faults, changes>>

-----------------------------------------------------------------------------
ReviewStep(c, k) ==
  \/ FindNothing(c, k)
  \/ Find(c, k)
  \/ \E t \in Times : Save(c, k, t)
  \/ Claim(c, k)
  \/ ClaimNothing(c, k)
  \/ Count(c, k)
  \/ LoseClaim(c, k)
  \/ Undo(c, k)
  \/ Publish(c, k)
  \/ PublishNothing(c, k)

StoreStep == \E k \in Keys, o \in Outcomes, t \in Times : Integrate(k, o, t)

CurationNext ==
  \/ StoreStep
  \/ \E a \in Asks : Ask(a)
  \/ \E c \in Curators, k \in Keys : ReviewStep(c, k) \/ Fail(c, k)
  \/ \E c \in Curators : Reply(c) \/ Crash(c)
  \/ Backfill

\* Some item of a request, or its reply, goes on while one of them can; nothing
\* else is promised.
CurationProgress ==
  \A c \in Curators : WF_vars(Reply(c) \/ \E k \in Keys : ReviewStep(c, k))

CurationSpec == Init /\ [][CurationNext]_vars
FairCurationSpec == CurationSpec /\ CurationProgress

-----------------------------------------------------------------------------
TypeOK ==
  /\ decision \in [Keys -> Register!Decision \union {None}]
  /\ review \in [Curators -> [Keys -> Item \union {None}]]
  /\ actions \subseteq UserAction
  /\ published \subseteq Reevaluation
  /\ {asked, issued, faults, changes} \subseteq Nat
  /\ clean \in BOOLEAN

\* Items whose user action is saved and neither counted nor undone.
Unsettled == {"claiming", "counting", "undoing"}
Settled(a) ==
  \A c \in Curators, k \in Keys :
    review[c][k] # None /\ review[c][k].id = a.id => review[c][k].at \notin Unsettled

\* A decision said to be reviewed since its placement has a user action on
\* record that is later than the placement and that no compensation will take
\* away: whatever is interleaved, placements that change in between included.
ReviewedHasAction ==
  \A k \in Keys : decision[k] # None /\ decision[k].reviewed =>
    \E a \in actions : a.key = k /\ a.time > Boundary(decision[k]) /\ Settled(a)

\* previous_review_count never exceeds the audit log, and while nothing has
\* failed it is the number of the log's settled actions.
CounterFollowsLog ==
  \A k \in Keys : decision[k] # None =>
    /\ decision[k].reviews <= Cardinality({a \in ActionsOn(k) : Settled(a)})
    /\ clean => decision[k].reviews = Cardinality({a \in ActionsOn(k) : Settled(a)})

\* A placement is reviewed once: until it is replaced it stays reviewed, and no
\* other action is counted on it, whoever asks (a backfill after a failure may
\* correct the count).
ReviewIsFinal ==
  [][\A k \in Keys :
       decision[k] # None /\ decision[k].reviewed /\ changes' = changes =>
         /\ decision'[k].reviewed
         /\ clean => decision'[k].reviews = decision[k].reviews]_vars

\* A curator told of success has an action on record; one told that the
\* decision was missing, the cluster invalid or the placement curated has none.
ToldAsRecorded ==
  \A c \in Curators, k \in Keys : review[c][k] # None =>
    LET own == {a \in actions : a.id = review[c][k].id}
    IN /\ At(c, k, "success") => own # {}
       /\ review[c][k].at \in {"not_found", "invalid", "already_curated"} => own = {}

\* A request for re-evaluation follows a user action that stays on record, and
\* says what it says: accept and assign propose the selected cluster, reject
\* leaves the ERE none of the clusters that the curator was shown.
PublishedWasRecorded ==
  \A p \in published : \E a \in actions :
    /\ a.id = p.id /\ a.key = p.key
    /\ a.kind # "reject" => p.proposed = {a.selected} /\ p.excluded = {}
    /\ a.kind = "reject" => /\ p.proposed = {}
                            /\ \E o \in Outcomes : /\ o.candidates = a.candidates
                                                   /\ p.excluded = o.candidates \union {o.placement}

\* Every curation request is answered, bulk items that fail included.
AskedIsAnswered == \A c \in Curators : ~Idle(c) ~> Idle(c)
=============================================================================
