---------------------------- MODULE DecisionStore ----------------------------
(***************************************************************************)
(* The Resolution Decision Store as the code runs it: store_decision of    *)
(* DecisionStoreService over MongoDecisionRepository and                   *)
(* MongoClusterSizeIndex.                                                  *)
(*                                                                         *)
(* Every await on the database is an action of its own, so that calls of   *)
(* several writers (integrators and coordinators, on one or on several ERS *)
(* instances) interleave between any two of them.  A single MongoDB        *)
(* operation is atomic.  There is no lock and no transaction.              *)
(***************************************************************************)
EXTENDS Integers, Sequences, FiniteSets

CONSTANTS
  Keys,            \* decision ids
  Writers,         \* concurrent callers of store_decision
  Clusters,        \* cluster ids
  References,      \* ClusterReference values: a cluster id with its scores
  ClusterOf,       \* the cluster id of a reference
  CandidateLists,  \* the candidate lists that callers submit
  Times,           \* timestamps
  None,            \* Python's None
  MaxCandidates,   \* config.DECISION_STORE_MAX_CANDIDATES
  MaxCalls,        \* bound of the model: calls of store_decision
  MaxReviews       \* bound of the model: reviews counted on one decision

NoTime == 0

\* The first MaxCandidates of a candidate list.
Truncate(cs) ==
  IF Len(cs) > MaxCandidates THEN SubSeq(cs, 1, MaxCandidates) ELSE cs

\* An outcome as it is compared and stored: candidates already truncated.
Outcomes == [placement: References,
             candidates: {Truncate(cs) : cs \in CandidateLists}]

Decision == [created: Times, updated: Times \union {NoTime},
             outcome: Outcomes, reviewed: BOOLEAN, reviews: Nat]

Answers == {"pending", "created", "replaced", "unchanged",
            "yielded", "stale", "failed"}

Steps == {"read", "reread", "insert", "update", "shift", "done"}

\* A call of store_decision in progress.  from: the cluster of the decision
\* that the service read; todo: the writes of the bulk_write still to be
\* applied; got: the outcome of the decision to return.  early and answer are
\* read by the properties only.
Op == [pc: Steps, key: Keys, outcome: Outcomes, time: Times,
       from: Clusters \union {None}, todo: SUBSET {"dec", "inc"},
       early: BOOLEAN, answer: Answers, got: Outcomes \union {None}]

AbstractCalls == [key: Keys, outcome: Outcomes, time: Times, early: BOOLEAN,
                  answer: Answers, got: Outcomes \union {None}]

ASSUME TimesAssumption == Times \subseteq Nat \ {NoTime}
ASSUME ClusterAssumption == ClusterOf \in [References -> Clusters]
ASSUME NoneAssumption ==
  None \notin Decision \union Op \union AbstractCalls \union Clusters
ASSUME BoundsAssumption ==
  MaxCandidates \in Nat /\ MaxCalls \in Nat /\ MaxReviews \in Nat

VARIABLES
  documents,  \* the decisions collection: documents[k] is None when absent
  rows,       \* the cluster ids that have a row in cluster_sizes
  sizes,      \* the size field of a cluster's row, 0 without a row
  op,         \* op[w]: the call of w in progress, or None
  calls       \* calls made so far (bounds the model)

vars == <<documents, rows, sizes, op, calls>>

-----------------------------------------------------------------------------
Boundary(d) == IF d.updated = NoTime THEN d.created ELSE d.updated

InsertDocument(o, t) == [created |-> t, updated |-> NoTime, outcome |-> o,
                         reviewed |-> FALSE, reviews |-> 0]

\* Mutant: updated_at is not written.
UpdateUntimed(d, o, t) == [d EXCEPT !.outcome = o, !.reviewed = FALSE]

UpdateDocument(d, o, t) ==
  [d EXCEPT !.updated = t, !.outcome = o, !.reviewed = FALSE]

\* Mutants: equal timestamps pass; only created_at is compared.
FreshOrEqual(d, t) ==
  \/ d.updated # NoTime /\ d.updated <= t
  \/ d.updated = NoTime /\ d.created <= t

FreshSinceCreation(d, t) == d.created < t

\* The R2 filter: the incoming timestamp is later than what is stored.
Fresh(d, t) ==
  \/ d.updated # NoTime /\ d.updated < t
  \/ d.updated = NoTime /\ d.created < t

SameOutcome(d, o) == d.outcome = o

\* What shift has to write for a decision moving between two clusters.
ShiftWrites(from, to) ==
  IF from = to THEN {} ELSE IF from = None THEN {"inc"} ELSE {"dec", "inc"}

At(w, step) == op[w] # None /\ op[w].pc = step

Target(w) == ClusterOf[op[w].outcome.placement]

Stored(w) == documents[op[w].key]

\* The next step of the call of w; the index and the counter are untouched.
Goto(w, step) ==
  /\ op' = [op EXCEPT ![w].pc = step]
  /\ UNCHANGED <<rows, sizes, calls>>

\* The call of w is decided: the answer a, the outcome o of the decision it
\* returns, and the index writes that follow.
Decide(w, a, o, step) ==
  /\ op' = [op EXCEPT ![w].answer = a, ![w].got = o, ![w].pc = step,
       ![w].todo = IF step = "shift" THEN ShiftWrites(op[w].from, Target(w)) ELSE {}]
  /\ UNCHANGED <<rows, sizes, calls>>

-----------------------------------------------------------------------------
Init ==
  /\ documents = [k \in Keys |-> None]
  /\ rows = {}
  /\ sizes = [c \in Clusters |-> 0]
  /\ op = [w \in Writers |-> None]
  /\ calls = 0

Submit(w, k, p, cs, t) ==
  /\ op[w] = None
  /\ calls < MaxCalls
  /\ calls' = calls + 1
  /\ op' = [op EXCEPT ![w] =
       [pc |-> "read", key |-> k, time |-> t, from |-> None, todo |-> {},
        outcome |-> [placement |-> p, candidates |-> Truncate(cs)],
        early |-> documents[k] = None, answer |-> "pending", got |-> None]]
  /\ UNCHANGED <<documents, rows, sizes>>

\* find_by_triad of the service finds no decision.
ServiceReadNothing(w) ==
  /\ At(w, "read")
  /\ Stored(w) = None
  /\ Goto(w, "reread")
  /\ UNCHANGED documents

\* It finds the same outcome: the existing decision is returned.
ServiceReadSame(w) ==
  /\ At(w, "read")
  /\ Stored(w) # None
  /\ SameOutcome(Stored(w), op[w].outcome)
  /\ Decide(w, "unchanged", Stored(w).outcome, "done")
  /\ UNCHANGED documents

\* Mutant: the reference is remembered in place of its cluster.
ServiceReadOtherReference(w) ==
  /\ At(w, "read")
  /\ Stored(w) # None
  /\ ~SameOutcome(Stored(w), op[w].outcome)
  /\ op' = [op EXCEPT ![w].pc = "update", ![w].from = Stored(w).outcome.placement]
  /\ UNCHANGED <<documents, rows, sizes, calls>>

\* It finds another outcome, and remembers its cluster for the index.
ServiceReadOther(w) ==
  /\ At(w, "read")
  /\ Stored(w) # None
  /\ ~SameOutcome(Stored(w), op[w].outcome)
  /\ op' = [op EXCEPT ![w].pc = "update",
                       ![w].from = ClusterOf[Stored(w).outcome.placement]]
  /\ UNCHANGED <<documents, rows, sizes, calls>>

\* Mutant: the second read is taken to find a decision.
RepositoryReadHopes(w) ==
  /\ At(w, "reread")
  /\ Goto(w, "update")
  /\ UNCHANGED documents

\* upsert_decision without a hint reads again; the service does not learn
\* what it finds.
RepositoryRead(w) ==
  /\ At(w, "reread")
  /\ Goto(w, IF Stored(w) = None THEN "insert" ELSE "update")
  /\ UNCHANGED documents

\* find_one_and_update(upsert) with $setOnInsert, no document there.
Insert(w) ==
  /\ At(w, "insert")
  /\ Stored(w) = None
  /\ documents' = [documents EXCEPT ![op[w].key] =
                     InsertDocument(op[w].outcome, op[w].time)]
  /\ Decide(w, "created", op[w].outcome, "shift")

\* The same operation meets a document: $setOnInsert writes nothing and the
\* document found is returned like a stored one.
InsertMeetsDocument(w) ==
  /\ At(w, "insert")
  /\ Stored(w) # None
  /\ Decide(w, "yielded", Stored(w).outcome, "shift")
  /\ UNCHANGED documents

\* Two upserts inside the server at once: duplicate key, StaleOutcomeError.
InsertDuplicateKey(w) ==
  /\ At(w, "insert")
  /\ Stored(w) # None
  /\ Decide(w, "stale", None, "done")
  /\ UNCHANGED documents

Update(w) ==
  /\ At(w, "update")
  /\ Stored(w) # None
  /\ Fresh(Stored(w), op[w].time)
  /\ documents' = [documents EXCEPT ![op[w].key] =
                     UpdateDocument(@, op[w].outcome, op[w].time)]
  /\ Decide(w, "replaced", op[w].outcome, "shift")

\* The filter matches nothing; the decision is fetched for the error.
UpdateStale(w) ==
  /\ At(w, "update")
  /\ Stored(w) # None
  /\ ~Fresh(Stored(w), op[w].time)
  /\ Decide(w, "stale", None, "done")
  /\ UNCHANGED documents

\* The two writes of the unordered bulk_write, in either order.
ShiftDecrement(w) ==
  /\ At(w, "shift")
  /\ "dec" \in op[w].todo
  /\ sizes' = IF op[w].from \in rows THEN [sizes EXCEPT ![op[w].from] = @ - 1]
                                     ELSE sizes
  /\ op' = [op EXCEPT ![w].todo = @ \ {"dec"}]
  /\ UNCHANGED <<documents, rows, calls>>

ShiftIncrement(w) ==
  /\ At(w, "shift")
  /\ "inc" \in op[w].todo
  /\ sizes' = [sizes EXCEPT ![Target(w)] = @ + 1]
  /\ rows' = rows \union {Target(w)}
  /\ op' = [op EXCEPT ![w].todo = @ \ {"inc"}]
  /\ UNCHANGED <<documents, calls>>

\* Mutant: rows that reach zero stay.
ShiftDeleteNegative(w) ==
  /\ At(w, "shift")
  /\ op[w].todo = {}
  /\ LET emptied == {c \in rows \ {Target(w)} : c = op[w].from /\ sizes[c] < 0}
     IN /\ rows' = rows \ emptied
        /\ sizes' = [c \in Clusters |-> IF c \in emptied THEN 0 ELSE sizes[c]]
  /\ op' = [op EXCEPT ![w].pc = "done"]
  /\ UNCHANGED <<documents, calls>>

\* delete_one of an empty row of the cluster left behind.
ShiftDelete(w) ==
  /\ At(w, "shift")
  /\ op[w].todo = {}
  /\ LET emptied == {c \in rows \ {Target(w)} : c = op[w].from /\ sizes[c] <= 0}
     IN /\ rows' = rows \ emptied
        /\ sizes' = [c \in Clusters |-> IF c \in emptied THEN 0 ELSE sizes[c]]
  /\ op' = [op EXCEPT ![w].pc = "done"]
  /\ UNCHANGED <<documents, calls>>

\* Any of the database operations raises: the writes already made stay.
Fail(w) ==
  /\ op[w] # None
  /\ op[w].pc # "done"
  /\ Decide(w, "failed", None, "done")
  /\ UNCHANGED documents

Return(w) ==
  /\ At(w, "done")
  /\ op' = [op EXCEPT ![w] = None]
  /\ UNCHANGED <<documents, rows, sizes, calls>>

-----------------------------------------------------------------------------
\* The two writes of record_review, issued by the curation service.
RecordReviewFresh(k, t) ==
  /\ documents[k] # None
  /\ ~documents[k].reviewed
  /\ Fresh(documents[k], t)
  /\ documents[k].reviews < MaxReviews
  /\ documents' = [documents EXCEPT ![k].reviews = @ + 1, ![k].reviewed = TRUE]
  /\ UNCHANGED <<rows, sizes, op, calls>>

RecordReviewStale(k) ==
  /\ documents[k] # None
  /\ ~documents[k].reviewed
  /\ documents[k].reviews < MaxReviews
  /\ documents' = [documents EXCEPT ![k].reviews = @ + 1]
  /\ UNCHANGED <<rows, sizes, op, calls>>

Step(w) ==
  \/ ServiceReadNothing(w) \/ ServiceReadSame(w) \/ ServiceReadOther(w)
  \/ RepositoryRead(w)
  \/ Insert(w) \/ InsertMeetsDocument(w) \/ InsertDuplicateKey(w)
  \/ Update(w) \/ UpdateStale(w)
  \/ ShiftDecrement(w) \/ ShiftIncrement(w) \/ ShiftDelete(w)
  \/ Return(w)

Review ==
  \/ \E k \in Keys, t \in Times : RecordReviewFresh(k, t)
  \/ \E k \in Keys : RecordReviewStale(k)

SubmitAny(w, k) ==
  \E p \in References, cs \in CandidateLists, t \in Times : Submit(w, k, p, cs, t)

Next ==
  \/ \E w \in Writers, k \in Keys : SubmitAny(w, k)
  \/ \E w \in Writers : Step(w) \/ Fail(w)
  \/ Review

Spec == Init /\ [][Next]_vars

-----------------------------------------------------------------------------
TypeOK ==
  /\ documents \in [Keys -> Decision \union {None}]
  /\ rows \subseteq Clusters
  /\ sizes \in [Clusters -> Int]
  /\ op \in [Writers -> Op \union {None}]
  /\ calls \in Nat

\* What a caller can see of a call.
abstractCall ==
  [w \in Writers |->
     IF op[w] = None THEN None
     ELSE [key |-> op[w].key, outcome |-> op[w].outcome, time |-> op[w].time,
           early |-> op[w].early, answer |-> op[w].answer, got |-> op[w].got]]

Register == INSTANCE DecisionRegister
              WITH decision <- documents, call <- abstractCall

\* The store implements its promise: every call takes effect at one of its
\* database operations, the others change nothing that a caller can see.
ImplementsRegister == Register!RegisterSpec

\* Why it does: a call that found nothing was invoked before there was a
\* decision, a call about to update has one, and a call is answered only
\* after its decisive operation.
CallConsistent(w) ==
  op[w] # None =>
    /\ documents[op[w].key] = None => op[w].early
    /\ op[w].pc \in {"reread", "insert"} => op[w].early
    /\ op[w].pc = "update" => documents[op[w].key] # None
    /\ op[w].pc \in {"read", "reread", "insert", "update"} <=> op[w].answer = "pending"

CallsConsistent == \A w \in Writers : CallConsistent(w)

\* What holds of a decision for its whole life (see DecisionRegister).
BoundaryAdvances == Register!BoundaryAdvances

\* The caller was told that its outcome is stored, or that it is stale while
\* there was a decision when it called.
Binding(c) ==
  c.answer \in {"created", "replaced"} \/ (c.answer = "stale" /\ ~c.early)

\* Such a caller never finds an older decision afterwards, whatever the other
\* writers do.
AnswerIsLasting ==
  \A w \in Writers : op[w] # None /\ Binding(op[w]) =>
    /\ documents[op[w].key] # None
    /\ Boundary(documents[op[w].key]) >= op[w].time
-----------------------------------------------------------------------------
\* The number of decisions placed in a cluster.
Members(c) ==
  Cardinality({k \in Keys : documents[k] # None /\
                            ClusterOf[documents[k].outcome.placement] = c})

\* Index writes of calls in progress that have not been applied to cluster c.
Owed(c) ==
  Cardinality({w \in Writers : op[w] # None /\ "inc" \in op[w].todo /\ Target(w) = c})
  - Cardinality({w \in Writers : op[w] # None /\ "dec" \in op[w].todo /\ op[w].from = c})

\* Every size is the number of members, up to the index writes that are owed
\* (ClusterSizeMaintenance says when this holds).
SizesFollowDecisions == \A c \in Clusters : sizes[c] + Owed(c) = Members(c)
=============================================================================
