------------------------ MODULE ClusterSizeMaintenance ------------------------
(***************************************************************************)
(* The cluster_sizes projection over the life of a deployment: calls of    *)
(* store_decision that overlap or fail let it drift, and the scripts       *)
(* verify_cluster_sizes and backfill_cluster_sizes find and repair that.   *)
(* The backfill takes no lock: it is meant for a maintenance window, which *)
(* nothing enforces, and it may die half-way.                              *)
(***************************************************************************)
EXTENDS DecisionStore

VARIABLES
  script,  \* the step of the backfill, or "idle"
  counts,  \* the decisions per cluster that it has aggregated
  todo,    \* clusters whose count is still to be written
  window,  \* history: no call has been in progress since the backfill began
  exact    \* history: nothing has let the sizes drift since they were last right

maintenance == <<script, counts, todo>>
sizeVars == <<vars, maintenance, window, exact>>

NoCounts == [c \in Clusters |-> 0]

\* No call of store_decision is in progress.
Quiet == \A w \in Writers : op[w] = None

\* No call for key k is in progress.
Unused(k) == \A w \in Writers : op[w] # None => op[w].key # k

SizeInit ==
  /\ Init
  /\ script = "idle"
  /\ counts = NoCounts
  /\ todo = {}
  /\ window = FALSE
  /\ exact = TRUE

-----------------------------------------------------------------------------
\* A call that overlaps another for its key, or the backfill, may spoil the sizes;
\* so may one that fails.  (Reviews do not touch the sizes and are left out.)
SubmitCall(w, k) ==
  /\ SubmitAny(w, k)
  /\ window' = FALSE
  /\ exact' = (exact /\ Unused(k) /\ script = "idle")
  /\ UNCHANGED maintenance

StepCall(w) ==
  /\ Step(w)
  /\ UNCHANGED <<maintenance, window, exact>>

FailCall(w) ==
  /\ Fail(w)
  /\ exact' = FALSE
  /\ UNCHANGED <<maintenance, window>>

-----------------------------------------------------------------------------
\* _aggregate_cluster_counts; without decisions there is nothing to do.
Aggregate ==
  /\ script = "idle"
  /\ \E c \in Clusters : Members(c) > 0
  /\ counts' = [c \in Clusters |-> Members(c)]
  /\ todo' = {c \in Clusters : Members(c) > 0}
  /\ script' = "upsert"
  /\ window' = Quiet
  /\ exact' = (exact /\ Quiet)
  /\ UNCHANGED vars

\* One of the upserts of an unordered bulk_write.
\* Mutant: the counts are added to the sizes in place of replacing them.
UpsertAdded(c) ==
  /\ script = "upsert"
  /\ c \in todo
  /\ sizes' = [sizes EXCEPT ![c] = @ + counts[c]]
  /\ rows' = rows \union {c}
  /\ todo' = todo \ {c}
  /\ UNCHANGED <<documents, op, calls, script, counts, window, exact>>
UpsertSize(c) ==
  /\ script = "upsert"
  /\ c \in todo
  /\ sizes' = [sizes EXCEPT ![c] = counts[c]]
  /\ rows' = rows \union {c}
  /\ todo' = todo \ {c}
  /\ UNCHANGED <<documents, op, calls, script, counts, window, exact>>

EndScript ==
  /\ script' = "idle"
  /\ counts' = NoCounts
  /\ todo' = {}
  /\ window' = FALSE

\* _delete_stale_entries: the last step.  When no call was in progress since the
\* script began, the sizes are right now, whatever they were.
DeleteStale ==
  LET live == {c \in Clusters : counts[c] > 0}
  IN /\ script = "upsert"
     /\ todo = {}
     /\ rows' = rows \intersect live
     /\ sizes' = [c \in Clusters |-> IF c \in live THEN sizes[c] ELSE 0]
     /\ exact' = (exact \/ window)
     /\ EndScript
     /\ UNCHANGED <<documents, op, calls>>

\* The script dies, or MongoDB fails under it.
AbortScript ==
  /\ script = "upsert"
  /\ EndScript
  /\ UNCHANGED <<vars, exact>>

SizeNext ==
  \/ \E w \in Writers, k \in Keys : SubmitCall(w, k)
  \/ \E w \in Writers : StepCall(w) \/ FailCall(w)
  \/ Aggregate
  \/ \E c \in Clusters : UpsertSize(c)
  \/ DeleteStale
  \/ AbortScript

SizeSpec == SizeInit /\ [][SizeNext]_sizeVars

-----------------------------------------------------------------------------
SizeTypeOK ==
  /\ TypeOK
  /\ script \in {"idle", "upsert"}
  /\ counts \in [Clusters -> Nat]
  /\ todo \subseteq Clusters
  /\ {window, exact} \subseteq BOOLEAN

\* cluster_sizes is a projection of the decisions: the size of a cluster is the
\* number of decisions placed in it, up to the index writes that calls in progress
\* still owe.  It holds while calls for one key do not overlap, nothing fails and
\* the backfill runs in a maintenance window, and again after the next backfill
\* that does, whatever calls, failures and aborted scripts did to the sizes before.
SizesFollow == exact => SizesFollowDecisions

\* verify_cluster_sizes: the clusters whose count differs from their size, a missing
\* row counting as 0.
Drifts == {c \in Clusters : Members(c) # IF c \in rows THEN sizes[c] ELSE 0}

\* At rest the verification then finds no drift, and the clusters with a row are
\* those with decisions: no row of an empty cluster is left for the listings.
VerifiedAtRest ==
  exact /\ Quiet => Drifts = {} /\ rows = {c \in Clusters : Members(c) > 0}
=============================================================================
