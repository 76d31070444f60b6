-------------------------- MODULE DecisionRegister --------------------------
(***************************************************************************)
(* What the Resolution Decision Store promises to its callers.             *)
(*                                                                         *)
(* The store holds at most one decision per entity mention.  A caller      *)
(* (the outcome integrator or the resolution coordinator) invokes          *)
(* store_decision with an outcome and a timestamp; the call takes effect   *)
(* at one instant between its invocation and its return, and is answered   *)
(* according to the decision it meets at that instant.  The detailed       *)
(* module DecisionStore, in which the same call is four or five separate   *)
(* database operations, is shown to implement this one.                    *)
(*                                                                         *)
(* The decision document also carries the curators' review state, because  *)
(* a new placement resets it in the same write.                            *)
(***************************************************************************)
EXTENDS Integers

CONSTANTS
  Keys,      \* decision ids (the hash of an entity mention triad)
  Writers,   \* callers of store_decision, one call at a time each
  Outcomes,  \* what a decision assigns: placement and candidate list
  Times,     \* timestamps (of ERE responses, of the coordinator's clock): numbers > 0
  None       \* stands for Python's None: no decision, no call, no outcome

NoTime == 0  \* the absent updated_at of a decision never replaced

Decision == [created: Times, updated: Times \union {NoTime},
             outcome: Outcomes, reviewed: BOOLEAN, reviews: Nat]

Answers == {"pending", "created", "replaced", "unchanged",
            "yielded", "stale", "failed"}

\* early: there was no decision for the key when the call was invoked.
\* got: what the decision returned to the caller assigns.
Call == [key: Keys, outcome: Outcomes, time: Times, early: BOOLEAN,
         answer: Answers, got: Outcomes \union {None}]

VARIABLES
  decision,  \* decision[k]: the decision stored for k, or None
  call       \* call[w]: the call of w in progress, or None

registerVars == <<decision, call>>

-----------------------------------------------------------------------------
\* The placement boundary: updated_at when the decision was ever replaced,
\* created_at until then.
Boundary(d) == IF d.updated = NoTime THEN d.created ELSE d.updated

Created(o, t) == [created |-> t, updated |-> NoTime, outcome |-> o,
                  reviewed |-> FALSE, reviews |-> 0]

Replaced(d, o, t) == [d EXCEPT !.updated = t, !.outcome = o, !.reviewed = FALSE]

Pending(w) == call[w] # None /\ call[w].answer = "pending"

Answered(c, a, o) == [c EXCEPT !.answer = a, !.got = o]

Answer(w, a, o) == call' = [call EXCEPT ![w] = Answered(@, a, o)]

RegisterInit ==
  /\ decision = [k \in Keys |-> None]
  /\ call = [w \in Writers |-> None]

Invoke(w, k, o, t) ==
  /\ call[w] = None
  /\ call' = [call EXCEPT ![w] = [key |-> k, outcome |-> o, time |-> t,
                                  early |-> decision[k] = None,
                                  answer |-> "pending", got |-> None]]
  /\ UNCHANGED decision

\* The first outcome for the key: its timestamp becomes created_at.
Create(w) ==
  /\ Pending(w)
  /\ decision[call[w].key] = None
  /\ decision' = [decision EXCEPT ![call[w].key] =
                     Created(call[w].outcome, call[w].time)]
  /\ Answer(w, "created", call[w].outcome)

\* A newer outcome replaces the stored one.
Replace(w) ==
  /\ Pending(w)
  /\ decision[call[w].key] # None
  /\ Boundary(decision[call[w].key]) < call[w].time
  /\ decision' = [decision EXCEPT ![call[w].key] =
                     Replaced(@, call[w].outcome, call[w].time)]
  /\ Answer(w, "replaced", call[w].outcome)

\* StaleOutcomeError: the stored decision is at least as recent.
RejectStale(w) ==
  /\ Pending(w)
  /\ decision[call[w].key] # None
  /\ Boundary(decision[call[w].key]) >= call[w].time
  /\ Answer(w, "stale", None)
  /\ UNCHANGED decision

\* The stored outcome equals the submitted one: nothing to write.
KeepSame(w) ==
  /\ Pending(w)
  /\ decision[call[w].key] # None
  /\ decision[call[w].key].outcome = call[w].outcome
  /\ Answer(w, "unchanged", call[w].outcome)
  /\ UNCHANGED decision

\* A call that lost an insert race.  Whatever the two timestamps, the
\* decision of the winner stays; the loser is given the winner's decision
\* as if it had been stored ("yielded") or StaleOutcomeError ("stale").
\* Possible only for a call invoked before there was a decision.
LoseInsertRace(w) ==
  /\ Pending(w)
  /\ call[w].early
  /\ decision[call[w].key] # None
  /\ \/ Answer(w, "yielded", decision[call[w].key].outcome)
     \/ Answer(w, "stale", None)
  /\ UNCHANGED decision

\* A database error: the caller gets an exception, before or after the
\* call took effect.
Fail(w) ==
  /\ call[w] # None
  /\ Answer(w, "failed", None)
  /\ UNCHANGED decision

Return(w) ==
  /\ call[w] # None
  /\ call[w].answer # "pending"
  /\ call' = [call EXCEPT ![w] = None]
  /\ UNCHANGED decision

-----------------------------------------------------------------------------
\* record_review: a curator action later than the placement boundary claims
\* the placement's review slot.
ClaimReview(k, t) ==
  /\ decision[k] # None
  /\ ~decision[k].reviewed
  /\ Boundary(decision[k]) < t
  /\ decision' = [decision EXCEPT ![k].reviewed = TRUE, ![k].reviews = @ + 1]
  /\ UNCHANGED call

\* record_review's second write: counted, the slot stays free.
CountReview(k) ==
  /\ decision[k] # None
  /\ ~decision[k].reviewed
  /\ decision' = [decision EXCEPT ![k].reviews = @ + 1]
  /\ UNCHANGED call

TakeEffect(w) ==
  \/ Create(w)
  \/ Replace(w)
  \/ RejectStale(w)
  \/ KeepSame(w)
  \/ LoseInsertRace(w)

RegisterNext ==
  \/ \E w \in Writers, k \in Keys, o \in Outcomes, t \in Times : Invoke(w, k, o, t)
  \/ \E w \in Writers : TakeEffect(w) \/ Fail(w) \/ Return(w)
  \/ \E k \in Keys, t \in Times : ClaimReview(k, t)
  \/ \E k \in Keys : CountReview(k)

RegisterSpec == RegisterInit /\ [][RegisterNext]_registerVars

-----------------------------------------------------------------------------
RegisterTypeOK ==
  /\ decision \in [Keys -> Decision \union {None}]
  /\ call \in [Writers -> Call \union {None}]

\* The boundary of a decision never recedes, a decision never disappears and
\* its creation timestamp never changes; the stored outcome changes only when
\* the boundary strictly advances, so whoever saw a boundary knows the outcome.
BoundaryAdvances ==
  [][\A k \in Keys : decision[k] # None =>
       /\ decision'[k] # None
       /\ decision'[k].created = decision[k].created
       /\ Boundary(decision'[k]) >= Boundary(decision[k])
       /\ decision'[k].outcome # decision[k].outcome =>
            Boundary(decision'[k]) > Boundary(decision[k])]_registerVars

\* The caller was told that its outcome is stored, or that it is stale while
\* there was a decision when it called.
Binding(c) ==
  c.answer \in {"created", "replaced"} \/ (c.answer = "stale" /\ ~c.early)

\* Such a caller never finds an older decision afterwards.
AnswerIsLasting ==
  \A w \in Writers : call[w] # None /\ Binding(call[w]) =>
    /\ decision[call[w].key] # None
    /\ Boundary(decision[call[w].key]) >= call[w].time
=============================================================================
