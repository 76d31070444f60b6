-------------------------- MODULE OutcomeIntegration --------------------------
(***************************************************************************)
(* The ERE Result Integrator of every ERS instance: the worker that pulls  *)
(* ERE responses from the shared Redis list, OutcomeIntegrationService     *)
(* that stores them, and the doorbell that tells the instance whose        *)
(* request waits: directly when the instance has an event for the mention, *)
(* by Redis Pub/Sub to all subscribed instances otherwise.                 *)
(*                                                                         *)
(* The decision store is DecisionRegister (which DecisionStore             *)
(* implements); the events are those of AsyncResolutionWaiter.             *)
(***************************************************************************)
EXTENDS Integers

CONSTANTS
  Keys, Requests, Instances, InstanceOf, KeyOf,
  EREOutcomes,  \* placements and candidate lists that the ERE decides
  Draft,        \* the provisional singleton placement of a mention
  Times, None

Outcomes == EREOutcomes \union {Draft}

\* Who calls store_decision: each instance's integrator, and requests.
Writers == Instances \union Requests

ASSUME SitesAssumption ==
  /\ InstanceOf \in [Requests -> Instances]
  /\ KeyOf \in [Requests -> Keys]
  /\ Instances \intersect Requests = {}
ASSUME DraftAssumption == Draft \notin EREOutcomes /\ None \notin Outcomes

\* outcome None: the response breaks the contract (no timestamp, no candidates).
Response == [key: Keys, outcome: EREOutcomes \union {None}, time: Times]

VARIABLES
  decision, call,            \* the decision store
  holding, lingering, rung,  \* the events of every instance
  registered,   \* mentions in the request registry
  responses,    \* the Redis list of ERE responses (the ERE fixes no order)
  integrator,   \* integrator[i]: the response in hand and its step, or None
  subscribed,   \* instances whose Pub/Sub subscription is up
  inbox         \* inbox[i]: notifications received and not yet handled

Register == INSTANCE DecisionRegister
Waiter == INSTANCE AsyncResolutionWaiter

storeVars == <<decision, call>>
waiterVars == <<holding, lingering, rung>>
notifyVars == <<subscribed, inbox>>

ASSUME NoneAssumption == None \notin Register!Decision \union Register!Call \union Response

Idle == [step |-> "idle", of |-> None]

IntegrationTypeOK ==
  /\ Register!RegisterTypeOK
  /\ Waiter!WaiterTypeOK
  /\ registered \subseteq Keys
  /\ responses \subseteq Response
  /\ integrator \in [Instances -> [step: {"idle", "check", "store", "ring", "ended"},
                                   of: Response \union {None}]]
  /\ subscribed \subseteq Instances
  /\ inbox \in [Instances -> SUBSET Keys]

IntegrationInit ==
  /\ Register!RegisterInit
  /\ Waiter!WaiterInit
  /\ registered = {}
  /\ responses = {}
  /\ integrator = [i \in Instances |-> Idle]
  /\ subscribed = Instances
  /\ inbox = [i \in Instances |-> {}]

In(i, step) == integrator[i].step = step
InHand(i) == integrator[i].of

Move(i, step) == integrator' = [integrator EXCEPT ![i].step = step]
Finish(i) == integrator' = [integrator EXCEPT ![i] = Idle]

\* BRPOP: the response leaves Redis.
Pull(i) ==
  /\ In(i, "idle")
  /\ call[i] = None
  /\ \E m \in responses :
       /\ responses' = responses \ {m}
       /\ integrator' = [integrator EXCEPT ![i] = [step |-> "check", of |-> m]]
  /\ UNCHANGED <<storeVars, waiterVars, notifyVars, registered>>

\* An error of Redis other than a lost connection (a timeout while connecting, for
\* one) is raised by the listener through the worker's loop: its task ends, and
\* nothing starts it again while the instance lives.
WorkerEnds(i) ==
  /\ In(i, "idle")
  /\ Move(i, "ended")
  /\ UNCHANGED <<storeVars, waiterVars, notifyVars, registered, responses>>

\* Mutant: responses that could be stored are rejected as well.
RejectAny(i) ==
  /\ In(i, "check")
  /\ Finish(i)
  /\ UNCHANGED <<storeVars, waiterVars, notifyVars, registered, responses>>

\* OutcomeValidationError and TriadNotFoundError: the response is dropped.
RejectOutcome(i) ==
  /\ In(i, "check")
  /\ InHand(i).outcome = None \/ InHand(i).key \notin registered
  /\ Finish(i)
  /\ UNCHANGED <<storeVars, waiterVars, notifyVars, registered, responses>>

\* Mutant: the registry is not consulted.
StoreUnchecked(i) ==
  /\ In(i, "check")
  /\ InHand(i).outcome # None
  /\ Register!Invoke(i, InHand(i).key, InHand(i).outcome, InHand(i).time)
  /\ Move(i, "store")
  /\ UNCHANGED <<waiterVars, notifyVars, registered, responses>>

StoreOutcome(i) ==
  /\ In(i, "check")
  /\ InHand(i).outcome # None
  /\ InHand(i).key \in registered
  /\ Register!Invoke(i, InHand(i).key, InHand(i).outcome, InHand(i).time)
  /\ Move(i, "store")
  /\ UNCHANGED <<waiterVars, notifyVars, registered, responses>>

\* Stored, unchanged or stale alike, the coordinator is notified.
OutcomeStored(i) ==
  /\ In(i, "store")
  /\ call[i].answer # "failed"
  /\ Register!Return(i)
  /\ Move(i, "ring")
  /\ UNCHANGED <<waiterVars, notifyVars, registered, responses>>

\* Mutant: the doorbell rings for a failed store as well.
OutcomeFailedRings(i) ==
  /\ In(i, "store")
  /\ call[i].answer = "failed"
  /\ Register!Return(i)
  /\ Move(i, "ring")
  /\ UNCHANGED <<waiterVars, notifyVars, registered, responses>>

\* The exception ends the processing of the response: no doorbell, no retry.
OutcomeFailed(i) ==
  /\ In(i, "store")
  /\ call[i].answer = "failed"
  /\ Register!Return(i)
  /\ Finish(i)
  /\ UNCHANGED <<waiterVars, notifyVars, registered, responses>>

\* The callback: an event of this instance, and no other, is set ...
RingHere(i) ==
  /\ In(i, "ring")
  /\ Waiter!Live(<<i, InHand(i).key>>)
  /\ Waiter!Notify(<<i, InHand(i).key>>)
  /\ Finish(i)
  /\ UNCHANGED <<storeVars, notifyVars, registered, responses>>

\* ... or the subscribed instances get a notification ...
RingPeers(i) ==
  /\ In(i, "ring")
  /\ ~Waiter!Live(<<i, InHand(i).key>>)
  /\ inbox' = [j \in Instances |->
       IF j \in subscribed THEN inbox[j] \union {InHand(i).key} ELSE inbox[j]]
  /\ Finish(i)
  /\ UNCHANGED <<storeVars, waiterVars, subscribed, registered, responses>>

\* ... or publishing it fails, which is only logged.
RingFails(i) ==
  /\ In(i, "ring")
  /\ ~Waiter!Live(<<i, InHand(i).key>>)
  /\ Finish(i)
  /\ UNCHANGED <<storeVars, waiterVars, notifyVars, registered, responses>>

\* NotificationSubscriberWorker handles a notification.
Deliver(i) ==
  /\ \E k \in inbox[i] :
       /\ inbox' = [inbox EXCEPT ![i] = @ \ {k}]
       /\ Waiter!Notify(<<i, k>>)
  /\ UNCHANGED <<storeVars, registered, responses, integrator, subscribed>>

\* It loses its connection, and what was on the way with it.
Disconnect(i) ==
  /\ i \in subscribed
  /\ subscribed' = subscribed \ {i}
  /\ inbox' = [inbox EXCEPT ![i] = {}]
  /\ UNCHANGED <<storeVars, waiterVars, registered, responses, integrator>>

Resubscribe(i) ==
  /\ i \notin subscribed
  /\ subscribed' = subscribed \union {i}
  /\ UNCHANGED <<storeVars, waiterVars, registered, responses, integrator, inbox>>

Integrate(i) ==
  \/ Pull(i) \/ RejectOutcome(i) \/ StoreOutcome(i)
  \/ OutcomeStored(i) \/ OutcomeFailed(i)
  \/ RingHere(i) \/ RingPeers(i)
=============================================================================
