------------------------ MODULE ResolutionCoordinator ------------------------
(***************************************************************************)
(* ResolutionCoordinatorService on every ERS instance, with the ERE, the   *)
(* integrators and the decision store around it: what a client that asks   *)
(* for the resolution of a mention can be told, and when.                  *)
(***************************************************************************)
EXTENDS OutcomeIntegration

CONSTANTS
  Bulk,        \* the requests of one resolve_bulk call, possibly none
  Immediate,   \* instances with ERS_COORDINATOR_SINGLE_REQUEST_TIME_BUDGET = 0
  MaxTime,     \* bound of the model: Times is 1..MaxTime
  MaxResponses, \* bound of the model: responses that the ERE sends
  MaxFaults    \* bound of the model: failures and crashes

ASSUME CoordinatorAssumption ==
  /\ Bulk \subseteq Requests
  /\ \A r, q \in Bulk : InstanceOf[r] = InstanceOf[q]
  /\ Immediate \subseteq Instances
  /\ MaxTime \in Nat \ {0} /\ MaxResponses \in Nat /\ MaxFaults \in Nat
  /\ Times = 1..MaxTime

Steps == {"new", "check", "publish", "wait", "read", "store", "staleread", "done"}

Told == [kind: {"canonical", "provisional"}, outcome: Outcomes]
Refused == [kind |-> "error", outcome |-> None]

VARIABLES
  at,     \* at[r]: the step of request r
  reply,  \* reply[r]: what the client was told, or None
  held,   \* history: the outcomes that the store has held since r began
  now,    \* the clock
  sent,   \* responses sent by the ERE so far (bounds the model)
  faults  \* failures and crashes so far (bounds the model)

coordinatorVars == <<at, reply, held>>
integrationVars == <<responses, integrator, subscribed, inbox>>
externalVars == <<now, sent, faults>>
vars == <<storeVars, waiterVars, registered, integrationVars, coordinatorVars, externalVars>>

Init ==
  /\ IntegrationInit
  /\ at = [r \in Requests |-> "new"]
  /\ reply = [r \in Requests |-> None]
  /\ held = [r \in Requests |-> {}]
  /\ now = 1
  /\ sent = 0
  /\ faults = 0

Goto(r, step) == at' = [at EXCEPT ![r] = step] /\ UNCHANGED <<reply, held>>

\* The request ends: the client has its answer, the event is let go.
Answer(r, kind, o) ==
  /\ at' = [at EXCEPT ![r] = "done"]
  /\ reply' = [reply EXCEPT ![r] = [kind |-> kind, outcome |-> o]]
  /\ UNCHANGED held
  /\ Waiter!Release({r}, {})

Stored(r) == decision[KeyOf[r]]

\* One of the failures that the model allows.
Fault == faults < MaxFaults /\ faults' = faults + 1 /\ UNCHANGED <<now, sent>>

\* store_decision of the draft identifier, stamped with the current time.
Issue(r) == Register!Invoke(r, KeyOf[r], Draft, now) /\ Goto(r, "store")

\* The outcome that d, the decisions at some instant, has for the mention of r.
OutcomesNow(d, r) == IF d[KeyOf[r]] = None THEN {} ELSE {d[KeyOf[r]].outcome}

\* register_resolution_request: new, or registered before with the same content.
RegisterMention(r) ==
  /\ at[r] = "new"
  /\ registered' = registered \union {KeyOf[r]}
  /\ at' = [at EXCEPT ![r] = "check"]
  /\ held' = [held EXCEPT ![r] = OutcomesNow(decision, r)]
  /\ UNCHANGED <<storeVars, waiterVars, integrationVars, reply, externalVars>>

\* Unparsable, in conflict with what is registered, or the registry is down.
RefuseMention(r) ==
  /\ at[r] = "new"
  /\ Answer(r, "error", None)
  /\ UNCHANGED <<storeVars, registered, integrationVars, externalVars>>

\* There is a decision already: always a canonical answer.
Replay(r) ==
  /\ at[r] = "check"
  /\ Stored(r) # None
  /\ Answer(r, "canonical", Stored(r).outcome)
  /\ UNCHANGED <<storeVars, registered, integrationVars, externalVars>>

Consult(r) ==
  /\ at[r] = "check"
  /\ Stored(r) = None
  /\ InstanceOf[r] \notin Immediate
  /\ Waiter!GetOrCreate(r)
  /\ Goto(r, "publish")
  /\ UNCHANGED <<storeVars, registered, integrationVars, externalVars>>

\* Immediate provisional mode: the ERE is not consulted.
IssueAtOnce(r) ==
  /\ at[r] = "check"
  /\ Stored(r) = None
  /\ InstanceOf[r] \in Immediate
  /\ Issue(r)
  /\ UNCHANGED <<waiterVars, registered, integrationVars, externalVars>>

\* The request is in the ERE's list.
Publish(r) ==
  /\ at[r] = "publish"
  /\ Goto(r, "wait")
  /\ UNCHANGED <<storeVars, waiterVars, registered, integrationVars, externalVars>>

Wake(r) ==
  /\ at[r] = "wait"
  /\ Waiter!Event(r) \in rung
  /\ Goto(r, "read")
  /\ UNCHANGED <<storeVars, waiterVars, registered, integrationVars, externalVars>>

\* Mutant: a wait without a time budget.
TimeOutNever(r) ==
  /\ at[r] = "wait"
  /\ Waiter!Event(r) \in rung
  /\ Waiter!Abandon(r)
  /\ Goto(r, "read")
  /\ UNCHANGED <<storeVars, registered, integrationVars, externalVars>>

\* The time budget elapsed: one last read, the doorbell may have been lost.
TimeOut(r) ==
  /\ at[r] = "wait"
  /\ Waiter!Abandon(r)
  /\ Goto(r, "read")
  /\ UNCHANGED <<storeVars, registered, integrationVars, externalVars>>

ReadDecision(r) ==
  /\ at[r] = "read"
  /\ Stored(r) # None
  /\ Answer(r, "canonical", Stored(r).outcome)
  /\ UNCHANGED <<storeVars, registered, integrationVars, externalVars>>

\* Still no decision: the draft identifier is issued.
ReadNothing(r) ==
  /\ at[r] = "read"
  /\ Stored(r) = None
  /\ Issue(r)
  /\ UNCHANGED <<waiterVars, registered, integrationVars, externalVars>>

\* Mutant: a stale draft is answered like a stored one.
IssuedEvenStale(r) ==
  /\ at[r] = "store"
  /\ call[r].answer \in {"created", "replaced", "unchanged", "yielded", "stale"}
  /\ Answer(r, "provisional", call[r].got)
  /\ Register!Return(r)
  /\ UNCHANGED <<registered, integrationVars, externalVars>>

\* Mutant: the client is told the draft, not the decision that was returned.
IssuedDraft(r) ==
  /\ at[r] = "store"
  /\ call[r].answer \in {"created", "replaced", "unchanged", "yielded"}
  /\ Answer(r, "provisional", Draft)
  /\ Register!Return(r)
  /\ UNCHANGED <<registered, integrationVars, externalVars>>

\* Whatever decision store_decision returned, the answer says provisional.
Issued(r) ==
  /\ at[r] = "store"
  /\ call[r].answer \in {"created", "replaced", "unchanged", "yielded"}
  /\ Answer(r, "provisional", call[r].got)
  /\ Register!Return(r)
  /\ UNCHANGED <<registered, integrationVars, externalVars>>

IssuedStale(r) ==
  /\ at[r] = "store"
  /\ call[r].answer = "stale"
  /\ Register!Return(r)
  /\ Goto(r, "staleread")
  /\ UNCHANGED <<waiterVars, registered, integrationVars, externalVars>>

ReadAfterStale(r) ==
  /\ at[r] = "staleread"
  /\ IF Stored(r) # None THEN Answer(r, "canonical", Stored(r).outcome)
                         ELSE Answer(r, "error", None)
  /\ UNCHANGED <<storeVars, registered, integrationVars, externalVars>>

IssueFails(r) ==
  /\ at[r] = "store"
  /\ call[r].answer = "failed"
  /\ Answer(r, "error", None)
  /\ Register!Return(r)
  /\ UNCHANGED <<registered, integrationVars, externalVars>>

\* MongoDB or Redis fails under the request, outside store_decision.
Unavailable(r) ==
  /\ Fault
  /\ at[r] \in {"check", "publish", "read", "staleread"}
  /\ Answer(r, "error", None)
  /\ UNCHANGED <<storeVars, registered, integrationVars>>

-----------------------------------------------------------------------------
\* Requests that end without an answer of their own.  A store_decision in
\* progress is not awaited any more; it may still take effect.
EndAll(ended) ==
  /\ at' = [r \in Requests |-> IF r \in ended THEN "done" ELSE at[r]]
  /\ reply' = [r \in Requests |->
       IF r \in ended THEN Refused ELSE reply[r]]
  /\ UNCHANGED held

\* The bulk budget elapsed: all of the bulk fails, also what was resolved.
BulkTimeOut ==
  /\ \E r \in Bulk : at[r] # "done"
  /\ EndAll(Bulk)
  /\ Waiter!Release(Bulk, {r \in Bulk : at[r] = "wait"})
  /\ UNCHANGED <<storeVars, registered, integrationVars, externalVars>>

\* An instance dies and restarts: its requests, its events, its inbox and the
\* response in its hand are gone.
Crash(i) ==
  LET here == {r \in Requests : InstanceOf[r] = i}
  IN /\ Fault
     /\ EndAll({r \in here : at[r] \notin {"new", "done"}})
     /\ holding' = holding \ here
     /\ lingering' = {e \in lingering : e[1] # i}
     /\ rung' = {e \in rung : e[1] # i}
     /\ Finish(i)
     /\ inbox' = [inbox EXCEPT ![i] = {}]
     /\ UNCHANGED <<storeVars, registered, responses, subscribed>>

\* A call whose caller is gone ends unobserved.
Orphaned(w) ==
  \/ w \in Requests /\ at[w] = "done"
  \/ w \in Instances /\ (In(w, "idle") \/ In(w, "ended"))

EndUnobserved(w) ==
  /\ Orphaned(w)
  /\ Register!Return(w)
  /\ UNCHANGED <<waiterVars, registered, integrationVars, coordinatorVars, externalVars>>

-----------------------------------------------------------------------------
\* External: the ERE decides, solicited or not, when and what it likes; a
\* response carries the time at which it was decided.
EREResponds ==
  /\ sent < MaxResponses
  /\ \E m \in Response : m.time <= now /\ responses' = responses \union {m}
  /\ sent' = sent + 1
  /\ UNCHANGED <<storeVars, waiterVars, registered, integrator, notifyVars,
                 coordinatorVars, now, faults>>

\* External: time passes.
Tick ==
  /\ now < MaxTime
  /\ now' = now + 1
  /\ UNCHANGED <<storeVars, waiterVars, registered, integrationVars, coordinatorVars, sent, faults>>

Serve(r) ==
  \/ Replay(r) \/ Consult(r) \/ IssueAtOnce(r) \/ Publish(r) \/ Wake(r) \/ TimeOut(r)
  \/ ReadDecision(r) \/ ReadNothing(r)
  \/ Issued(r) \/ IssuedStale(r) \/ ReadAfterStale(r) \/ IssueFails(r)

StoreStep(w) ==
  /\ Register!TakeEffect(w)
  /\ held' = [r \in Requests |->
       IF at[r] \in {"new", "done"} THEN held[r] ELSE held[r] \union OutcomesNow(decision', r)]
  /\ UNCHANGED <<waiterVars, registered, integrationVars, at, reply, externalVars>>

StoreFails(w) ==
  /\ Register!Fail(w)
  /\ Fault
  /\ UNCHANGED <<waiterVars, registered, integrationVars, coordinatorVars>>

\* Without a restart of the instance only its peers integrate outcomes.
IntegratorEnds(i) == WorkerEnds(i) /\ Fault /\ UNCHANGED coordinatorVars

IntegratorStep(i) == Integrate(i) /\ UNCHANGED <<coordinatorVars, externalVars>>

NotifyStep(i) ==
  /\ RingFails(i) \/ Deliver(i) \/ Disconnect(i) \/ Resubscribe(i)
  /\ UNCHANGED <<coordinatorVars, externalVars>>

CollectEvent(e) ==
  /\ Waiter!Collect(e)
  /\ UNCHANGED <<storeVars, registered, integrationVars, coordinatorVars, externalVars>>

\* Requests, integrators and store, with doorbells lost at will, databases and
\* channels that fail, and crashes.
Next ==
  \/ \E r \in Requests : RegisterMention(r) \/ RefuseMention(r) \/ Serve(r)
  \/ \E w \in Writers : StoreStep(w) \/ EndUnobserved(w)
  \/ \E i \in Instances : IntegratorStep(i) \/ NotifyStep(i)
  \/ \E e \in Waiter!Events : CollectEvent(e)
  \/ BulkTimeOut
  \/ EREResponds
  \/ Tick
  \/ \E r \in Requests : Unavailable(r)
  \/ \E w \in Writers : StoreFails(w)
  \/ \E i \in Instances : IntegratorEnds(i) \/ Crash(i)

\* A request that has begun goes on, and so does an integrator: the event loop runs
\* what is ready, timers fire, and a database call returns or raises.
Progress ==
  /\ \A r \in Requests : WF_vars(Serve(r) \/ StoreStep(r))
  /\ \A i \in Instances : WF_vars(IntegratorStep(i) \/ StoreStep(i) \/ EndUnobserved(i))

Spec == Init /\ [][Next]_vars
FairSpec == Spec /\ Progress

-----------------------------------------------------------------------------
TypeOK ==
  /\ IntegrationTypeOK
  /\ at \in [Requests -> Steps]
  /\ reply \in [Requests -> Told \union {Refused, None}]
  /\ held \in [Requests -> SUBSET Outcomes]
  /\ now \in Times
  /\ sent \in 0..MaxResponses
  /\ faults \in 0..MaxFaults

\* The store is written before the doorbell: an event that is set, a notification
\* under way and an integrator about to ring all mean that there is a decision.
DoorbellMeansDecision ==
  /\ \A e \in rung : decision[e[2]] # None
  /\ \A i \in Instances : \A k \in inbox[i] : decision[k] # None
  /\ \A i \in Instances : In(i, "ring") => decision[InHand(i).key] # None

\* A client is told an outcome that the store held for its mention at some instant of
\* the request: never one that was only proposed, lost a race or was stale, nor one
\* that had been replaced before the request began.
ToldWasStored ==
  \A r \in Requests : reply[r] # None /\ reply[r].kind # "error" =>
    reply[r].outcome \in held[r]

\* Only registered mentions have decisions.
DecidedIsRegistered == \A k \in Keys : decision[k] # None => k \in registered

\* A resolve request that has begun is answered, whatever is lost or fails.
BegunIsAnswered == \A r \in Requests : at[r] = "check" ~> at[r] = "done"

\* The decision is what the response assigns, or one at least as recent.
Integrated(m) ==
  /\ decision[m.key] # None
  /\ \/ decision[m.key].outcome = m.outcome
     \/ Register!Boundary(decision[m.key]) >= m.time

\* store_decision was called when there was no decision, lost the race of the inserts,
\* and gave up the response whatever its time.
LostInsertRace(m) ==
  \E i \in Instances : /\ In(i, "store") /\ InHand(i) = m
                      /\ call[i].early /\ call[i].answer \in {"yielded", "stale"}

\* Until something fails, a valid response for a registered mention ends up in its
\* decision, also when there is a draft already, or gives way to a later one.  The
\* exception is the race of two inserts, of which the loser's response is dropped.
OutcomeIsIntegrated ==
  \A m \in {x \in Response : x.outcome # None} :
    m \in responses /\ m.key \in registered ~>
      Integrated(m) \/ LostInsertRace(m) \/ faults > 0

-----------------------------------------------------------------------------
\* What the documentation says of the system and the code does not keep.

\* README: the ERE determines canonical identity, ERS never overrides it.
EngineAuthoritative ==
  [][\A k \in Keys : decision[k] # None /\ decision[k].outcome # Draft =>
       decision'[k].outcome # Draft]_vars
=============================================================================
