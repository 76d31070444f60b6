---------------------- MODULE ResolutionCoordinatorProofs ----------------------
(***************************************************************************)
(* Theorems about ResolutionCoordinator, with its integrators, events and  *)
(* decision store, for every set of mentions, requests and instances.      *)
(***************************************************************************)
EXTENDS ResolutionCoordinator, TLAPS

\* The answers that return a decision.
Granted(c) == c.answer \in {"created", "replaced", "unchanged", "yielded"}

\* An answered call has met a decision, and returns what one assigned.
CallsMetDecisions ==
  \A w \in Writers : call[w] # None =>
    /\ Granted(call[w]) => call[w].got \in Outcomes /\ decision[call[w].key] # None
    /\ call[w].answer = "stale" => decision[call[w].key] # None

StoreOK == Register!RegisterTypeOK /\ CallsMetDecisions

\* Whose call it is: of a mention that is registered, of the request's own mention,
\* or of the response in the integrator's hand.
CallsAreOwned ==
  \A w \in Writers : call[w] # None =>
    /\ call[w].key \in registered
    /\ w \in Requests => call[w].key = KeyOf[w] /\ at[w] \in {"store", "done"}
    /\ w \in Instances /\ In(w, "store") => call[w].key = InHand(w).key

\* A request past its registration is for a registered mention.
BegunIsRegistered ==
  \A r \in Requests : at[r] \notin {"new", "done"} => KeyOf[r] \in registered

\* Between its registration and its end a request has seen, in the history, what the
\* store holds for its mention, and what its own call was granted.
Active(r) == at[r] \notin {"new", "done"}

HeldUpToNow ==
  \A r \in Requests :
    /\ Active(r) => OutcomesNow(decision, r) \subseteq held[r]
    /\ at[r] = "store" /\ call[r] # None /\ Granted(call[r]) => call[r].got \in held[r]

AnsweredAtEnd == \A r \in Requests : reply[r] # None => at[r] = "done"

HandFull ==
  \A i \in Instances : integrator[i].step \in {"check", "store", "ring"} => InHand(i) \in Response

-----------------------------------------------------------------------------
\* The steps of the decision store.
Invoked(w) == \E k \in Keys, o \in Outcomes, t \in Times : Register!Invoke(w, k, o, t)

LEMMA WritersCases == Writers = Instances \union Requests /\ Instances \intersect Requests = {}
  BY SitesAssumption DEF Writers

LEMMA AnswerGiven ==
  ASSUME Register!RegisterTypeOK, NEW w \in Writers, call[w] # None, NEW a \in Register!Answers,
         NEW o \in Outcomes \union {None}, Register!Answer(w, a, o)
  PROVE  /\ call' \in [Writers -> Register!Call \union {None}]
         /\ call'[w] # None /\ call'[w].answer = a /\ call'[w].got = o
         /\ call'[w].key = call[w].key
         /\ \A v \in Writers \ {w} : call'[v] = call[v]
  <1> DEFINE c == Register!Answered(call[w], a, o)
  <1>1. call[w] \in Register!Call
    BY DEF Register!RegisterTypeOK
  <1>2. c \in Register!Call /\ c.answer = a /\ c.got = o /\ c.key = call[w].key
    BY <1>1 DEF Register!Call, Register!Answered
  <1>3. call' = [call EXCEPT ![w] = c]
    BY DEF Register!Answer
  <1>4. c # None
    BY <1>2, NoneAssumption
  <1>. HIDE DEF c
  <1>. QED
    BY <1>2, <1>3, <1>4 DEF Register!RegisterTypeOK

\* Whatever call takes effect, no decision goes, and what it returns is the decision.
LEMMA EffectKeeps ==
  ASSUME StoreOK, NEW w \in Writers, Register!TakeEffect(w)
  PROVE  /\ StoreOK'
         /\ \A k \in Keys : decision[k] # None => decision'[k] # None
         /\ Granted(call'[w]) => /\ decision'[call[w].key] # None
                                 /\ decision'[call[w].key].outcome = call'[w].got
         /\ \A k \in Keys : decision'[k] # None => decision[k] # None \/ k = call[w].key
         /\ call'[w] # None /\ call'[w].key = call[w].key /\ call[w] # None
         /\ \A v \in Writers \ {w} : call'[v] = call[v]
  <1> DEFINE k == call[w].key
             o == call[w].outcome
             t == call[w].time
  <1>1. call[w] # None /\ call[w] \in Register!Call /\ k \in Keys /\ o \in Outcomes /\ t \in Times
    <2>1. call[w] # None
      BY DEF Register!TakeEffect, Register!Create, Register!Replace, Register!RejectStale,
         Register!KeepSame, Register!LoseInsertRace, Register!Pending
    <2>2. call[w] \in Register!Call
      BY <2>1 DEF StoreOK, Register!RegisterTypeOK
    <2>. QED
      BY <2>1, <2>2 DEF Register!Call
  <1>2. PICK a \in Register!Answers, g \in Outcomes \union {None} :
          /\ Register!Answer(w, a, g)
          /\ \/ /\ decision[k] = None /\ a = "created" /\ g = o
                /\ decision' = [decision EXCEPT ![k] = Register!Created(o, t)]
             \/ /\ decision[k] # None /\ a = "replaced" /\ g = o
                /\ decision' = [decision EXCEPT ![k] = Register!Replaced(decision[k], o, t)]
             \/ /\ decision[k] # None /\ decision' = decision
                /\ (a = "stale" /\ g = None) \/ (a \in {"unchanged", "yielded"} /\ g = decision[k].outcome)
    <2>1. CASE Register!Create(w)
      BY <1>1, <2>1 DEF Register!Create, Register!Answers
    <2>2. CASE Register!Replace(w)
      BY <1>1, <2>2 DEF Register!Replace, Register!Answers
    <2>3. CASE Register!RejectStale(w)
      BY <1>1, <2>3 DEF Register!RejectStale, Register!Answers
    <2>4. CASE Register!KeepSame(w)
      BY <1>1, <2>4 DEF Register!KeepSame, Register!Answers
    <2>5. CASE Register!LoseInsertRace(w)
      <3>1. decision[k] \in Register!Decision
        BY <1>1, <2>5 DEF Register!LoseInsertRace, StoreOK, Register!RegisterTypeOK
      <3>2. decision[k].outcome \in Outcomes
        BY <3>1 DEF Register!Decision
      <3>. QED
        BY <1>1, <2>5, <3>2 DEF Register!LoseInsertRace, Register!Answers
    <2>. QED
      BY <2>1, <2>2, <2>3, <2>4, <2>5 DEF Register!TakeEffect
  <1>3. /\ call' \in [Writers -> Register!Call \union {None}]
        /\ call'[w] # None /\ call'[w].answer = a /\ call'[w].got = g
        /\ call'[w].key = k /\ \A v \in Writers \ {w} : call'[v] = call[v]
    BY <1>1, <1>2, AnswerGiven DEF StoreOK
  <1>4. /\ decision' \in [Keys -> Register!Decision \union {None}]
        /\ \A j \in Keys \ {k} : decision'[j] = decision[j]
        /\ decision'[k] # None
        /\ \/ decision'[k] = decision[k] /\ a \notin {"created", "replaced"}
           \/ decision'[k].outcome = o /\ g = o
    <2>1. Register!Created(o, t) \in Register!Decision /\ Register!Created(o, t).outcome = o
      BY <1>1 DEF Register!Created, Register!Decision
    <2>2. ASSUME NEW d \in Register!Decision
          PROVE  LET e == Register!Replaced(d, o, t)
                 IN e \in Register!Decision /\ e.outcome = o
      BY <1>1 DEF Register!Replaced, Register!Decision
    <2>3. decision[k] # None => decision[k] \in Register!Decision
      BY <1>1 DEF StoreOK, Register!RegisterTypeOK
    <2>. QED
      BY <1>1, <1>2, <2>1, <2>2, <2>3, NoneAssumption DEF StoreOK, Register!RegisterTypeOK
  <1>5. \A j \in Keys : decision[j] # None => decision'[j] # None
    BY <1>4
  <1>6. CallsMetDecisions'
    <2> SUFFICES ASSUME NEW v \in Writers, call'[v] # None
                 PROVE  /\ Granted(call'[v]) => call'[v].got \in Outcomes /\ decision'[call'[v].key] # None
                        /\ call'[v].answer = "stale" => decision'[call'[v].key] # None
      BY DEF CallsMetDecisions
    <2>1. CASE v = w
      <3>1. decision'[k] # None
        BY <1>4
      <3>2. a \in {"created", "replaced"} => g = o /\ decision'[k].outcome = o
        BY <1>4
      <3>3. a \in {"unchanged", "yielded"} => g = decision'[k].outcome
        BY <1>2
      <3>4. a \in {"unchanged", "yielded"} => g \in Outcomes
        <4>1. decision'[k] \in Register!Decision
          BY <1>1, <1>4
        <4>. QED
          BY <3>3, <4>1 DEF Register!Decision
      <3>. QED
        BY <1>1, <1>3, <2>1, <3>1, <3>2, <3>3, <3>4 DEF Granted
    <2>2. CASE v # w
      <3>1. call'[v] = call[v] /\ call[v] \in Register!Call
        BY <1>3, <2>2 DEF StoreOK, Register!RegisterTypeOK
      <3>2. call[v].key \in Keys
        BY <3>1 DEF Register!Call
      <3>. QED
        BY <1>4, <1>5, <3>1, <3>2 DEF StoreOK, CallsMetDecisions
    <2>. QED
      BY <2>1, <2>2
  <1>7. Granted(call'[w]) => decision'[k].outcome = g
    BY <1>2, <1>3, <1>4 DEF Granted
  <1>. QED
    BY <1>1, <1>3, <1>4, <1>5, <1>6, <1>7 DEF StoreOK, Register!RegisterTypeOK

\* A call begins, fails or returns: no decision changes.
LEMMA InvokeKeeps ==
  ASSUME StoreOK, NEW w \in Writers, NEW k \in Keys, NEW o \in Outcomes, NEW t \in Times,
         Register!Invoke(w, k, o, t)
  PROVE  /\ StoreOK' /\ decision' = decision
         /\ call'[w] # None /\ call'[w].key = k /\ call'[w].answer = "pending"
         /\ \A v \in Writers \ {w} : call'[v] = call[v]
  <1> DEFINE c == [key |-> k, outcome |-> o, time |-> t, early |-> decision[k] = None,
                   answer |-> "pending", got |-> None]
  <1>1. c \in Register!Call /\ c.key = k /\ c.answer = "pending"
    <2>1. (decision[k] = None) \in BOOLEAN
      OBVIOUS
    <2>. QED
      BY <2>1 DEF Register!Call, Register!Answers
  <1>2. call' = [call EXCEPT ![w] = c] /\ decision' = decision
    BY DEF Register!Invoke
  <1>3. c # None
    BY <1>1, NoneAssumption
  <1>. HIDE DEF c
  <1>4. call'[w] = c /\ \A v \in Writers \ {w} : call'[v] = call[v]
    BY <1>2 DEF StoreOK, Register!RegisterTypeOK
  <1>5. Register!RegisterTypeOK'
    BY <1>1, <1>2 DEF StoreOK, Register!RegisterTypeOK
  <1>6. CallsMetDecisions'
    BY <1>1, <1>2, <1>4 DEF StoreOK, CallsMetDecisions, Granted
  <1>. QED
    BY <1>1, <1>2, <1>3, <1>4, <1>5, <1>6 DEF StoreOK

LEMMA FailKeeps ==
  ASSUME StoreOK, NEW w \in Writers, Register!Fail(w)
  PROVE  /\ StoreOK' /\ decision' = decision
         /\ call[w] # None /\ call'[w] # None /\ call'[w].key = call[w].key
         /\ call'[w].answer = "failed"
         /\ \A v \in Writers \ {w} : call'[v] = call[v]
  <1>1. "failed" \in Register!Answers
    BY DEF Register!Answers
  <1>2. /\ call' \in [Writers -> Register!Call \union {None}]
        /\ call'[w] # None /\ call'[w].answer = "failed" /\ call'[w].key = call[w].key
        /\ \A v \in Writers \ {w} : call'[v] = call[v]
    BY <1>1, AnswerGiven DEF Register!Fail, StoreOK
  <1>3. call[w] # None /\ decision' = decision
    BY DEF Register!Fail
  <1>4. CallsMetDecisions'
    BY <1>2, <1>3 DEF StoreOK, CallsMetDecisions, Granted
  <1>. QED
    BY <1>2, <1>3, <1>4 DEF StoreOK, Register!RegisterTypeOK

LEMMA ReturnKeeps ==
  ASSUME StoreOK, NEW w \in Writers, Register!Return(w)
  PROVE  /\ StoreOK' /\ decision' = decision
         /\ call'[w] = None /\ \A v \in Writers \ {w} : call'[v] = call[v]
  <1>1. /\ call' \in [Writers -> Register!Call \union {None}] /\ decision' = decision
        /\ call'[w] = None /\ \A v \in Writers \ {w} : call'[v] = call[v]
    BY DEF Register!Return, StoreOK, Register!RegisterTypeOK
  <1>2. CallsMetDecisions'
    BY <1>1 DEF StoreOK, CallsMetDecisions
  <1>. QED
    BY <1>1, <1>2 DEF StoreOK, Register!RegisterTypeOK

\* What the callers do to the store in a step: nothing, or one of them takes a step
\* of a call; a request invokes it for its mention, an integrator for the response in
\* its hand.
Taken(w) == Register!TakeEffect(w) \/ Register!Fail(w) \/ Register!Return(w)

InvokedFor(w) ==
  \E k \in Keys, o \in Outcomes, t \in Times :
    /\ Register!Invoke(w, k, o, t)
    /\ w \in Requests => k = KeyOf[w] /\ at[w] \in {"check", "read"} /\ at' = [at EXCEPT ![w] = "store"]
    /\ w \in Instances => /\ In(w, "check") /\ k = InHand(w).key /\ k \in registered
                          /\ Move(w, "store")

LEMMA StoreActs ==
  ASSUME TypeOK, HandFull, [Next]_vars
  PROVE  \/ UNCHANGED storeVars
         \/ \E w \in Writers : \/ StoreStep(w)
                              \/ Register!Fail(w) \/ Register!Return(w) \/ InvokedFor(w)
  <1>0. /\ \A r \in Requests : r \in Writers /\ r \notin Instances /\ KeyOf[r] \in Keys
        /\ \A i \in Instances : i \in Writers /\ i \notin Requests
        /\ Draft \in Outcomes /\ now \in Times
    BY SitesAssumption, WritersCases DEF Outcomes, TypeOK
  <1>1. ASSUME NEW r \in Requests, at[r] \in {"check", "read"}, Issue(r) PROVE InvokedFor(r)
    BY <1>0, <1>1 DEF Issue, Goto, InvokedFor
  <1>2. ASSUME NEW r \in Requests, Serve(r)
        PROVE  UNCHANGED storeVars \/ \E w \in Writers : Register!Return(w) \/ InvokedFor(w)
    BY <1>0, <1>1, <1>2 DEF Serve, Replay, Consult, IssueAtOnce, Publish, Wake, TimeOut, ReadDecision,
       ReadNothing, Issued, IssuedStale, ReadAfterStale, IssueFails
  <1>3. ASSUME NEW i \in Instances, StoreOutcome(i) PROVE InvokedFor(i)
    <2>1. InHand(i) \in Response /\ In(i, "check") /\ InHand(i).key \in registered
      BY <1>3 DEF StoreOutcome, HandFull, In
    <2>2. InHand(i).key \in Keys /\ InHand(i).outcome \in Outcomes /\ InHand(i).time \in Times
      BY <1>3, <2>1 DEF StoreOutcome, Response, Outcomes
    <2>. QED
      BY <1>0, <1>3, <2>1, <2>2 DEF StoreOutcome, InvokedFor
  <1>4. ASSUME NEW i \in Instances, Integrate(i)
        PROVE  UNCHANGED storeVars \/ \E w \in Writers : Register!Return(w) \/ InvokedFor(w)
    BY <1>0, <1>3, <1>4 DEF Integrate, Pull, RejectOutcome, OutcomeStored, OutcomeFailed, RingHere,
       RingPeers
  <1>5. CASE Next
    BY <1>0, <1>2, <1>4, <1>5 DEF Next, RegisterMention, RefuseMention, EndUnobserved,
       IntegratorStep, NotifyStep, RingFails, Deliver, Disconnect, Resubscribe, CollectEvent, BulkTimeOut,
       EREResponds, Tick, Unavailable, StoreFails, IntegratorEnds, WorkerEnds, Crash
  <1>6. CASE UNCHANGED vars
    BY <1>6 DEF vars
  <1>. QED
    BY <1>5, <1>6

LEMMA StoreMoves ==
  ASSUME TypeOK, HandFull, [Next]_vars
  PROVE  \/ UNCHANGED storeVars
         \/ \E w \in Writers : Taken(w) \/ InvokedFor(w)
  BY StoreActs DEF StoreStep, Taken

LEMMA StoreKept ==
  ASSUME TypeOK, CallsMetDecisions, HandFull, [Next]_vars
  PROVE  /\ StoreOK'
         /\ \A k \in Keys : decision[k] # None => decision'[k] # None
  <1>0. StoreOK
    BY DEF StoreOK, TypeOK, IntegrationTypeOK
  <1>1. CASE UNCHANGED storeVars
    BY <1>0, <1>1 DEF storeVars, StoreOK, CallsMetDecisions, Register!RegisterTypeOK
  <1>2. ASSUME NEW w \in Writers, Taken(w) \/ InvokedFor(w)
        PROVE  /\ StoreOK'
               /\ \A k \in Keys : decision[k] # None => decision'[k] # None
    <2>1. CASE Register!TakeEffect(w)
      BY <1>0, <2>1, EffectKeeps
    <2>2. CASE Register!Fail(w)
      BY <1>0, <2>2, FailKeeps
    <2>3. CASE Register!Return(w)
      BY <1>0, <2>3, ReturnKeeps
    <2>4. CASE InvokedFor(w)
      BY <1>0, <2>4, InvokeKeeps DEF InvokedFor
    <2>. QED
      BY <1>2, <2>1, <2>2, <2>3, <2>4 DEF Taken
  <1>. QED
    BY <1>1, <1>2, StoreMoves

-----------------------------------------------------------------------------
\* What is registered stays registered.
LEMMA RegisteredGrows ==
  ASSUME [Next]_vars
  PROVE  registered \subseteq registered'
  BY DEF Next, vars, RegisterMention, RefuseMention, Unavailable, Serve, Replay, Consult, IssueAtOnce,
     Publish, Wake, TimeOut, ReadDecision, ReadNothing, Issued, IssuedStale, ReadAfterStale,
     IssueFails, StoreStep, EndUnobserved, StoreFails, IntegratorStep, NotifyStep, Integrate, Pull,
     RejectOutcome, StoreOutcome, OutcomeStored, OutcomeFailed, RingHere, RingPeers, RingFails,
     Deliver, Disconnect, Resubscribe, CollectEvent, BulkTimeOut, EREResponds, Tick, IntegratorEnds,
     WorkerEnds, Crash

\* What a step does to one request ...
LEMMA RequestsAct ==
  ASSUME [Next]_vars
  PROVE  \/ \E q \in Requests : RegisterMention(q) \/ RefuseMention(q) \/ Unavailable(q) \/ Serve(q)
         \/ BulkTimeOut
         \/ \E i \in Instances : Crash(i)
         \/ UNCHANGED <<at, registered>>
  BY DEF Next, vars, coordinatorVars, StoreStep, EndUnobserved, IntegratorStep, NotifyStep,
     Integrate, Pull, RejectOutcome, StoreOutcome, OutcomeStored, OutcomeFailed, RingHere, RingPeers,
     RingFails, Deliver, Disconnect, Resubscribe, CollectEvent, EREResponds, Tick, StoreFails,
     IntegratorEnds, WorkerEnds

LEMMA RequestMoves ==
  ASSUME TypeOK, [Next]_vars, NEW r \in Requests
  PROVE  /\ at' \in [Requests -> Steps]
         /\ registered \subseteq registered' /\ registered' \subseteq Keys
         /\ at[r] = "done" => at'[r] = "done"
         /\ at[r] = "store" => at'[r] \in {"store", "done"} \/ Register!Return(r)
         /\ at'[r] \in {"new", "done"} \/ at[r] \notin {"new", "done"} \/ KeyOf[r] \in registered'
  <1>0. at \in [Requests -> Steps] /\ registered \subseteq Keys /\ KeyOf \in [Requests -> Keys]
    BY SitesAssumption DEF TypeOK, IntegrationTypeOK
  <1>1. ASSUME NEW q \in Requests, RegisterMention(q) \/ RefuseMention(q) \/ Unavailable(q)
        PROVE  /\ at' \in [Requests -> Steps]
               /\ registered \subseteq registered' /\ registered' \subseteq Keys
               /\ at[r] = "done" => at'[r] = "done"
               /\ at[r] = "store" => at'[r] \in {"store", "done"}
               /\ at'[r] \in {"new", "done"} \/ at[r] \notin {"new", "done"} \/ KeyOf[r] \in registered'
    BY <1>0, <1>1 DEF RegisterMention, RefuseMention, Unavailable, Goto, Answer, Steps
  <1>2. ASSUME NEW q \in Requests, Serve(q)
        PROVE  /\ at' \in [Requests -> Steps] /\ registered' = registered
               /\ at[r] = "done" => at'[r] = "done"
               /\ at[r] = "store" => at'[r] \in {"store", "done"} \/ Register!Return(r)
               /\ at'[r] \in {"new", "done"} \/ at[r] \notin {"new", "done"}
    <2>1. CASE Replay(q) \/ Consult(q) \/ IssueAtOnce(q) \/ Publish(q) \/ Wake(q) \/ TimeOut(q)
      BY <1>0, <2>1 DEF Replay, Consult, IssueAtOnce, Publish, Wake, TimeOut, Issue, Goto, Answer, Steps
    <2>2. CASE ReadDecision(q) \/ ReadNothing(q) \/ ReadAfterStale(q)
      BY <1>0, <2>2 DEF ReadDecision, ReadNothing, ReadAfterStale, Issue, Goto, Answer, Steps
    <2>3. CASE Issued(q) \/ IssuedStale(q) \/ IssueFails(q)
      BY <1>0, <2>3 DEF Issued, IssuedStale, IssueFails, Goto, Answer, Steps
    <2>. QED
      BY <1>2, <2>1, <2>2, <2>3 DEF Serve
  <1>3. CASE BulkTimeOut
    BY <1>0, <1>3 DEF BulkTimeOut, EndAll, Steps
  <1>4. ASSUME NEW i \in Instances, Crash(i)
        PROVE  /\ at' \in [Requests -> Steps] /\ registered' = registered
               /\ at[r] = "done" => at'[r] = "done"
               /\ at[r] = "store" => at'[r] \in {"store", "done"}
               /\ at'[r] \in {"new", "done"} \/ at[r] \notin {"new", "done"}
    BY <1>0, <1>4 DEF Crash, EndAll, Steps
  <1>5. CASE UNCHANGED <<at, registered>>
    BY <1>0, <1>5
  <1>. QED
    BY <1>0, <1>1, <1>2, <1>3, <1>4, <1>5, RequestsAct

\* ... and to one integrator.
LEMMA HandsAct ==
  ASSUME TypeOK, [Next]_vars
  PROVE  \/ UNCHANGED integrator /\ responses' \subseteq Response
         \/ \E j \in Instances : Integrate(j) \/ RingFails(j) \/ WorkerEnds(j) \/ Crash(j)
  <1>1. CASE UNCHANGED integrator
    <2>1. responses' \subseteq Response
      BY <1>1 DEF TypeOK, IntegrationTypeOK, Next, vars, integrationVars, RegisterMention, RefuseMention, Unavailable, Serve,
         Replay, Consult, IssueAtOnce, Publish, Wake, TimeOut, ReadDecision, ReadNothing, Issued,
         IssuedStale, ReadAfterStale, IssueFails, StoreStep, EndUnobserved, StoreFails,
         IntegratorStep, NotifyStep, Integrate, Pull, RejectOutcome, StoreOutcome, OutcomeStored,
         OutcomeFailed, RingHere, RingPeers, RingFails, Deliver, Disconnect, Resubscribe, CollectEvent,
         BulkTimeOut, EREResponds, Tick, IntegratorEnds, WorkerEnds, Crash
    <2>. QED
      BY <1>1, <2>1
  <1>2. \/ UNCHANGED integrator
        \/ \E j \in Instances : Integrate(j) \/ RingFails(j) \/ WorkerEnds(j) \/ Crash(j)
    BY DEF Next, vars, integrationVars, RegisterMention, RefuseMention, Unavailable, Serve, Replay,
       Consult, IssueAtOnce, Publish, Wake, TimeOut, ReadDecision, ReadNothing, Issued, IssuedStale,
       ReadAfterStale, IssueFails, StoreStep, EndUnobserved, StoreFails, IntegratorStep, NotifyStep,
       Deliver, Disconnect, Resubscribe, CollectEvent, BulkTimeOut, EREResponds, Tick, IntegratorEnds
  <1>. QED
    BY <1>1, <1>2

LEMMA HandMoves ==
  ASSUME TypeOK, [Next]_vars, NEW i \in Instances
  PROVE  /\ integrator' \in [Instances -> [step: {"idle", "check", "store", "ring", "ended"},
                                           of: Response \union {None}]]
         /\ responses' \subseteq Response
         /\ \/ integrator'[i] = integrator[i]
            \/ In(i, "idle")' \/ In(i, "ended")'
            \/ In(i, "check")' /\ InHand(i)' \in Response
            \/ In(i, "check") /\ In(i, "store")' /\ InHand(i)' = InHand(i) /\ StoreOutcome(i)
            \/ In(i, "store") /\ In(i, "ring")' /\ InHand(i)' = InHand(i) /\ OutcomeStored(i)
  <1> DEFINE Hand == [step: {"idle", "check", "store", "ring", "ended"}, of: Response \union {None}]
             Moved(j) == /\ integrator' \in [Instances -> Hand]
                         /\ \A h \in Instances \ {j} : integrator'[h] = integrator[h]
             Result(j) == \/ integrator'[j] = integrator[j]
                          \/ In(j, "idle")' \/ In(j, "ended")'
                          \/ In(j, "check")' /\ InHand(j)' \in Response
                          \/ In(j, "check") /\ In(j, "store")' /\ InHand(j)' = InHand(j) /\ StoreOutcome(j)
                          \/ In(j, "store") /\ In(j, "ring")' /\ InHand(j)' = InHand(j) /\ OutcomeStored(j)
  <1>0. integrator \in [Instances -> Hand] /\ responses \subseteq Response
    BY DEF TypeOK, IntegrationTypeOK
  <1>1. Idle \in Hand
    BY DEF Idle
  <1>2. ASSUME NEW j \in Instances, Finish(j) PROVE Moved(j) /\ Result(j)
    BY <1>0, <1>1, <1>2 DEF Finish, In, Idle
  <1>3. ASSUME NEW j \in Instances, NEW step \in {"store", "ring", "ended"}, Move(j, step)
        PROVE  /\ Moved(j) /\ integrator'[j].step = step /\ integrator'[j].of = integrator[j].of
    <2>1. [integrator[j] EXCEPT !.step = step] \in Hand
      BY <1>0
    <2>2. integrator' = [integrator EXCEPT ![j] = [integrator[j] EXCEPT !.step = step]]
      BY <1>3 DEF Move
    <2>. QED
      BY <1>0, <2>1, <2>2
  <1>4. ASSUME NEW j \in Instances, Pull(j)
        PROVE  Moved(j) /\ Result(j) /\ responses' \subseteq Response
    <2>1. PICK m \in responses : /\ responses' = responses \ {m}
                                 /\ integrator' = [integrator EXCEPT ![j] = [step |-> "check", of |-> m]]
      BY <1>4 DEF Pull
    <2>2. [step |-> "check", of |-> m] \in Hand /\ m \in Response
      BY <1>0, <2>1
    <2>. QED
      BY <1>0, <2>1, <2>2 DEF In, InHand
  <1>5. ASSUME NEW j \in Instances, Integrate(j) \/ RingFails(j) \/ WorkerEnds(j) \/ Crash(j)
        PROVE  Moved(j) /\ Result(j) /\ responses' \subseteq Response
    <2>1. CASE RejectOutcome(j) \/ OutcomeFailed(j) \/ RingHere(j) \/ RingPeers(j) \/ RingFails(j) \/ Crash(j)
      <3>1. Finish(j) /\ responses' = responses
        BY <2>1 DEF RejectOutcome, OutcomeFailed, RingHere, RingPeers, RingFails, Crash
      <3>. QED
        BY <1>0, <1>2, <3>1
    <2>2. CASE StoreOutcome(j) \/ OutcomeStored(j) \/ WorkerEnds(j)
      BY <1>0, <1>3, <2>2 DEF StoreOutcome, OutcomeStored, WorkerEnds, In, InHand
    <2>. QED
      BY <1>4, <1>5, <2>1, <2>2 DEF Integrate
  <1>6. CASE UNCHANGED integrator /\ responses' \subseteq Response
    BY <1>0, <1>6
  <1>. QED
    BY <1>5, <1>6, HandsAct

\* Also when there are no requests or no instances.
LEMMA RequestsTyped ==
  ASSUME TypeOK, [Next]_vars
  PROVE  at' \in [Requests -> Steps] /\ registered' \subseteq Keys
  <1>1. CASE Requests # {}
    BY <1>1, RequestMoves
  <1>2. CASE Requests = {}
    <2>0. at \in [Requests -> Steps] /\ registered \subseteq Keys
      BY DEF TypeOK, IntegrationTypeOK
    <2>1. ASSUME NEW ended, EndAll(ended) PROVE at' \in [Requests -> Steps]
      BY <1>2, <2>1 DEF EndAll
    <2>2. CASE BulkTimeOut
      BY <2>0, <2>1, <2>2 DEF BulkTimeOut
    <2>3. ASSUME NEW i \in Instances, Crash(i) PROVE at' \in [Requests -> Steps] /\ registered' \subseteq Keys
      BY <2>0, <2>1, <2>3 DEF Crash
    <2>. QED
      BY <1>2, <2>0, <2>2, <2>3, RequestsAct
  <1>. QED
    BY <1>1, <1>2

LEMMA HandsTyped ==
  ASSUME TypeOK, [Next]_vars
  PROVE  /\ integrator' \in [Instances -> [step: {"idle", "check", "store", "ring", "ended"},
                                           of: Response \union {None}]]
         /\ responses' \subseteq Response
  <1>1. CASE Instances # {}
    BY <1>1, HandMoves
  <1>2. CASE Instances = {}
    BY <1>2, HandsAct DEF TypeOK, IntegrationTypeOK
  <1>. QED
    BY <1>1, <1>2

LEMMA OwnedKept ==
  ASSUME TypeOK, CallsMetDecisions, HandFull, CallsAreOwned, BegunIsRegistered, [Next]_vars
  PROVE  CallsAreOwned' /\ BegunIsRegistered' /\ HandFull'
  <1>0. StoreOK
    BY DEF StoreOK, TypeOK, IntegrationTypeOK
  <1>4. registered \subseteq registered'
    BY RegisteredGrows
  <1>1. BegunIsRegistered'
    BY RequestMoves, SitesAssumption DEF BegunIsRegistered
  <1>2. HandFull'
    <2> SUFFICES ASSUME NEW i \in Instances, integrator'[i].step \in {"check", "store", "ring"}
                 PROVE  InHand(i)' \in Response
      BY DEF HandFull
    <2>1. \/ integrator'[i] = integrator[i]
          \/ In(i, "check")' /\ InHand(i)' \in Response
          \/ In(i, "check") /\ InHand(i)' = InHand(i)
          \/ In(i, "store") /\ InHand(i)' = InHand(i)
      BY HandMoves DEF In
    <2>. QED
      BY <2>1 DEF HandFull, In, InHand
  <1>3. ASSUME NEW w \in Writers, call'[w] = call[w], call[w] # None
        PROVE  /\ call'[w].key \in registered'
               /\ w \in Requests => call'[w].key = KeyOf[w] /\ at'[w] \in {"store", "done"}
               /\ w \in Instances /\ In(w, "store")' => call'[w].key = InHand(w)'.key
    <2>1. w \in Requests => /\ registered \subseteq registered'
                            /\ at'[w] \in {"store", "done"} \/ Register!Return(w)
      BY <1>3, RequestMoves DEF CallsAreOwned
    <2>2. ~Register!Return(w)
      BY <1>0, <1>3, ReturnKeeps
    <2>3. ASSUME w \in Instances, In(w, "store")'
          PROVE  In(w, "store") /\ InHand(w)' = InHand(w)
      <3>1. integrator'[w] = integrator[w] \/ StoreOutcome(w)
        BY <2>3, HandMoves DEF In
      <3>2. ~StoreOutcome(w)
        BY <1>3 DEF StoreOutcome, Register!Invoke
      <3>. QED
        BY <2>3, <3>1, <3>2 DEF In, InHand
    <2>. QED
      BY <1>3, <1>4, <2>1, <2>2, <2>3 DEF CallsAreOwned
  <1>5. ASSUME NEW w \in Writers, Taken(w), call'[w] # None
        PROVE  /\ call'[w].key \in registered'
               /\ w \in Requests => call'[w].key = KeyOf[w] /\ at'[w] \in {"store", "done"}
               /\ w \in Instances /\ In(w, "store")' => call'[w].key = InHand(w)'.key
    <2>1. call[w] # None /\ call'[w].key = call[w].key /\ ~Register!Return(w)
      BY <1>0, <1>5, EffectKeeps, FailKeeps, ReturnKeeps DEF Taken
    <2>2. w \in Requests => at'[w] \in {"store", "done"}
      BY <2>1, RequestMoves DEF CallsAreOwned
    <2>3. ASSUME w \in Instances, In(w, "store")'
          PROVE  In(w, "store") /\ InHand(w)' = InHand(w)
      <3>1. integrator'[w] = integrator[w] \/ StoreOutcome(w)
        BY <2>3, HandMoves DEF In
      <3>2. ~StoreOutcome(w)
        BY <2>1 DEF StoreOutcome, Register!Invoke
      <3>. QED
        BY <2>3, <3>1, <3>2 DEF In, InHand
    <2>. QED
      BY <1>4, <2>1, <2>2, <2>3 DEF CallsAreOwned
  <1>6. ASSUME NEW w \in Writers, InvokedFor(w)
        PROVE  /\ call'[w].key \in registered'
               /\ w \in Requests => call'[w].key = KeyOf[w] /\ at'[w] \in {"store", "done"}
               /\ w \in Instances /\ In(w, "store")' => call'[w].key = InHand(w)'.key
    <2>1. PICK k \in Keys, o \in Outcomes, t \in Times :
            /\ Register!Invoke(w, k, o, t)
            /\ w \in Requests => /\ k = KeyOf[w] /\ at[w] \in {"check", "read"}
                                 /\ at' = [at EXCEPT ![w] = "store"]
            /\ w \in Instances => /\ In(w, "check") /\ k = InHand(w).key /\ k \in registered
                                  /\ Move(w, "store")
      BY <1>6 DEF InvokedFor
    <2>2. call'[w].key = k
      BY <1>0, <2>1, InvokeKeeps
    <2>3. w \in Requests => k \in registered /\ at'[w] = "store"
      BY <2>1 DEF BegunIsRegistered, TypeOK
    <2>4. w \in Instances => InHand(w)' = InHand(w)
      BY <2>1 DEF Move, InHand, TypeOK, IntegrationTypeOK
    <2>5. w \in Requests \/ w \in Instances
      BY WritersCases
    <2>. QED
      BY <1>4, <2>1, <2>2, <2>3, <2>4, <2>5
  <1>7. ASSUME NEW w \in Writers, call'[w] # None, call'[w] # call[w]
        PROVE  Taken(w) \/ InvokedFor(w)
    <2>1. ASSUME NEW v \in Writers, Taken(v) \/ InvokedFor(v) PROVE \A u \in Writers \ {v} : call'[u] = call[u]
      BY <1>0, <2>1, EffectKeeps, FailKeeps, ReturnKeeps, InvokeKeeps DEF Taken, InvokedFor
    <2>. QED
      BY <1>7, <2>1, StoreMoves DEF storeVars
  <1>. QED
    BY <1>1, <1>2, <1>3, <1>5, <1>6, <1>7 DEF CallsAreOwned

-----------------------------------------------------------------------------
\* An event that is set was set before, or is rung by an integrator or for a
\* notification.
Rung(e) == \/ e \in rung
           \/ \E i \in Instances : In(i, "ring") /\ e = <<i, InHand(i).key>>
           \/ \E i \in Instances : \E k \in inbox[i] : e = <<i, k>>

LEMMA ReferKeeps ==
  ASSUME Waiter!WaiterTypeOK, NEW h \in SUBSET Requests, NEW l \in SUBSET Waiter!Events, Waiter!Refer(h, l)
  PROVE  Waiter!WaiterTypeOK' /\ rung' \subseteq rung
  BY DEF Waiter!WaiterTypeOK, Waiter!Refer

LEMMA NotifyKeeps ==
  ASSUME Waiter!WaiterTypeOK, NEW e, Waiter!Notify(e)
  PROVE  Waiter!WaiterTypeOK' /\ rung' \subseteq rung \union {e}
  <1>1. Waiter!Live(e) => e \in Waiter!Events
    BY DEF Waiter!WaiterTypeOK, Waiter!Live, Waiter!Events, Waiter!Event
  <1>. QED
    BY <1>1 DEF Waiter!WaiterTypeOK, Waiter!Notify

LEMMA EventsKept ==
  ASSUME TypeOK, [Next]_vars
  PROVE  Waiter!WaiterTypeOK' /\ \A e \in rung' : Rung(e)
  <1> DEFINE Kind == Waiter!WaiterTypeOK' /\ rung' \subseteq rung
  <1>0. Waiter!WaiterTypeOK /\ \A r \in Requests : Waiter!Event(r) \in Waiter!Events
    BY DEF TypeOK, IntegrationTypeOK, Waiter!Events, Waiter!Event
  <1>1. ASSUME NEW r \in Requests, Waiter!GetOrCreate(r) PROVE Kind
    BY <1>0, <1>1, ReferKeeps DEF Waiter!GetOrCreate, Waiter!WaiterTypeOK
  <1>2. ASSUME NEW r \in Requests, Waiter!Abandon(r) PROVE Kind
    BY <1>0, <1>2, ReferKeeps DEF Waiter!Abandon, Waiter!WaiterTypeOK
  <1>3. ASSUME NEW ended \in SUBSET Requests, NEW waiting \in SUBSET Requests,
               Waiter!Release(ended, waiting)
        PROVE  Kind
    <2>1. holding \ ended \in SUBSET Requests
      BY <1>0 DEF Waiter!WaiterTypeOK
    <2>2. lingering \union {Waiter!Event(r) : r \in ended \intersect waiting} \in SUBSET Waiter!Events
      BY <1>0 DEF Waiter!WaiterTypeOK
    <2>. QED
      BY <1>0, <1>3, <2>1, <2>2, ReferKeeps DEF Waiter!Release
  <1>4. ASSUME NEW e \in Waiter!Events, Waiter!Collect(e) PROVE Kind
    BY <1>0, <1>4, ReferKeeps DEF Waiter!Collect, Waiter!WaiterTypeOK
  <1>5. ASSUME NEW r \in Requests, NEW kind, NEW o, Answer(r, kind, o) PROVE Kind
    BY <1>3, <1>5 DEF Answer
  <1>6. ASSUME UNCHANGED waiterVars PROVE Kind
    BY <1>0, <1>6 DEF waiterVars, Waiter!WaiterTypeOK
  <1>7. ASSUME NEW r \in Requests, RegisterMention(r) \/ RefuseMention(r) \/ Unavailable(r) \/ Serve(r)
        PROVE  Kind
    <2>1. CASE RefuseMention(r) \/ Unavailable(r) \/ Replay(r) \/ ReadDecision(r) \/ Issued(r) \/ IssueFails(r)
      BY <1>5, <2>1 DEF RefuseMention, Unavailable, Replay, ReadDecision, Issued, IssueFails
    <2>2. CASE Consult(r) \/ TimeOut(r)
      BY <1>1, <1>2, <2>2 DEF Consult, TimeOut
    <2>3. CASE ReadAfterStale(r) /\ \E kind, o : Answer(r, kind, o)
      BY <1>5, <2>3
    <2>4. ReadAfterStale(r) => \E kind, o : Answer(r, kind, o)
      BY DEF ReadAfterStale
    <2>5. CASE RegisterMention(r) \/ IssueAtOnce(r) \/ Publish(r) \/ Wake(r) \/ ReadNothing(r) \/ IssuedStale(r)
      BY <1>6, <2>5 DEF RegisterMention, IssueAtOnce, Publish, Wake, ReadNothing, IssuedStale
    <2>. QED
      BY <1>7, <2>1, <2>2, <2>3, <2>4, <2>5 DEF Serve
  <1>8. ASSUME BulkTimeOut PROVE Kind
    <2>1. Bulk \in SUBSET Requests /\ {r \in Bulk : at[r] = "wait"} \in SUBSET Requests
      BY CoordinatorAssumption
    <2>. QED
      BY <1>3, <1>8, <2>1 DEF BulkTimeOut
  <1>9. ASSUME NEW i \in Instances, Crash(i) PROVE Kind
    BY <1>0, <1>9 DEF Crash, Waiter!WaiterTypeOK
  <1>10. ASSUME NEW i \in Instances, RingHere(i)
         PROVE  Waiter!WaiterTypeOK' /\ \A e \in rung' : Rung(e)
    BY <1>0, <1>10, NotifyKeeps DEF RingHere, Rung
  <1>11. ASSUME NEW i \in Instances, Deliver(i)
         PROVE  Waiter!WaiterTypeOK' /\ \A e \in rung' : Rung(e)
    <2>1. PICK k \in inbox[i] : Waiter!Notify(<<i, k>>)
      BY <1>11 DEF Deliver
    <2>. QED
      BY <1>0, <2>1, NotifyKeeps DEF Rung
  <1>12. \/ \E r \in Requests : RegisterMention(r) \/ RefuseMention(r) \/ Unavailable(r) \/ Serve(r)
         \/ BulkTimeOut
         \/ \E i \in Instances : Crash(i) \/ RingHere(i) \/ Deliver(i)
         \/ \E e \in Waiter!Events : Waiter!Collect(e)
         \/ UNCHANGED waiterVars
    BY DEF Next, vars, StoreStep, EndUnobserved, StoreFails, IntegratorStep, NotifyStep, Integrate, Pull,
       RejectOutcome, StoreOutcome, OutcomeStored, OutcomeFailed, RingPeers, RingFails, Disconnect,
       Resubscribe, CollectEvent, EREResponds, Tick, IntegratorEnds, WorkerEnds
  <1>13. Kind => Waiter!WaiterTypeOK' /\ \A e \in rung' : Rung(e)
    BY DEF Rung
  <1>. QED
    BY <1>4, <1>6, <1>7, <1>8, <1>9, <1>10, <1>11, <1>12, <1>13

\* A notification in an inbox was there, or comes from an integrator that rings.
LEMMA InboxesKept ==
  ASSUME TypeOK, HandFull, [Next]_vars
  PROVE  /\ inbox' \in [Instances -> SUBSET Keys] /\ subscribed' \subseteq Instances
         /\ \A i \in Instances : \A k \in inbox'[i] :
              k \in inbox[i] \/ \E j \in Instances : In(j, "ring") /\ k = InHand(j).key
  <1>0. inbox \in [Instances -> SUBSET Keys] /\ subscribed \subseteq Instances
    BY DEF TypeOK, IntegrationTypeOK
  <1>1. ASSUME NEW j \in Instances, RingPeers(j)
        PROVE  /\ inbox' \in [Instances -> SUBSET Keys] /\ subscribed' = subscribed
               /\ \A i \in Instances : \A k \in inbox'[i] : k \in inbox[i] \/ k = InHand(j).key
               /\ In(j, "ring")
    <2>1. InHand(j).key \in Keys
      BY <1>1 DEF RingPeers, HandFull, In, Response
    <2>. QED
      BY <1>0, <1>1, <2>1 DEF RingPeers
  <1>2. ASSUME NEW j \in Instances, Deliver(j) \/ Disconnect(j) \/ Resubscribe(j) \/ Crash(j)
        PROVE  /\ inbox' \in [Instances -> SUBSET Keys] /\ subscribed' \subseteq Instances
               /\ \A i \in Instances : inbox'[i] \subseteq inbox[i]
    BY <1>0, <1>2 DEF Deliver, Disconnect, Resubscribe, Crash
  <1>3. \/ \E j \in Instances : RingPeers(j) \/ Deliver(j) \/ Disconnect(j) \/ Resubscribe(j) \/ Crash(j)
        \/ UNCHANGED notifyVars
    BY DEF Next, vars, integrationVars, notifyVars, RegisterMention, RefuseMention, Unavailable, Serve,
       Replay, Consult, IssueAtOnce, Publish, Wake, TimeOut, ReadDecision, ReadNothing, Issued,
       IssuedStale, ReadAfterStale, IssueFails, StoreStep, EndUnobserved, StoreFails, IntegratorStep,
       NotifyStep, Integrate, Pull, RejectOutcome, StoreOutcome, OutcomeStored, OutcomeFailed, RingHere,
       RingFails, CollectEvent, BulkTimeOut, EREResponds, Tick, IntegratorEnds, WorkerEnds
  <1>4. CASE UNCHANGED notifyVars
    BY <1>0, <1>4 DEF notifyVars
  <1>. QED
    BY <1>0, <1>1, <1>2, <1>3, <1>4

\* An answer ends the request.  It says that the request was refused, or what the store
\* held when it was read, or what a call was granted.
LEMMA RepliesMove ==
  ASSUME TypeOK, [Next]_vars
  PROVE  /\ reply' = [r \in Requests |-> reply'[r]]
         /\ \A r \in Requests :
              \/ reply'[r] = reply[r]
              \/ at'[r] = "done" /\ reply'[r] = Refused
              \/ /\ at'[r] = "done" /\ Active(r) /\ Stored(r) # None
                 /\ reply'[r] = [kind |-> "canonical", outcome |-> Stored(r).outcome]
              \/ /\ at'[r] = "done" /\ at[r] = "store" /\ call[r] # None /\ Granted(call[r])
                 /\ reply'[r] = [kind |-> "provisional", outcome |-> call[r].got]
  <1> DEFINE Said(r, x) ==
               \/ x = Refused
               \/ Active(r) /\ Stored(r) # None /\ x = [kind |-> "canonical", outcome |-> Stored(r).outcome]
               \/ /\ at[r] = "store" /\ call[r] # None /\ Granted(call[r])
                  /\ x = [kind |-> "provisional", outcome |-> call[r].got]
             Goal == /\ reply' = [r \in Requests |-> reply'[r]]
                     /\ \A r \in Requests : reply'[r] = reply[r] \/ (at'[r] = "done" /\ Said(r, reply'[r]))
  <1>0. reply = [r \in Requests |-> reply[r]] /\ at = [r \in Requests |-> at[r]]
    BY DEF TypeOK
  <1>1. ASSUME NEW r \in Requests, NEW kind, NEW o, Answer(r, kind, o), Said(r, [kind |-> kind, outcome |-> o])
        PROVE  Goal
    <2> DEFINE x == [kind |-> kind, outcome |-> o]
    <2>1. reply' = [reply EXCEPT ![r] = x] /\ at' = [at EXCEPT ![r] = "done"]
      BY <1>1 DEF Answer
    <2>2. Said(r, x)
      BY <1>1
    <2>3. /\ reply' = [q \in Requests |-> IF q = r THEN x ELSE reply[q]]
          /\ at'[r] = "done"
      BY <1>0, <2>1
    <2>. HIDE DEF x, Said
    <2>. QED
      BY <2>2, <2>3
  <1>2. ASSUME NEW r \in Requests, RegisterMention(r) \/ RefuseMention(r) \/ Unavailable(r) \/ Serve(r),
               reply' # reply
        PROVE  Goal
    <2>1. CASE RefuseMention(r) \/ Unavailable(r) \/ IssueFails(r)
      BY <1>1, <2>1 DEF RefuseMention, Unavailable, IssueFails, Refused
    <2>2. CASE Replay(r) \/ ReadDecision(r)
      BY <1>1, <2>2 DEF Replay, ReadDecision, Active
    <2>3. CASE ReadAfterStale(r)
      BY <1>1, <2>3 DEF ReadAfterStale, Refused, Active
    <2>4. CASE Issued(r)
      BY <1>1, <2>4 DEF Issued, Register!Return, Granted
    <2>. QED
      BY <1>2, <2>1, <2>2, <2>3, <2>4 DEF Serve, RegisterMention, Consult, IssueAtOnce, Publish, Wake,
         TimeOut, ReadNothing, IssuedStale, Issue, Goto
  <1>3. ASSUME NEW ended, EndAll(ended) PROVE Goal
    <2>1. /\ reply' = [r \in Requests |-> IF r \in ended THEN Refused ELSE reply[r]]
          /\ at' = [r \in Requests |-> IF r \in ended THEN "done" ELSE at[r]]
      BY <1>3 DEF EndAll
    <2>2. \A r \in Requests : (at'[r] = "done" /\ reply'[r] = Refused) \/ reply'[r] = reply[r]
      BY <2>1
    <2>. QED
      BY <2>1, <2>2
  <1>4. ASSUME reply' = reply PROVE Goal
    BY <1>0, <1>4
  <1>5. \/ reply' = reply
        \/ \E r \in Requests : RegisterMention(r) \/ RefuseMention(r) \/ Unavailable(r) \/ Serve(r)
        \/ \E ended : EndAll(ended)
    BY DEF Next, vars, coordinatorVars, StoreStep, EndUnobserved, StoreFails, IntegratorStep, NotifyStep,
       Deliver, Disconnect, Resubscribe, RingFails, CollectEvent, BulkTimeOut, EREResponds, Tick,
       IntegratorEnds, Crash
  <1>. HIDE DEF Said
  <1>6. Goal
    BY <1>2, <1>3, <1>4, <1>5
  <1>. QED
    BY <1>6 DEF Said

LEMMA AnsweredKept ==
  ASSUME TypeOK, AnsweredAtEnd, [Next]_vars
  PROVE  AnsweredAtEnd'
  BY RepliesMove, RequestMoves DEF AnsweredAtEnd

\* The history grows when a call takes effect and begins when a request registers; in
\* every other step no decision changes, and no request becomes active.
LEMMA HistoryMoves ==
  ASSUME TypeOK, CallsMetDecisions, HandFull, [Next]_vars
  PROVE  \/ \E w \in Writers : StoreStep(w)
         \/ \E q \in Requests : RegisterMention(q)
         \/ /\ held' = held /\ decision' = decision
            /\ \A r \in Requests : Active(r)' => Active(r)
            /\ \A w \in Writers : call'[w] # None /\ Granted(call'[w]) => call'[w] = call[w]
  <1>0. at \in [Requests -> Steps] /\ StoreOK
    BY DEF TypeOK, IntegrationTypeOK, StoreOK
  <1> DEFINE Still == held' = held /\ \A r \in Requests : Active(r)' => Active(r)
  <1>1. ASSUME NEW q \in Requests, RefuseMention(q) \/ Unavailable(q) PROVE Still
    BY <1>0, <1>1 DEF RefuseMention, Unavailable, Answer, Active
  <1>2. ASSUME NEW q \in Requests, Serve(q) PROVE Still
    <2>1. CASE Replay(q) \/ Consult(q) \/ IssueAtOnce(q) \/ Publish(q) \/ Wake(q) \/ TimeOut(q)
      BY <1>0, <2>1 DEF Replay, Consult, IssueAtOnce, Publish, Wake, TimeOut, Issue, Goto, Answer, Active
    <2>2. CASE ReadDecision(q) \/ ReadNothing(q) \/ ReadAfterStale(q)
      BY <1>0, <2>2 DEF ReadDecision, ReadNothing, ReadAfterStale, Issue, Goto, Answer, Active
    <2>3. CASE Issued(q) \/ IssuedStale(q) \/ IssueFails(q)
      BY <1>0, <2>3 DEF Issued, IssuedStale, IssueFails, Goto, Answer, Active
    <2>. QED
      BY <1>2, <2>1, <2>2, <2>3 DEF Serve
  <1>3. ASSUME NEW ended, EndAll(ended) PROVE Still
    BY <1>0, <1>3 DEF EndAll, Active
  <1>4. ASSUME UNCHANGED <<at, held>> PROVE Still
    BY <1>4 DEF Active
  <1>5. \/ \E w \in Writers : StoreStep(w)
        \/ \E q \in Requests : RegisterMention(q)
        \/ Still
    <2>1. \/ \E w \in Writers : StoreStep(w)
          \/ \E q \in Requests : RegisterMention(q) \/ RefuseMention(q) \/ Unavailable(q) \/ Serve(q)
          \/ \E ended : EndAll(ended)
          \/ UNCHANGED <<at, held>>
      BY DEF Next, vars, coordinatorVars, EndUnobserved, IntegratorStep, NotifyStep, CollectEvent,
         BulkTimeOut, EREResponds, Tick, StoreFails, IntegratorEnds, Crash
    <2>. HIDE DEF Still
    <2>. QED
      BY <1>1, <1>2, <1>3, <1>4, <2>1
  <1>6. \/ \E w \in Writers : StoreStep(w)
        \/ UNCHANGED storeVars
        \/ \E w \in Writers : Register!Fail(w) \/ Register!Return(w) \/ InvokedFor(w)
    BY StoreActs
  <1>7. ASSUME NEW w \in Writers, Register!Fail(w) \/ Register!Return(w) \/ InvokedFor(w)
        PROVE  /\ decision' = decision
               /\ \A v \in Writers : call'[v] # None /\ Granted(call'[v]) => call'[v] = call[v]
    <2>1. CASE Register!Fail(w)
      <3>1. call'[w].answer = "failed"
        BY <1>0, <2>1, FailKeeps
      <3>. QED
        BY <1>0, <2>1, <3>1, FailKeeps DEF Granted
    <2>2. CASE Register!Return(w)
      BY <1>0, <2>2, ReturnKeeps
    <2>3. CASE InvokedFor(w)
      <3>1. call'[w].answer = "pending"
        BY <1>0, <2>3, InvokeKeeps DEF InvokedFor
      <3>. QED
        BY <1>0, <2>3, <3>1, InvokeKeeps DEF InvokedFor, Granted
    <2>. QED
      BY <1>7, <2>1, <2>2, <2>3
  <1>. QED
    BY <1>5, <1>6, <1>7 DEF storeVars

LEMMA HistoryKept ==
  ASSUME TypeOK, CallsMetDecisions, HandFull, CallsAreOwned, HeldUpToNow, [Next]_vars
  PROVE  held' \in [Requests -> SUBSET Outcomes] /\ HeldUpToNow'
  <1>0. /\ StoreOK /\ StoreOK' /\ held \in [Requests -> SUBSET Outcomes]
        /\ at \in [Requests -> Steps]
        /\ \A r \in Requests : r \in Writers /\ KeyOf[r] \in Keys
    BY StoreKept, WritersCases, SitesAssumption DEF StoreOK, TypeOK, IntegrationTypeOK
  <1>1. \A r \in Requests : OutcomesNow(decision, r) \subseteq Outcomes
                          /\ OutcomesNow(decision', r) \subseteq Outcomes
    BY <1>0 DEF OutcomesNow, StoreOK, Register!RegisterTypeOK, Register!Decision
  <1>2. ASSUME NEW w \in Writers, StoreStep(w)
        PROVE  held' \in [Requests -> SUBSET Outcomes] /\ HeldUpToNow'
    <2>1. /\ held' = [r \in Requests |->
               IF at[r] \in {"new", "done"} THEN held[r] ELSE held[r] \union OutcomesNow(decision', r)]
          /\ at' = at /\ Register!TakeEffect(w)
      BY <1>2 DEF StoreStep
    <2>2. held' \in [Requests -> SUBSET Outcomes]
      BY <1>0, <1>1, <2>1
    <2>3. ASSUME NEW r \in Requests, Active(r) PROVE OutcomesNow(decision', r) \subseteq held'[r]
      BY <2>1, <2>3 DEF Active
    <2>4. ASSUME NEW r \in Requests, at[r] = "store", call'[r] # None, Granted(call'[r])
          PROVE  call'[r].got \in held'[r]
      <3>1. CASE r = w
        <4>1. /\ call[r] # None /\ decision'[call[r].key] # None
              /\ decision'[call[r].key].outcome = call'[r].got
          BY <1>0, <2>1, <2>4, <3>1, EffectKeeps
        <4>2. call[r].key = KeyOf[r]
          BY <1>0, <4>1 DEF CallsAreOwned
        <4>. QED
          BY <2>3, <2>4, <4>1, <4>2 DEF Active, OutcomesNow
      <3>2. CASE r # w
        <4>1. call'[r] = call[r]
          BY <1>0, <2>1, <3>2, EffectKeeps
        <4>2. call[r].got \in held[r]
          BY <2>4, <4>1 DEF HeldUpToNow
        <4>. QED
          BY <2>1, <4>1, <4>2
      <3>. QED
        BY <3>1, <3>2
    <2>. QED
      BY <2>1, <2>2, <2>3, <2>4 DEF HeldUpToNow, Active
  <1>3. ASSUME NEW q \in Requests, RegisterMention(q)
        PROVE  held' \in [Requests -> SUBSET Outcomes] /\ HeldUpToNow'
    <2>1. /\ held' = [held EXCEPT ![q] = OutcomesNow(decision, q)]
          /\ at' = [at EXCEPT ![q] = "check"] /\ decision' = decision /\ call' = call
      BY <1>3 DEF RegisterMention, storeVars
    <2>2. held' \in [Requests -> SUBSET Outcomes]
      BY <1>0, <1>1, <2>1
    <2>3. ASSUME NEW r \in Requests
          PROVE  /\ Active(r)' => OutcomesNow(decision', r) \subseteq held'[r]
                 /\ at'[r] = "store" /\ call'[r] # None /\ Granted(call'[r]) => call'[r].got \in held'[r]
      <3>1. CASE r = q
        BY <1>0, <2>1, <3>1
      <3>2. CASE r # q
        BY <1>0, <2>1, <3>2 DEF HeldUpToNow, Active
      <3>. QED
        BY <3>1, <3>2
    <2>. QED
      BY <2>2, <2>3 DEF HeldUpToNow
  <1>4. ASSUME held' = held, decision' = decision,
               \A r \in Requests : Active(r)' => Active(r),
               \A w \in Writers : call'[w] # None /\ Granted(call'[w]) => call'[w] = call[w]
        PROVE  held' \in [Requests -> SUBSET Outcomes] /\ HeldUpToNow'
    <2>1. ASSUME NEW r \in Requests, at'[r] = "store", call'[r] # None, Granted(call'[r])
          PROVE  call'[r].got \in held'[r]
      <3>1. call'[r] = call[r]
        BY <1>0, <1>4, <2>1
      <3>2. at[r] \in {"store", "done"}
        BY <1>0, <2>1, <3>1 DEF CallsAreOwned
      <3>3. at[r] = "store"
        BY <2>1, <3>2, RequestMoves
      <3>. QED
        BY <1>4, <2>1, <3>1, <3>3 DEF HeldUpToNow
    <2>. QED
      BY <1>0, <1>4, <2>1 DEF HeldUpToNow, OutcomesNow
  <1>. QED
    BY <1>2, <1>3, <1>4, HistoryMoves

\* What is told was held: it is what the store holds when it is read, and in the
\* history then, or what the request's call was granted, and in the history since.
LEMMA ToldKept ==
  ASSUME TypeOK, CallsMetDecisions, HandFull, CallsAreOwned, HeldUpToNow, AnsweredAtEnd,
         ToldWasStored, [Next]_vars
  PROVE  reply' \in [Requests -> Told \union {Refused, None}] /\ ToldWasStored'
  <1>0. /\ reply \in [Requests -> Told \union {Refused, None}]
        /\ held \in [Requests -> SUBSET Outcomes]
        /\ at \in [Requests -> Steps]
    BY DEF TypeOK
  <1>1. ASSUME NEW r \in Requests
        PROVE  /\ reply'[r] \in Told \union {Refused, None}
               /\ reply'[r] # None /\ reply'[r].kind # "error" => reply'[r].outcome \in held[r]
    <2>1. CASE reply'[r] = reply[r]
      BY <1>0, <2>1 DEF ToldWasStored
    <2>2. CASE reply'[r] = Refused
      BY <2>2 DEF Refused
    <2>3. CASE /\ Active(r) /\ Stored(r) # None
               /\ reply'[r] = [kind |-> "canonical", outcome |-> Stored(r).outcome]
      <3>1. Stored(r).outcome \in held[r]
        BY <2>3 DEF HeldUpToNow, OutcomesNow, Stored
      <3>. QED
        BY <1>0, <2>3, <3>1 DEF Told
    <2>4. CASE /\ at[r] = "store" /\ call[r] # None /\ Granted(call[r])
               /\ reply'[r] = [kind |-> "provisional", outcome |-> call[r].got]
      <3>1. call[r].got \in held[r]
        BY <2>4 DEF HeldUpToNow
      <3>. QED
        BY <1>0, <2>4, <3>1 DEF Told
    <2>. QED
      BY <2>1, <2>2, <2>3, <2>4, RepliesMove
  <1>2. reply' \in [Requests -> Told \union {Refused, None}]
    BY <1>1, RepliesMove
  <1>3. ToldWasStored'
    <2>1. ASSUME NEW w \in Writers, StoreStep(w) PROVE \A r \in Requests : held[r] \subseteq held'[r]
      BY <2>1 DEF StoreStep
    <2>2. ASSUME NEW q \in Requests, RegisterMention(q)
          PROVE  \A r \in Requests : reply'[r] # None => held'[r] = held[r]
      <3>1. reply' = reply /\ at[q] = "new" /\ held' = [held EXCEPT ![q] = OutcomesNow(decision, q)]
        BY <2>2 DEF RegisterMention
      <3>. QED
        BY <1>0, <3>1 DEF AnsweredAtEnd
    <2>. QED
      BY <1>1, <2>1, <2>2, HistoryMoves DEF ToldWasStored
  <1>. QED
    BY <1>2, <1>3

LEMMA DoorbellKept ==
  ASSUME TypeOK, CallsMetDecisions, HandFull, CallsAreOwned, DoorbellMeansDecision, [Next]_vars
  PROVE  DoorbellMeansDecision'
  <1>1. \A i \in Instances : In(i, "ring") => InHand(i).key \in Keys /\ decision[InHand(i).key] # None
    BY DEF DoorbellMeansDecision, HandFull, In, Response
  <1>2. \A i \in Instances : \A k \in inbox[i] : k \in Keys /\ decision[k] # None
    BY DEF DoorbellMeansDecision, TypeOK, IntegrationTypeOK
  <1>3. \A e \in rung : e[2] \in Keys /\ decision[e[2]] # None
    <2>1. \A r \in Requests : KeyOf[r] \in Keys
      BY SitesAssumption
    <2>2. \A e \in rung : e[2] \in Keys
      BY <2>1 DEF TypeOK, IntegrationTypeOK, Waiter!WaiterTypeOK, Waiter!Events
    <2>. QED
      BY <2>2 DEF DoorbellMeansDecision
  <1>4. \A k \in Keys : decision[k] # None => decision'[k] # None
    BY StoreKept
  <1>5. \A e \in rung' : decision'[e[2]] # None
    BY <1>1, <1>2, <1>3, <1>4, EventsKept DEF Rung
  <1>6. \A i \in Instances : \A k \in inbox'[i] : decision'[k] # None
    BY <1>1, <1>2, <1>4, InboxesKept
  <1>7. ASSUME NEW i \in Instances, In(i, "ring")' PROVE decision'[InHand(i)'.key] # None
    <2>1. CASE integrator'[i] = integrator[i]
      BY <1>1, <1>4, <1>7, <2>1 DEF In, InHand
    <2>2. CASE In(i, "store") /\ InHand(i)' = InHand(i) /\ OutcomeStored(i)
      <3>1. i \in Writers /\ call[i] # None /\ call[i].answer \notin {"failed", "pending"}
        BY <2>2, WritersCases DEF OutcomeStored, Register!Return
      <3>2. call[i] \in Register!Call
        BY <3>1 DEF TypeOK, IntegrationTypeOK, Register!RegisterTypeOK
      <3>3. call[i].key \in Keys /\ (Granted(call[i]) \/ call[i].answer = "stale")
        BY <3>1, <3>2 DEF Register!Call, Register!Answers, Granted
      <3>4. decision[call[i].key] # None
        BY <3>1, <3>3 DEF CallsMetDecisions
      <3>5. call[i].key = InHand(i).key
        BY <2>2, <3>1 DEF CallsAreOwned
      <3>. QED
        BY <1>4, <2>2, <3>3, <3>4, <3>5
    <2>. QED
      BY <1>7, <2>1, <2>2, HandMoves DEF In
  <1>. QED
    BY <1>5, <1>6, <1>7 DEF DoorbellMeansDecision

LEMMA DecidedKept ==
  ASSUME TypeOK, CallsMetDecisions, HandFull, CallsAreOwned, DecidedIsRegistered, [Next]_vars
  PROVE  DecidedIsRegistered'
  <1>0. StoreOK
    BY DEF StoreOK, TypeOK, IntegrationTypeOK
  <1> SUFFICES ASSUME NEW k \in Keys, decision'[k] # None PROVE k \in registered
    BY RegisteredGrows DEF DecidedIsRegistered
  <1>1. CASE decision'[k] = decision[k]
    BY <1>1 DEF DecidedIsRegistered
  <1>2. ASSUME NEW w \in Writers, Taken(w) PROVE k \in registered
    BY <1>0, <1>2, EffectKeeps, FailKeeps, ReturnKeeps DEF Taken, CallsAreOwned, DecidedIsRegistered
  <1>3. ASSUME NEW w \in Writers, InvokedFor(w) PROVE k \in registered
    BY <1>0, <1>3, InvokeKeeps DEF InvokedFor, DecidedIsRegistered
  <1>. QED
    BY <1>1, <1>2, <1>3, StoreMoves DEF storeVars

\* The bounds of the model.
LEMMA ClocksKept ==
  ASSUME TypeOK, [Next]_vars
  PROVE  now' \in Times /\ sent' \in 0..MaxResponses /\ faults' \in 0..MaxFaults
  <1>0. /\ now \in Times /\ sent \in 0..MaxResponses /\ faults \in 0..MaxFaults
        /\ Times = 1..MaxTime /\ MaxTime \in Nat /\ MaxResponses \in Nat /\ MaxFaults \in Nat
    BY CoordinatorAssumption DEF TypeOK
  <1>1. CASE UNCHANGED externalVars
    BY <1>0, <1>1 DEF externalVars
  <1>2. CASE Fault
    BY <1>0, <1>2 DEF Fault
  <1>3. CASE EREResponds
    BY <1>0, <1>3 DEF EREResponds
  <1>4. CASE Tick
    BY <1>0, <1>4 DEF Tick
  <1>5. UNCHANGED externalVars \/ Fault \/ EREResponds \/ Tick
    BY DEF Next, vars, RegisterMention, RefuseMention, Unavailable, Serve, Replay, Consult, IssueAtOnce,
       Publish, Wake, TimeOut, ReadDecision, ReadNothing, Issued, IssuedStale, ReadAfterStale,
       IssueFails, StoreStep, EndUnobserved, StoreFails, IntegratorStep, NotifyStep, CollectEvent,
       BulkTimeOut, IntegratorEnds, Crash
  <1>. QED
    BY <1>1, <1>2, <1>3, <1>4, <1>5

-----------------------------------------------------------------------------
CoordinatorInv ==
  /\ TypeOK /\ CallsMetDecisions /\ HandFull /\ CallsAreOwned /\ BegunIsRegistered
  /\ HeldUpToNow /\ AnsweredAtEnd
  /\ DecidedIsRegistered /\ DoorbellMeansDecision /\ ToldWasStored

LEMMA CoordinatorInvariant == Spec => []CoordinatorInv
  <1>1. Init => CoordinatorInv
    <2> SUFFICES ASSUME Init PROVE CoordinatorInv
      OBVIOUS
    <2>1. TypeOK
      <3>1. Register!RegisterTypeOK /\ Waiter!WaiterTypeOK
        BY DEF Init, IntegrationInit, Register!RegisterInit, Register!RegisterTypeOK,
           Waiter!WaiterInit, Waiter!WaiterTypeOK
      <3>2. 1 \in Times /\ 0 \in 0..MaxResponses /\ 0 \in 0..MaxFaults
        BY CoordinatorAssumption
      <3>. QED
        BY <3>1, <3>2 DEF Init, IntegrationInit, TypeOK, IntegrationTypeOK, Idle, Steps
    <2>2. CallsMetDecisions /\ CallsAreOwned
      BY DEF Init, IntegrationInit, Register!RegisterInit, CallsMetDecisions, CallsAreOwned
    <2>3. HandFull /\ BegunIsRegistered /\ HeldUpToNow /\ AnsweredAtEnd
      BY DEF Init, IntegrationInit, HandFull, BegunIsRegistered, HeldUpToNow, AnsweredAtEnd, Active, Idle
    <2>4. DecidedIsRegistered /\ DoorbellMeansDecision /\ ToldWasStored
      BY DEF Init, IntegrationInit, Register!RegisterInit, Waiter!WaiterInit, DecidedIsRegistered,
         DoorbellMeansDecision, ToldWasStored, In, Idle
    <2>. QED
      BY <2>1, <2>2, <2>3, <2>4 DEF CoordinatorInv
  <1>2. CoordinatorInv /\ [Next]_vars => CoordinatorInv'
    <2> SUFFICES ASSUME CoordinatorInv, [Next]_vars PROVE CoordinatorInv'
      OBVIOUS
    <2>. USE DEF CoordinatorInv
    <2>1. StoreOK'
      BY StoreKept
    <2>2. CallsAreOwned' /\ BegunIsRegistered' /\ HandFull'
      BY OwnedKept
    <2>3. /\ reply' \in [Requests -> Told \union {Refused, None}] /\ ToldWasStored'
          /\ held' \in [Requests -> SUBSET Outcomes] /\ HeldUpToNow' /\ AnsweredAtEnd'
      BY ToldKept, HistoryKept, AnsweredKept
    <2>4. DoorbellMeansDecision' /\ DecidedIsRegistered'
      BY DoorbellKept, DecidedKept
    <2>. QED
      BY <2>1, <2>2, <2>3, <2>4, RequestsTyped, HandsTyped, EventsKept, InboxesKept, ClocksKept
         DEF StoreOK, TypeOK, IntegrationTypeOK
  <1>. QED
    BY <1>1, <1>2, PTL DEF Spec

\* Every variable of the coordinator, of its integrators, events and store has its type.
THEOREM CoordinatorTyped == Spec => []TypeOK
  <1>. CoordinatorInv => TypeOK
    BY DEF CoordinatorInv
  <1>. QED
    BY CoordinatorInvariant, PTL

\* Whenever an event is set, or a notification is under way, the mention that it is
\* for has a decision: a waiter that wakes reads one.
THEOREM DoorbellHonest == Spec => []DoorbellMeansDecision
  <1>. CoordinatorInv => DoorbellMeansDecision
    BY DEF CoordinatorInv
  <1>. QED
    BY CoordinatorInvariant, PTL

\* Whatever races, time-outs and failures a request went through, the decision that its
\* client is told is one that the store held for the mention while the request was in
\* progress: never one that was only proposed, nor one replaced before it began.
THEOREM ToldTruly == Spec => []ToldWasStored
  <1>. CoordinatorInv => ToldWasStored
    BY DEF CoordinatorInv
  <1>. QED
    BY CoordinatorInvariant, PTL

\* A decision is stored only of a registered mention: integrators refuse the outcomes
\* of any other, and requests register before they write.
THEOREM DecidedOnRecord == Spec => []DecidedIsRegistered
  <1>. CoordinatorInv => DecidedIsRegistered
    BY DEF CoordinatorInv
  <1>. QED
    BY CoordinatorInvariant, PTL
================================================================================
