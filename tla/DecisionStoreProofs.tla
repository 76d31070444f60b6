------------------------- MODULE DecisionStoreProofs -------------------------
(***************************************************************************)
(* Theorems about DecisionStore and ClusterSizeMaintenance for every set   *)
(* of keys, writers, clusters, references, candidate lists and timestamps. *)
(***************************************************************************)
EXTENDS ClusterSizeMaintenance, FiniteSetTheorems, TLAPS

\* The two ways in which a call in progress is rewritten keep it a call.
LEMMA GotoType ==
  ASSUME TypeOK, NEW w \in Writers, op[w] # None, NEW step \in Steps, Goto(w, step)
  PROVE  op' \in [Writers -> Op \union {None}]
  BY DEF TypeOK, Op, Goto

LEMMA DecideType ==
  ASSUME TypeOK, NEW w \in Writers, op[w] # None,
         NEW a \in Answers, NEW o \in Outcomes \union {None}, NEW step \in Steps,
         Decide(w, a, o, step)
  PROVE  op' \in [Writers -> Op \union {None}]
  <1>1. op[w] \in Op
    BY DEF TypeOK
  <1>2. ShiftWrites(op[w].from, Target(w)) \in SUBSET {"dec", "inc"}
    BY DEF ShiftWrites
  <1>3. [op[w] EXCEPT !.answer = a, !.got = o, !.pc = step,
           !.todo = IF step = "shift" THEN ShiftWrites(op[w].from, Target(w)) ELSE {}]
          \in Op
    BY <1>1, <1>2 DEF Op
  <1>. QED
    BY <1>3 DEF TypeOK, Decide

\* Documents that the store writes are decisions.
LEMMA DocumentType ==
  ASSUME NEW o \in Outcomes, NEW t \in Times
  PROVE  /\ InsertDocument(o, t) \in Decision
         /\ \A d \in Decision : UpdateDocument(d, o, t) \in Decision
  BY DEF InsertDocument, UpdateDocument, Decision

LEMMA TypeStep ==
  ASSUME TypeOK, [Next]_vars
  PROVE  TypeOK'
  <1>1. ASSUME NEW w \in Writers, NEW k \in Keys, SubmitAny(w, k) PROVE TypeOK'
    <2>1. PICK p \in References, cs \in CandidateLists, t \in Times : Submit(w, k, p, cs, t)
      BY <1>1 DEF SubmitAny
    <2>2. [placement |-> p, candidates |-> Truncate(cs)] \in Outcomes
      BY DEF Outcomes
    <2>. QED
      BY <2>1, <2>2 DEF Submit, TypeOK, Op, Steps, Answers
  <1>2. ASSUME NEW w \in Writers, Step(w) PROVE TypeOK'
    <2>0. CASE op[w] = None
      BY <1>2, <2>0 DEF Step, At, ServiceReadNothing, ServiceReadSame, ServiceReadOther,
           RepositoryRead, Insert, InsertMeetsDocument, InsertDuplicateKey, Update,
           UpdateStale, ShiftDecrement, ShiftIncrement, ShiftDelete, Return
    <2>1. CASE op[w] # None
      <3>. USE <2>1
      <3>0. /\ op[w] \in Op
            /\ Stored(w) \in Decision \union {None}
            /\ op[w].outcome \in Outcomes \union {None}
            /\ Stored(w) # None => Stored(w).outcome \in Outcomes \union {None}
        BY DEF TypeOK, Op, Stored, Decision
      <3>1. CASE ServiceReadNothing(w)
        BY <3>1, GotoType DEF ServiceReadNothing, Goto, TypeOK, Steps
      <3>2. CASE ServiceReadSame(w)
        BY <3>2, <3>0, DecideType DEF ServiceReadSame, Decide, TypeOK, Steps, Answers
      <3>3. CASE ServiceReadOther(w)
        <4>1. ClusterOf[Stored(w).outcome.placement] \in Clusters
          BY <3>3, <3>0, ClusterAssumption DEF ServiceReadOther, Decision, Outcomes
        <4>. QED
          BY <4>1, <3>0, <3>3 DEF ServiceReadOther, TypeOK, Op, Steps
      <3>4. CASE RepositoryRead(w)
        BY <3>4, GotoType DEF RepositoryRead, Goto, TypeOK, Steps
      <3>5. CASE Insert(w)
        <4>1. op' \in [Writers -> Op \union {None}]
          BY <3>5, <3>0, DecideType DEF Insert, Steps, Answers
        <4>2. InsertDocument(op[w].outcome, op[w].time) \in Decision
          BY <3>0, DocumentType DEF Op
        <4>. QED
          BY <4>1, <4>2, <3>5 DEF Insert, Decide, TypeOK
      <3>6. CASE InsertMeetsDocument(w)
        BY <3>6, <3>0, DecideType DEF InsertMeetsDocument, Decide, TypeOK, Steps, Answers
      <3>7. CASE InsertDuplicateKey(w)
        BY <3>7, DecideType DEF InsertDuplicateKey, Decide, TypeOK, Steps, Answers
      <3>8. CASE Update(w)
        <4>1. op' \in [Writers -> Op \union {None}]
          BY <3>8, <3>0, DecideType DEF Update, Steps, Answers
        <4>2. UpdateDocument(Stored(w), op[w].outcome, op[w].time) \in Decision
          BY <3>0, <3>8, DocumentType DEF Op, Update
        <4>. QED
          BY <4>1, <4>2, <3>8 DEF Update, Decide, TypeOK, Stored
      <3>9. CASE UpdateStale(w)
        BY <3>9, DecideType DEF UpdateStale, Decide, TypeOK, Steps, Answers
      <3>10. CASE ShiftDecrement(w)
        BY <3>10, <3>0 DEF ShiftDecrement, TypeOK, Op
      <3>11. CASE ShiftIncrement(w)
        <4>1. Target(w) \in Clusters
          BY <3>0, ClusterAssumption DEF Target, Op, Outcomes
        <4>. QED
          BY <4>1, <3>11, <3>0 DEF ShiftIncrement, TypeOK, Op
      <3>12. CASE ShiftDelete(w)
        BY <3>12, <3>0 DEF ShiftDelete, TypeOK, Op, Steps
      <3>13. CASE Return(w)
        BY <3>13 DEF Return, TypeOK
      <3>. QED
        BY <1>2, <3>1, <3>2, <3>3, <3>4, <3>5, <3>6, <3>7, <3>8, <3>9, <3>10,
           <3>11, <3>12, <3>13 DEF Step
    <2>. QED
      BY <2>0, <2>1
  <1>3. ASSUME NEW w \in Writers, Fail(w) PROVE TypeOK'
    BY <1>3, DecideType DEF Fail, Decide, TypeOK, Steps, Answers
  <1>4. CASE Review
    <2>1. ASSUME NEW k \in Keys, NEW t \in Times, RecordReviewFresh(k, t) PROVE TypeOK'
      BY <2>1 DEF RecordReviewFresh, TypeOK, Decision
    <2>2. ASSUME NEW k \in Keys, RecordReviewStale(k) PROVE TypeOK'
      BY <2>2 DEF RecordReviewStale, TypeOK, Decision
    <2>. QED
      BY <1>4, <2>1, <2>2 DEF Review
  <1>5. CASE UNCHANGED vars
    BY <1>5 DEF vars, TypeOK
  <1>. QED
    BY <1>1, <1>2, <1>3, <1>4, <1>5 DEF Next

\* Every variable keeps its type in every reachable state.
THEOREM TypeCorrect == Spec => []TypeOK
  <1>1. Init => TypeOK
    BY BoundsAssumption DEF Init, TypeOK
  <1>. QED
    BY <1>1, TypeStep, PTL DEF Spec

-----------------------------------------------------------------------------
(***************************************************************************)
(* The inductive invariant behind the refinement: CallsConsistent.         *)
(***************************************************************************)
\* A call of another writer, and every decision, survives the step of a writer.
LEMMA StepFrame ==
  ASSUME TypeOK, NEW w \in Writers, Step(w) \/ Fail(w)
  PROVE  /\ op[w] # None
         /\ \A v \in Writers \ {w} : op'[v] = op[v]
         /\ \A k \in Keys : documents[k] # None => documents'[k] # None
  <1>1. op[w] # None
    BY DEF Step, Fail, At, ServiceReadNothing, ServiceReadSame, ServiceReadOther,
       RepositoryRead, Insert, InsertMeetsDocument, InsertDuplicateKey, Update,
       UpdateStale, ShiftDecrement, ShiftIncrement, ShiftDelete, Return
  <1>2. \A v \in Writers \ {w} : op'[v] = op[v]
    BY DEF TypeOK, Step, Fail, Goto, Decide, ServiceReadNothing, ServiceReadSame,
       ServiceReadOther, RepositoryRead, Insert, InsertMeetsDocument,
       InsertDuplicateKey, Update, UpdateStale, ShiftDecrement, ShiftIncrement,
       ShiftDelete, Return
  <1>3. ASSUME NEW k \in Keys, documents[k] # None PROVE documents'[k] # None
    <2>1. op[w] \in Op
      BY <1>1 DEF TypeOK
    <2>2. InsertDocument(op[w].outcome, op[w].time) # None
      BY <2>1, DocumentType, NoneAssumption DEF Op
    <2>3. Stored(w) # None => UpdateDocument(Stored(w), op[w].outcome, op[w].time) # None
      BY <2>1, DocumentType, NoneAssumption DEF Op, Stored, TypeOK
    <2>. QED
      BY <1>3, <2>2, <2>3 DEF TypeOK, Step, Fail, Goto, Decide, ServiceReadNothing,
         ServiceReadSame, ServiceReadOther, RepositoryRead, Insert,
         InsertMeetsDocument, InsertDuplicateKey, Update, UpdateStale,
         ShiftDecrement, ShiftIncrement, ShiftDelete, Return, Stored
  <1>. QED
    BY <1>1, <1>2, <1>3

\* A curator's review changes neither the calls nor what a decision assigns.
LEMMA ReviewFrame ==
  ASSUME TypeOK, Review
  PROVE  /\ op' = op
         /\ \A k \in Keys : documents[k] # None <=> documents'[k] # None
         /\ \A k \in Keys : documents[k] # None =>
              /\ documents'[k].created = documents[k].created
              /\ documents'[k].updated = documents[k].updated
              /\ documents'[k].outcome = documents[k].outcome
  <1>1. PICK k \in Keys :
          /\ documents[k] # None
          /\ op' = op
          /\ \/ documents' = [documents EXCEPT ![k].reviews = @ + 1, ![k].reviewed = TRUE]
             \/ documents' = [documents EXCEPT ![k].reviews = @ + 1]
    BY DEF Review, RecordReviewFresh, RecordReviewStale
  <1>2. documents[k] \in Decision
    BY <1>1 DEF TypeOK
  <1>3. /\ documents'[k] \in Decision
        /\ documents'[k].created = documents[k].created
        /\ documents'[k].updated = documents[k].updated
        /\ documents'[k].outcome = documents[k].outcome
    BY <1>1, <1>2 DEF TypeOK, Decision
  <1>4. \A j \in Keys \ {k} : documents'[j] = documents[j]
    BY <1>1 DEF TypeOK
  <1>5. documents'[k] # None
    BY <1>3, NoneAssumption
  <1>. QED
    BY <1>1, <1>3, <1>4, <1>5

\* A reachable call is consistent with the decisions it has met.
THEOREM Consistent == Spec => []CallsConsistent
  <1>1. Init => CallsConsistent
    BY DEF Init, CallsConsistent, CallConsistent
  <1>2. TypeOK /\ CallsConsistent /\ [Next]_vars => CallsConsistent'
    <2> SUFFICES ASSUME TypeOK, CallsConsistent, [Next]_vars,
                        NEW v \in Writers
                 PROVE  CallConsistent(v)'
      BY DEF CallsConsistent
    <2>. USE DEF CallConsistent
    <2>0. CallConsistent(v) /\ (op[v] # None => op[v] \in Op /\ op[v].key \in Keys)
      BY DEF CallsConsistent, TypeOK, Op
    <2>1. ASSUME NEW w \in Writers, NEW k \in Keys, SubmitAny(w, k)
          PROVE  CallConsistent(v)'
      <3>1. PICK p \in References, cs \in CandidateLists, t \in Times : Submit(w, k, p, cs, t)
        BY <2>1 DEF SubmitAny
      <3>. QED
        BY <3>1, <2>0 DEF Submit, TypeOK
    <2>2. ASSUME NEW w \in Writers, Step(w) \/ Fail(w) PROVE CallConsistent(v)'
      <3>0. /\ op[w] # None
            /\ \A u \in Writers \ {w} : op'[u] = op[u]
            /\ \A k \in Keys : documents[k] # None => documents'[k] # None
        BY <2>2, StepFrame
      <3>1. CASE v # w
        BY <3>0, <3>1, <2>0
      <3>2. CASE v = w
        <4>0. CallConsistent(w) /\ op[w] \in Op /\ op[w].key \in Keys
          BY <3>0, <3>2, <2>0
        <4>1. CASE ServiceReadNothing(w)
          BY <4>0, <4>1, <3>2 DEF ServiceReadNothing, Goto, At, Stored, TypeOK, Op
        <4>2. CASE ServiceReadSame(w)
          BY <4>0, <4>2, <3>2 DEF ServiceReadSame, Decide, At, Stored, TypeOK, Op
        <4>3. CASE ServiceReadOther(w)
          BY <4>0, <4>3, <3>2 DEF ServiceReadOther, At, Stored, TypeOK, Op
        <4>4. CASE RepositoryRead(w)
          BY <4>0, <4>4, <3>2 DEF RepositoryRead, Goto, At, Stored, TypeOK, Op
        <4>5. CASE Insert(w)
          BY <4>0, <4>5, <3>2, <3>0 DEF Insert, Decide, At, Stored, TypeOK, Op
        <4>6. CASE InsertMeetsDocument(w)
          BY <4>0, <4>6, <3>2 DEF InsertMeetsDocument, Decide, At, Stored, TypeOK, Op
        <4>7. CASE InsertDuplicateKey(w)
          BY <4>0, <4>7, <3>2 DEF InsertDuplicateKey, Decide, At, Stored, TypeOK, Op
        <4>8. CASE Update(w)
          BY <4>0, <4>8, <3>2, <3>0 DEF Update, Decide, At, Stored, TypeOK, Op
        <4>9. CASE UpdateStale(w)
          BY <4>0, <4>9, <3>2 DEF UpdateStale, Decide, At, Stored, TypeOK, Op
        <4>10. CASE ShiftDecrement(w)
          BY <4>0, <4>10, <3>2 DEF ShiftDecrement, At, TypeOK, Op
        <4>11. CASE ShiftIncrement(w)
          BY <4>0, <4>11, <3>2 DEF ShiftIncrement, At, TypeOK, Op
        <4>12. CASE ShiftDelete(w)
          BY <4>0, <4>12, <3>2 DEF ShiftDelete, At, TypeOK, Op
        <4>13. CASE Return(w)
          BY <4>13, <3>2 DEF Return, TypeOK
        <4>14. CASE Fail(w)
          BY <4>0, <4>14, <3>2 DEF Fail, Decide, TypeOK, Op
        <4>. QED
          BY <2>2, <4>1, <4>2, <4>3, <4>4, <4>5, <4>6, <4>7, <4>8, <4>9, <4>10,
             <4>11, <4>12, <4>13, <4>14 DEF Step
      <3>. QED
        BY <3>1, <3>2
    <2>3. CASE Review
      BY <2>3, <2>0, ReviewFrame
    <2>4. CASE UNCHANGED vars
      BY <2>4, <2>0 DEF vars
    <2>. QED
      BY <2>1, <2>2, <2>3, <2>4 DEF Next
  <1>. QED
    BY <1>1, <1>2, TypeCorrect, PTL DEF Spec

-----------------------------------------------------------------------------
(***************************************************************************)
(* The refinement.  Each action of DecisionStore is an action of           *)
(* DecisionRegister or changes nothing that DecisionRegister speaks of.    *)
(***************************************************************************)

\* The boundary of a decision is one of its timestamps.
LEMMA BoundaryType ==
  ASSUME NEW d \in Decision
  PROVE  /\ Boundary(d) \in Times
         /\ Boundary(d) \in Nat
         /\ Register!Boundary(d) = Boundary(d)
  <1>1. d.created \in Times /\ d.updated \in Times \union {NoTime}
    BY DEF Decision
  <1>2. Boundary(d) \in Times
    BY <1>1 DEF Boundary
  <1>3. Boundary(d) \in Nat
    BY <1>2, TimesAssumption
  <1>. QED
    BY <1>2, <1>3 DEF Boundary, Register!Boundary, NoTime, Register!NoTime

\* What a caller sees of the call of w when its answer becomes a.
LEMMA AnswerMaps ==
  ASSUME TypeOK, NEW w \in Writers, op[w] # None,
         NEW a \in Answers, NEW o \in Outcomes \union {None}, NEW step \in Steps,
         Decide(w, a, o, step)
  PROVE  /\ abstractCall[w] # None
         /\ abstractCall' = [abstractCall EXCEPT ![w] = Register!Answered(@, a, o)]
  <1>1. op[w] \in Op
    BY DEF TypeOK
  <1>2. abstractCall[w] \in AbstractCalls
    BY <1>1 DEF abstractCall, AbstractCalls, Op
  <1>3. op' \in [Writers -> Op \union {None}]
    BY DecideType
  <1>4. \A v \in Writers \ {w} : op'[v] = op[v]
    BY DEF Decide, TypeOK
  <1>5. /\ op'[w].key = op[w].key
        /\ op'[w].outcome = op[w].outcome
        /\ op'[w].time = op[w].time
        /\ op'[w].early = op[w].early
        /\ op'[w].answer = a
        /\ op'[w].got = o
    BY <1>1 DEF Decide, TypeOK, Op
  <1>6. op'[w] # None
    <2>1. op'[w] = [op[w] EXCEPT !.answer = a, !.got = o, !.pc = step,
             !.todo = IF step = "shift" THEN ShiftWrites(op[w].from, Target(w)) ELSE {}]
      BY <1>1 DEF Decide, TypeOK
    <2>2. ShiftWrites(op[w].from, Target(w)) \in SUBSET {"dec", "inc"}
      BY DEF ShiftWrites
    <2>3. op'[w] \in Op
      BY <1>1, <2>1, <2>2 DEF Op
    <2>. QED
      BY <2>3, NoneAssumption
  <1>7. abstractCall'[w] = Register!Answered(abstractCall[w], a, o)
    <2>. DEFINE c == abstractCall[w]
                r == Register!Answered(c, a, o)
    <2>1. /\ c.key = op[w].key
          /\ c.outcome = op[w].outcome
          /\ c.time = op[w].time
          /\ c.early = op[w].early
      BY <1>1, NoneAssumption DEF abstractCall
    <2>. HIDE DEF c
    <2>2. /\ r \in AbstractCalls
          /\ r.key = c.key
          /\ r.outcome = c.outcome
          /\ r.time = c.time
          /\ r.early = c.early
          /\ r.answer = a
          /\ r.got = o
      BY <1>2 DEF Register!Answered, AbstractCalls, c
    <2>. HIDE DEF r
    <2>3. r = [key |-> r.key, outcome |-> r.outcome, time |-> r.time,
               early |-> r.early, answer |-> r.answer, got |-> r.got]
      BY <2>2 DEF AbstractCalls
    <2>4. abstractCall'[w] = [key |-> op[w].key, outcome |-> op[w].outcome,
                              time |-> op[w].time, early |-> op[w].early,
                              answer |-> a, got |-> o]
      BY <1>5, <1>6 DEF abstractCall
    <2>5. abstractCall'[w] = r
      BY <2>1, <2>2, <2>3, <2>4, Zenon
    <2>. QED
      BY <2>5 DEF r, c
  <1>8. \A v \in Writers \ {w} : abstractCall'[v] = abstractCall[v]
    BY <1>4 DEF abstractCall
  <1>9. abstractCall[w] # None
    BY <1>2, NoneAssumption
  <1>10. /\ abstractCall = [v \in Writers |-> abstractCall[v]]
         /\ abstractCall' = [v \in Writers |-> abstractCall'[v]]
    BY DEF abstractCall
  <1>. QED
    BY <1>7, <1>8, <1>9, <1>10

\* Steps that only move the call of w along are invisible.
LEMMA HiddenStep ==
  ASSUME TypeOK, NEW w \in Writers, op[w] # None,
         \A v \in Writers \ {w} : op'[v] = op[v],
         op'[w] \in Op,
         /\ op'[w].key = op[w].key
         /\ op'[w].outcome = op[w].outcome
         /\ op'[w].time = op[w].time
         /\ op'[w].early = op[w].early
         /\ op'[w].answer = op[w].answer
         /\ op'[w].got = op[w].got
  PROVE  abstractCall' = abstractCall
  BY NoneAssumption DEF abstractCall

\* Every step of a call is an abstract step or a stuttering step.
LEMMA StepRefines ==
  ASSUME TypeOK, CallsConsistent, NEW w \in Writers, Step(w) \/ Fail(w)
  PROVE  \/ Register!TakeEffect(w) \/ Register!Fail(w) \/ Register!Return(w)
         \/ UNCHANGED Register!registerVars
  <1>. USE DEF Register!registerVars
  <1>0. /\ op[w] # None
        /\ \A v \in Writers \ {w} : op'[v] = op[v]
    BY StepFrame
  <1>1. /\ op[w] \in Op
        /\ CallConsistent(w)
        /\ Stored(w) \in Decision \union {None}
        /\ Stored(w) # None => Stored(w) \in Decision
        /\ op[w].outcome \in Outcomes \union {None}
        /\ Stored(w) # None => Stored(w).outcome \in Outcomes \union {None}
    BY <1>0 DEF TypeOK, CallsConsistent, Op, Stored, Decision
  <1>2. /\ abstractCall[w] # None
        /\ abstractCall[w].key = op[w].key
        /\ abstractCall[w].outcome = op[w].outcome
        /\ abstractCall[w].time = op[w].time
        /\ abstractCall[w].early = op[w].early
        /\ abstractCall[w].answer = op[w].answer
    <2>1. abstractCall[w] \in AbstractCalls
      BY <1>0, <1>1 DEF abstractCall, AbstractCalls, Op
    <2>. QED
      BY <2>1, <1>0, NoneAssumption DEF abstractCall
  <1>3. op[w].pc \in {"read", "reread", "insert", "update"} => Register!Pending(w)
    BY <1>0, <1>1, <1>2 DEF CallConsistent, Register!Pending
  <1>4. ASSUME NEW a \in Answers, NEW o \in Outcomes \union {None}, NEW step \in Steps,
         Decide(w, a, o, step)
        PROVE  Register!Answer(w, a, o)
    BY <1>0, <1>4, AnswerMaps DEF Register!Answer
  <1>5. ASSUME NEW d \in Decision, NEW t \in Times
        PROVE  Fresh(d, t) <=> Register!Boundary(d) < t
    BY <1>5 DEF Fresh, Register!Boundary, NoTime, Register!NoTime, Decision
  <1>6. ASSUME NEW d \in Decision, NEW t \in Times, ~(Register!Boundary(d) < t)
        PROVE  Register!Boundary(d) >= t
    BY <1>6, BoundaryType, TimesAssumption
  <1>7. CASE ServiceReadNothing(w)
    <2>1. op'[w] = [op[w] EXCEPT !.pc = "reread"]
      BY <1>7, <1>1 DEF ServiceReadNothing, Goto, TypeOK, Op
    <2>2. op'[w] \in Op
      BY <2>1, <1>1 DEF Op, Steps
    <2>. QED
      BY <1>7, <1>0, <1>1, <2>1, <2>2, HiddenStep DEF ServiceReadNothing, Goto, Op
  <1>8. CASE ServiceReadSame(w)
    <2>1. Register!Answer(w, "unchanged", op[w].outcome)
      BY <1>8, <1>1, <1>4 DEF ServiceReadSame, SameOutcome, Steps, Answers
    <2>2. Register!KeepSame(w)
      BY <1>8, <2>1, <1>2, <1>3 DEF ServiceReadSame, SameOutcome, Stored, At,
         Register!KeepSame
    <2>. QED
      BY <2>2 DEF Register!TakeEffect
  <1>9. CASE ServiceReadOther(w)
    <2>1. op'[w] = [op[w] EXCEPT !.pc = "update",
                          !.from = ClusterOf[Stored(w).outcome.placement]]
      BY <1>9, <1>1 DEF ServiceReadOther, TypeOK, Op
    <2>3. ClusterOf[Stored(w).outcome.placement] \in Clusters
      BY <1>9, <1>1, ClusterAssumption DEF ServiceReadOther, Decision, Outcomes
    <2>2. op'[w] \in Op
      BY <2>1, <1>1, <2>3 DEF Op, Steps
    <2>4. /\ op'[w].key = op[w].key
          /\ op'[w].outcome = op[w].outcome
          /\ op'[w].time = op[w].time
          /\ op'[w].early = op[w].early
          /\ op'[w].answer = op[w].answer
          /\ op'[w].got = op[w].got
      BY <2>1, <1>1 DEF Op
    <2>5. abstractCall' = abstractCall
      BY <1>0, <2>2, <2>4, HiddenStep
    <2>. QED
      BY <1>9, <2>5 DEF ServiceReadOther
  <1>10. CASE RepositoryRead(w)
    <2>1. op'[w] = [op[w] EXCEPT !.pc = IF Stored(w) = None THEN "insert" ELSE "update"]
      BY <1>10, <1>1 DEF RepositoryRead, Goto, TypeOK, Op
    <2>2. op'[w] \in Op
      BY <2>1, <1>1 DEF Op, Steps
    <2>. QED
      BY <1>10, <1>0, <1>1, <2>1, <2>2, HiddenStep DEF RepositoryRead, Goto, Op
  <1>11. CASE Insert(w)
    <2>1. Register!Answer(w, "created", op[w].outcome)
      BY <1>11, <1>1, <1>4 DEF Insert, Steps, Answers
    <2>2. Register!Create(w)
      BY <1>11, <2>1, <1>2, <1>3 DEF Insert, InsertDocument, Stored, At, NoTime,
         Register!Create, Register!Created, Register!NoTime
    <2>. QED
      BY <2>2 DEF Register!TakeEffect
  <1>12. CASE InsertMeetsDocument(w) \/ InsertDuplicateKey(w)
    <2>1. Register!LoseInsertRace(w)
      BY <1>12, <1>1, <1>2, <1>3, <1>4 DEF InsertMeetsDocument, InsertDuplicateKey,
         CallConsistent, Stored, At, Steps, Answers, Register!LoseInsertRace
    <2>. QED
      BY <2>1 DEF Register!TakeEffect
  <1>13. CASE Update(w)
    <2>1. Register!Boundary(Stored(w)) < op[w].time
      BY <1>13, <1>1, <1>5 DEF Update, Op
    <2>2. Register!Answer(w, "replaced", op[w].outcome)
      BY <1>13, <1>1, <1>4 DEF Update, Steps, Answers
    <2>3. Register!Replace(w)
      BY <1>13, <2>1, <2>2, <1>2, <1>3 DEF Update, UpdateDocument, Stored, At,
         Register!Replace, Register!Replaced
    <2>. QED
      BY <2>3 DEF Register!TakeEffect
  <1>14. CASE UpdateStale(w)
    <2>1. Register!Boundary(Stored(w)) >= op[w].time
      BY <1>14, <1>1, <1>5, <1>6 DEF UpdateStale, Op
    <2>2. Register!RejectStale(w)
      BY <1>14, <2>1, <1>2, <1>3, <1>4 DEF UpdateStale, Stored, At, Steps, Answers,
         Register!RejectStale
    <2>. QED
      BY <2>2 DEF Register!TakeEffect
  <1>15. CASE ShiftDecrement(w)
    <2>1. op'[w] = [op[w] EXCEPT !.todo = @ \ {"dec"}]
      BY <1>15, <1>1 DEF ShiftDecrement, TypeOK, Op
    <2>2. op'[w] \in Op
      BY <2>1, <1>1 DEF Op, Steps
    <2>. QED
      BY <1>15, <1>0, <1>1, <2>1, <2>2, HiddenStep DEF ShiftDecrement, Op
  <1>16. CASE ShiftIncrement(w)
    <2>1. op'[w] = [op[w] EXCEPT !.todo = @ \ {"inc"}]
      BY <1>16, <1>1 DEF ShiftIncrement, TypeOK, Op
    <2>2. op'[w] \in Op
      BY <2>1, <1>1 DEF Op, Steps
    <2>. QED
      BY <1>16, <1>0, <1>1, <2>1, <2>2, HiddenStep DEF ShiftIncrement, Op
  <1>17. CASE ShiftDelete(w)
    <2>1. op'[w] = [op[w] EXCEPT !.pc = "done"]
      BY <1>17, <1>1 DEF ShiftDelete, TypeOK, Op
    <2>2. op'[w] \in Op
      BY <2>1, <1>1 DEF Op, Steps
    <2>. QED
      BY <1>17, <1>0, <1>1, <2>1, <2>2, HiddenStep DEF ShiftDelete, Op
  <1>18. CASE Return(w)
    <2>1. op' = [op EXCEPT ![w] = None]
      BY <1>18 DEF Return
    <2>2. abstractCall' = [abstractCall EXCEPT ![w] = None]
      BY <2>1 DEF abstractCall, TypeOK
    <2>3. abstractCall[w].answer # "pending"
      BY <1>18, <1>1, <1>2 DEF Return, At, CallConsistent
    <2>. QED
      BY <1>18, <1>2, <2>2, <2>3 DEF Return, Register!Return
  <1>19. CASE Fail(w)
    BY <1>19, <1>2, <1>4 DEF Fail, Steps, Answers, Register!Fail
  <1>. QED
    BY <1>7, <1>8, <1>9, <1>10, <1>11, <1>12, <1>13, <1>14, <1>15, <1>16, <1>17,
       <1>18, <1>19 DEF Step

\* DecisionStore implements DecisionRegister: whatever the interleaving of the
\* database operations of concurrent calls, and whichever of them fail, every
\* call of store_decision takes effect at one instant or not at all.
THEOREM Refinement == Spec => ImplementsRegister
  <1>. USE DEF ImplementsRegister
  <1>1. Init => Register!RegisterInit
    BY DEF Init, Register!RegisterInit, abstractCall
  <1>2. TypeOK /\ CallsConsistent /\ [Next]_vars
          => [Register!RegisterNext]_(Register!registerVars)
    <2> SUFFICES ASSUME TypeOK, CallsConsistent, [Next]_vars
                 PROVE  Register!RegisterNext \/ UNCHANGED Register!registerVars
      OBVIOUS
    <2>1. ASSUME NEW w \in Writers, NEW k \in Keys, SubmitAny(w, k)
          PROVE  Register!RegisterNext
      <3>1. PICK p \in References, cs \in CandidateLists, t \in Times : Submit(w, k, p, cs, t)
        BY <2>1 DEF SubmitAny
      <3>. DEFINE o == [placement |-> p, candidates |-> Truncate(cs)]
                  c == [key |-> k, outcome |-> o, time |-> t,
                        early |-> documents[k] = None, answer |-> "pending", got |-> None]
                  r == [pc |-> "read", key |-> k, time |-> t, from |-> None, todo |-> {},
                        outcome |-> o, early |-> documents[k] = None, answer |-> "pending", got |-> None]
      <3>2. o \in Outcomes
        BY DEF Outcomes
      <3>3. op' = [op EXCEPT ![w] = r] /\ op[w] = None
        BY <3>1 DEF Submit
      <3>4. r # None
        <4>1. r \in Op
          BY <3>2 DEF Op, Steps, Answers
        <4>. QED
          BY <4>1, NoneAssumption
      <3>5. abstractCall' = [abstractCall EXCEPT ![w] = c] /\ abstractCall[w] = None
        <4>1. op'[w] = r /\ \A v \in Writers \ {w} : op'[v] = op[v]
          BY <3>3 DEF TypeOK
        <4>2. /\ r.key = k
              /\ r.outcome = o
              /\ r.time = t
              /\ r.early = (documents[k] = None)
              /\ r.answer = "pending"
              /\ r.got = None
          OBVIOUS
        <4>3. c = [key |-> r.key, outcome |-> r.outcome, time |-> r.time,
                   early |-> r.early, answer |-> r.answer, got |-> r.got]
          BY <4>2, Zenon
        <4>. HIDE DEF r, c
        <4>4. abstractCall'[w] = c
          BY <3>4, <4>1, <4>3 DEF abstractCall
        <4>5. \A v \in Writers \ {w} : abstractCall'[v] = abstractCall[v]
          BY <4>1 DEF abstractCall
        <4>6. abstractCall[w] = None
          BY <3>3 DEF abstractCall
        <4>7. /\ abstractCall = [v \in Writers |-> abstractCall[v]]
              /\ abstractCall' = [v \in Writers |-> abstractCall'[v]]
          BY DEF abstractCall
        <4>8. [abstractCall EXCEPT ![w] = c]
                = [v \in Writers |-> IF v = w THEN c ELSE abstractCall[v]]
          BY <4>7
        <4>. QED
          BY <4>4, <4>5, <4>6, <4>7, <4>8
      <3>6. Register!Invoke(w, k, o, t)
        BY <3>1, <3>5 DEF Submit, Register!Invoke
      <3>. QED
        BY <3>2, <3>6 DEF Register!RegisterNext
    <2>2. ASSUME NEW w \in Writers, Step(w) \/ Fail(w)
          PROVE  Register!RegisterNext \/ UNCHANGED Register!registerVars
      BY <2>2, StepRefines DEF Register!RegisterNext
    <2>3. ASSUME NEW k \in Keys, NEW t \in Times, RecordReviewFresh(k, t)
          PROVE  Register!RegisterNext
      <3>1. Register!Boundary(documents[k]) < t
        <4>1. documents[k] \in Decision
          BY <2>3 DEF RecordReviewFresh, TypeOK
        <4>. QED
          BY <2>3, <4>1, BoundaryType DEF RecordReviewFresh, Fresh, Boundary, NoTime
      <3>2. Register!ClaimReview(k, t)
        BY <2>3, <3>1 DEF RecordReviewFresh, Register!ClaimReview, abstractCall
      <3>. QED
        BY <3>2 DEF Register!RegisterNext
    <2>4. ASSUME NEW k \in Keys, RecordReviewStale(k) PROVE Register!RegisterNext
      BY <2>4 DEF RecordReviewStale, Register!CountReview, Register!RegisterNext, abstractCall
    <2>5. CASE UNCHANGED vars
      BY <2>5 DEF vars, Register!registerVars, abstractCall
    <2>. QED
      BY <2>1, <2>2, <2>3, <2>4, <2>5 DEF Next, Review
  <1>. QED
    BY <1>1, <1>2, TypeCorrect, Consistent, PTL DEF Spec, Register!RegisterSpec

-----------------------------------------------------------------------------
(***************************************************************************)
(* Decisions only move forward.                                            *)
(***************************************************************************)

\* What a step may do to a decision that exists.
Forward(k) ==
  documents[k] # None =>
    /\ documents'[k] # None
    /\ documents'[k].created = documents[k].created
    /\ Boundary(documents'[k]) >= Boundary(documents[k])
    /\ documents'[k].outcome # documents[k].outcome =>
         Boundary(documents'[k]) > Boundary(documents[k])

LEMMA StepsForward ==
  ASSUME TypeOK, [Next]_vars, NEW k \in Keys
  PROVE  Forward(k)
  <1>. SUFFICES ASSUME documents[k] # None PROVE Forward(k)
    BY DEF Forward
  <1>0. documents[k] \in Decision /\ Boundary(documents[k]) \in Nat
    BY BoundaryType DEF TypeOK
  <1>1. CASE documents' = documents
    BY <1>0, <1>1 DEF Forward
  <1>2. ASSUME NEW w \in Writers, Insert(w) PROVE Forward(k)
    <2>1. k # op[w].key
      BY <1>2 DEF Insert, Stored
    <2>2. documents'[k] = documents[k]
      BY <1>2, <2>1 DEF Insert, TypeOK
    <2>. QED
      BY <1>0, <2>2 DEF Forward
  <1>3. ASSUME NEW w \in Writers, Update(w) PROVE Forward(k)
    <2>1. CASE k # op[w].key
      <3>1. documents'[k] = documents[k]
        BY <1>3, <2>1 DEF Update, TypeOK
      <3>. QED
        BY <1>0, <3>1 DEF Forward
    <2>2. CASE k = op[w].key
      <3>. DEFINE d == UpdateDocument(documents[k], op[w].outcome, op[w].time)
      <3>1. op[w] \in Op
        BY <1>3 DEF Update, At, TypeOK
      <3>2. documents'[k] = d
        BY <1>3, <2>2 DEF Update, TypeOK
      <3>3. d \in Decision
        BY <1>0, <3>1, DocumentType DEF Op
      <3>4. /\ d.created = documents[k].created
            /\ d.updated = op[w].time
        BY <1>0 DEF UpdateDocument, Decision
      <3>5. op[w].time \in Times /\ op[w].time \in Nat /\ op[w].time # NoTime
        BY <3>1, TimesAssumption DEF Op
      <3>6. Boundary(documents[k]) < op[w].time
        BY <1>3, <2>2, <1>0 DEF Update, Stored, Fresh, Boundary
      <3>7. Boundary(d) = op[w].time
        BY <3>4, <3>5 DEF Boundary
      <3>. HIDE DEF d
      <3>. QED
        BY <1>0, <3>2, <3>3, <3>4, <3>5, <3>6, <3>7, NoneAssumption DEF Forward
    <2>. QED
      BY <2>1, <2>2
  <1>4. CASE Review
    <2>1. /\ documents'[k] # None
          /\ documents'[k].created = documents[k].created
          /\ documents'[k].updated = documents[k].updated
          /\ documents'[k].outcome = documents[k].outcome
      BY <1>4, ReviewFrame
    <2>2. Boundary(documents'[k]) = Boundary(documents[k])
      BY <2>1 DEF Boundary
    <2>. QED
      BY <1>0, <2>1, <2>2 DEF Forward
  <1>. QED
    BY <1>1, <1>2, <1>3, <1>4 DEF Next, SubmitAny, Submit, Step, Fail,
       ServiceReadNothing, ServiceReadSame, ServiceReadOther, RepositoryRead,
       InsertMeetsDocument, InsertDuplicateKey, UpdateStale, ShiftDecrement,
       ShiftIncrement, ShiftDelete, Return, vars

\* Concurrent calls, errors and reviews never take a decision back: see
\* BoundaryAdvances of DecisionRegister, here proved of the detailed store.
THEOREM Forwards == Spec => BoundaryAdvances
  <1>. USE DEF BoundaryAdvances, Register!BoundaryAdvances
  <1>1. ASSUME TypeOK, [Next]_vars, NEW k \in Keys, documents[k] # None
        PROVE  /\ documents'[k] # None
               /\ documents'[k].created = documents[k].created
               /\ Register!Boundary(documents'[k]) >= Register!Boundary(documents[k])
               /\ documents'[k].outcome # documents[k].outcome =>
                    Register!Boundary(documents'[k]) > Register!Boundary(documents[k])
    BY <1>1, StepsForward DEF Forward, Boundary, Register!Boundary, NoTime, Register!NoTime
  <1>2. TypeOK /\ [Next]_vars =>
          [\A k \in Keys : documents[k] # None =>
             /\ documents'[k] # None
             /\ documents'[k].created = documents[k].created
             /\ Register!Boundary(documents'[k]) >= Register!Boundary(documents[k])
             /\ documents'[k].outcome # documents[k].outcome =>
                  Register!Boundary(documents'[k]) > Register!Boundary(documents[k])
          ]_(Register!registerVars)
    BY <1>1
  <1>. QED
    BY <1>2, TypeCorrect, PTL DEF Spec

\* A caller that was told its outcome is stored, or is stale, never finds an
\* older decision afterwards (AnswerIsLasting), on any number of instances.
THEOREM Lasting == Spec => []AnswerIsLasting
  <1>1. Init => AnswerIsLasting
    BY DEF Init, AnswerIsLasting
  <1>2. TypeOK /\ TypeOK' /\ CallsConsistent /\ AnswerIsLasting /\ [Next]_vars
          => AnswerIsLasting'
    <2> SUFFICES ASSUME TypeOK, TypeOK', CallsConsistent, AnswerIsLasting, [Next]_vars,
                        NEW v \in Writers, op'[v] # None, Binding(op'[v])
                 PROVE  /\ documents'[op'[v].key] # None
                        /\ Boundary(documents'[op'[v].key]) >= op'[v].time
      BY DEF AnswerIsLasting
    <2>0. /\ op'[v] \in Op
          /\ op'[v].key \in Keys
          /\ op'[v].time \in Nat
      BY TimesAssumption DEF TypeOK, Op
    <2>1. CASE /\ op[v] # None
               /\ Binding(op[v])
               /\ op'[v].key = op[v].key
               /\ op'[v].time = op[v].time
      <3>1. /\ documents[op[v].key] # None
            /\ Boundary(documents[op[v].key]) >= op[v].time
        BY <2>1 DEF AnswerIsLasting
      <3>2. Forward(op'[v].key)
        BY <2>0, StepsForward
      <3>3. /\ Boundary(documents[op[v].key]) \in Nat
            /\ documents'[op[v].key] # None
            /\ Boundary(documents'[op[v].key]) >= Boundary(documents[op[v].key])
        BY <3>1, <3>2, <2>0, <2>1, BoundaryType DEF TypeOK, Forward
      <3>4. Boundary(documents'[op[v].key]) \in Nat
        BY <3>3, <2>0, <2>1, BoundaryType DEF TypeOK
      <3>. QED
        BY <2>0, <2>1, <3>1, <3>3, <3>4
    <2>2. CASE op' = op
      BY <2>1, <2>2
    <2>3. ASSUME NEW w \in Writers, NEW k \in Keys, SubmitAny(w, k)
          PROVE  op[v] # None /\ Binding(op[v]) /\ op'[v] = op[v]
      <3>1. PICK p \in References, cs \in CandidateLists, t \in Times : Submit(w, k, p, cs, t)
        BY <2>3 DEF SubmitAny
      <3>2. CASE v = w
        <4>1. op'[v].answer = "pending"
          BY <3>1, <3>2 DEF Submit, TypeOK
        <4>. QED
          BY <4>1 DEF Binding
      <3>3. CASE v # w
        BY <3>1, <3>3 DEF Submit, TypeOK
      <3>. QED
        BY <3>2, <3>3
    <2>4. ASSUME NEW w \in Writers, Step(w) \/ Fail(w), v # w
          PROVE  op'[v] = op[v]
      BY <2>4, StepFrame
    <2>5. ASSUME Step(v) \/ Fail(v)
          PROVE  /\ documents'[op'[v].key] # None
                 /\ Boundary(documents'[op'[v].key]) >= op'[v].time
      <3>0. /\ op[v] \in Op
            /\ CallConsistent(v)
            /\ op[v].key \in Keys
            /\ op[v].time \in Times
            /\ op[v].time \in Nat
            /\ op[v].time # NoTime
            /\ Stored(v) # None => Stored(v) \in Decision
        BY <2>5, StepFrame, TimesAssumption DEF TypeOK, CallsConsistent, Op, Stored
      <3>1. CASE Insert(v)
        <4>1. /\ op'[v].key = op[v].key
              /\ op'[v].time = op[v].time
              /\ documents'[op[v].key] = InsertDocument(op[v].outcome, op[v].time)
          BY <3>0, <3>1 DEF Insert, Decide, TypeOK, Op
        <4>2. InsertDocument(op[v].outcome, op[v].time) \in Decision
          BY <3>0, DocumentType DEF Op
        <4>3. Boundary(InsertDocument(op[v].outcome, op[v].time)) = op[v].time
          BY DEF InsertDocument, Boundary
        <4>. QED
          BY <3>0, <4>1, <4>2, <4>3, NoneAssumption
      <3>2. CASE Update(v)
        <4>1. /\ op'[v].key = op[v].key
              /\ op'[v].time = op[v].time
              /\ documents'[op[v].key] = UpdateDocument(Stored(v), op[v].outcome, op[v].time)
          BY <3>0, <3>2 DEF Update, Decide, TypeOK, Op, Stored
        <4>2. /\ UpdateDocument(Stored(v), op[v].outcome, op[v].time) \in Decision
              /\ UpdateDocument(Stored(v), op[v].outcome, op[v].time).updated = op[v].time
          <5>1. Stored(v) \in Decision
            BY <3>0, <3>2 DEF Update
          <5>. QED
            BY <5>1, <3>0, DocumentType DEF Op, UpdateDocument, Decision
        <4>3. Boundary(UpdateDocument(Stored(v), op[v].outcome, op[v].time)) = op[v].time
          BY <3>0, <4>2 DEF Boundary
        <4>. QED
          BY <3>0, <4>1, <4>2, <4>3, NoneAssumption
      <3>3. CASE UpdateStale(v)
        <4>1. /\ op'[v].key = op[v].key
              /\ op'[v].time = op[v].time
              /\ documents' = documents
              /\ documents[op[v].key] # None
          BY <3>0, <3>3 DEF UpdateStale, Decide, TypeOK, Op, Stored
        <4>2. Boundary(Stored(v)) \in Nat /\ ~Fresh(Stored(v), op[v].time)
          BY <3>0, <3>3, BoundaryType DEF UpdateStale
        <4>3. ~(Boundary(Stored(v)) < op[v].time)
          BY <4>2 DEF Fresh, Boundary
        <4>4. Boundary(Stored(v)) >= op[v].time
          BY <3>0, <4>2, <4>3
        <4>. QED
          BY <4>1, <4>4 DEF Stored
      <3>4. CASE InsertDuplicateKey(v)
        <4>1. op'[v].answer = "stale" /\ op'[v].early = op[v].early
          BY <3>0, <3>4 DEF InsertDuplicateKey, Decide, TypeOK, Op
        <4>2. op[v].early
          BY <3>0, <3>4 DEF InsertDuplicateKey, At, CallConsistent
        <4>. QED
          BY <4>1, <4>2 DEF Binding
      <3>5. CASE ServiceReadSame(v) \/ InsertMeetsDocument(v) \/ Fail(v)
        <4>1. op'[v].answer \in {"unchanged", "yielded", "failed"}
          BY <3>0, <3>5 DEF ServiceReadSame, InsertMeetsDocument, Fail, Decide, TypeOK, Op
        <4>. QED
          BY <4>1 DEF Binding
      <3>6. CASE Return(v)
        BY <3>6 DEF Return, TypeOK
      <3>7. CASE \/ ServiceReadNothing(v) \/ ServiceReadOther(v) \/ RepositoryRead(v)
                 \/ ShiftDecrement(v) \/ ShiftIncrement(v) \/ ShiftDelete(v)
        <4>1. /\ op'[v].key = op[v].key
              /\ op'[v].time = op[v].time
              /\ op'[v].answer = op[v].answer
              /\ op'[v].early = op[v].early
          BY <3>0, <3>7 DEF ServiceReadNothing, ServiceReadOther, RepositoryRead, Goto,
             ShiftDecrement, ShiftIncrement, ShiftDelete, TypeOK, Op
        <4>2. op[v] # None /\ Binding(op[v])
          BY <2>5, StepFrame, <4>1 DEF Binding
        <4>. QED
          BY <2>1, <4>1, <4>2
      <3>. QED
        BY <2>5, <3>1, <3>2, <3>3, <3>4, <3>5, <3>6, <3>7 DEF Step
    <2>6. CASE Review
      BY <2>2, <2>6, ReviewFrame
    <2>7. CASE UNCHANGED vars
      BY <2>2, <2>7 DEF vars
    <2>. QED
      <3>1. CASE \E w \in Writers, k \in Keys : SubmitAny(w, k)
        BY <2>1, <2>3, <3>1
      <3>2. CASE \E w \in Writers : Step(w) \/ Fail(w)
        <4>1. PICK w \in Writers : Step(w) \/ Fail(w)
          BY <3>2
        <4>2. CASE v = w
          BY <2>5, <4>1, <4>2
        <4>3. CASE v # w
          <5>1. op'[v] = op[v]
            BY <2>4, <4>1, <4>3
          <5>. QED
            BY <2>1, <5>1
        <4>. QED
          BY <4>2, <4>3
      <3>. QED
        BY <3>1, <3>2, <2>6, <2>7 DEF Next
  <1>. QED
    BY <1>1, <1>2, TypeCorrect, Consistent, PTL DEF Spec
-----------------------------------------------------------------------------
(***************************************************************************)
(* The sizes of the clusters (ClusterSizeMaintenance).  The inductive      *)
(* invariant follows what the calls in progress know and still owe.        *)
(***************************************************************************)
\* Decision k is placed in cluster c; the call of w owes cluster c a write.
Placed(k, c) == documents[k] # None /\ ClusterOf[documents[k].outcome.placement] = c
OwesInc(w, c) == op[w] # None /\ "inc" \in op[w].todo /\ Target(w) = c
OwesDec(w, c) == op[w] # None /\ "dec" \in op[w].todo /\ op[w].from = c

\* Only finitely many decisions and calls exist, whatever the keys and the writers.
FinitelyMany ==
  /\ IsFiniteSet({k \in Keys : documents[k] # None})
  /\ IsFiniteSet({w \in Writers : op[w] # None})

\* A cluster without a row has no size.
RowsCarrySizes == \A c \in Clusters : c \notin rows => sizes[c] = 0

\* A backfill in a maintenance window knows the true counts, and what it has
\* written is still true.
WindowTrue ==
  window =>
    /\ script = "upsert"
    /\ Quiet
    /\ \A c \in Clusters : counts[c] = Members(c)
    /\ \A c \in todo : counts[c] > 0
    /\ \A c \in Clusters \ todo : counts[c] > 0 => c \in rows /\ sizes[c] = counts[c]

\* Calls in progress have keys of their own.
KeysApart ==
  \A v, w \in Writers : v # w /\ op[v] # None /\ op[w] # None => op[v].key # op[w].key

\* What a call knows of its decision is still true.
CallCurrent(w) ==
  op[w] # None =>
    /\ op[w].pc # "shift" => op[w].todo = {}
    /\ op[w].pc \in {"read", "reread", "insert"} => op[w].from = None
    /\ op[w].pc \in {"reread", "insert"} => Stored(w) = None
    /\ op[w].pc = "update" => Placed(op[w].key, op[w].from)
    /\ op[w].pc = "shift" => /\ Placed(op[w].key, Target(w))
                             /\ op[w].todo \subseteq ShiftWrites(op[w].from, Target(w))

\* The row of an empty cluster is one that a call is about to delete.
Leaving(w, c) == At(w, "shift") /\ op[w].from = c /\ Target(w) # c
RowsEarned == \A c \in rows : sizes[c] > 0 \/ \E w \in Writers : Leaving(w, c)

SizesExact ==
  exact =>
    /\ script = "upsert" => window
    /\ KeysApart
    /\ \A w \in Writers : CallCurrent(w)
    /\ SizesFollowDecisions
    /\ RowsEarned

SizesInv == SizeTypeOK /\ FinitelyMany /\ RowsCarrySizes /\ WindowTrue /\ SizesExact

-----------------------------------------------------------------------------
One(b) == IF b THEN 1 ELSE 0

\* Two sets that agree except perhaps on x differ in size by what x makes.
LEMMA OneMoves ==
  ASSUME NEW S, IsFiniteSet(S), NEW T, NEW x,
         \A y : y # x => (y \in S <=> y \in T)
  PROVE  /\ IsFiniteSet(T)
         /\ Cardinality(S) \in Nat
         /\ Cardinality(T) = Cardinality(S) + One(x \in T) - One(x \in S)
  <1>0. Cardinality(S) \in Nat
    BY FS_CardinalityType
  <1>1. CASE x \in S /\ x \notin T
    <2>1. T = S \ {x}
      BY <1>1
    <2>. QED
      BY <1>0, <1>1, <2>1, FS_RemoveElement DEF One
  <1>2. CASE x \notin S /\ x \in T
    <2>1. T = S \union {x}
      BY <1>2
    <2>. QED
      BY <1>0, <1>2, <2>1, FS_AddElement DEF One
  <1>3. CASE x \in S <=> x \in T
    <2>1. T = S
      BY <1>3
    <2>. QED
      BY <1>0, <2>1 DEF One
  <1>. QED
    BY <1>1, <1>2, <1>3

Placements(c) == {k \in Keys : Placed(k, c)}
OwingInc(c) == {w \in Writers : OwesInc(w, c)}
OwingDec(c) == {w \in Writers : OwesDec(w, c)}

\* What is counted is finite.
LEMMA BooksFinite ==
  ASSUME FinitelyMany, NEW c
  PROVE  /\ IsFiniteSet(Placements(c)) /\ Members(c) = Cardinality(Placements(c))
         /\ IsFiniteSet(OwingInc(c)) /\ IsFiniteSet(OwingDec(c))
         /\ Owed(c) = Cardinality(OwingInc(c)) - Cardinality(OwingDec(c))
         /\ Members(c) \in Nat
         /\ Cardinality(OwingInc(c)) \in Nat /\ Cardinality(OwingDec(c)) \in Nat
         /\ Owed(c) \in Int
  <1>1. /\ Placements(c) \subseteq {k \in Keys : documents[k] # None}
        /\ OwingInc(c) \subseteq {w \in Writers : op[w] # None}
        /\ OwingDec(c) \subseteq {w \in Writers : op[w] # None}
    BY DEF Placements, Placed, OwingInc, OwesInc, OwingDec, OwesDec
  <1>2. IsFiniteSet(Placements(c)) /\ IsFiniteSet(OwingInc(c)) /\ IsFiniteSet(OwingDec(c))
    BY <1>1, FS_Subset DEF FinitelyMany
  <1>3. /\ Members(c) = Cardinality(Placements(c))
        /\ Owed(c) = Cardinality(OwingInc(c)) - Cardinality(OwingDec(c))
    BY DEF Members, Owed, Placements, Placed, OwingInc, OwesInc, OwingDec, OwesDec
  <1>. QED
    BY <1>2, <1>3, FS_CardinalityType

\* A step of one call, which writes at most its own decision, moves the books by
\* what changes for that call and that decision.
LEMMA BooksMove ==
  ASSUME FinitelyMany,
         NEW w \in Writers, \A v \in Writers \ {w} : op'[v] = op[v],
         NEW k \in Keys, \A j \in Keys \ {k} : documents'[j] = documents[j],
         NEW c
  PROVE  /\ FinitelyMany'
         /\ Members(c)' = Members(c) + One(Placed(k, c)') - One(Placed(k, c))
         /\ Owed(c)' = Owed(c) + One(OwesInc(w, c)') - One(OwesInc(w, c))
                               - One(OwesDec(w, c)') + One(OwesDec(w, c))
  <1>1. FinitelyMany'
    <2>. DEFINE there == {j \in Keys : documents'[j] # None}
                busy == {v \in Writers : op'[v] # None}
    <2>1. \A j : j # k => (j \in {i \in Keys : documents[i] # None} <=> j \in there)
      OBVIOUS
    <2>2. \A v : v # w => (v \in {u \in Writers : op[u] # None} <=> v \in busy)
      OBVIOUS
    <2>. HIDE DEF there, busy
    <2>3. IsFiniteSet(there) /\ IsFiniteSet(busy)
      BY <2>1, <2>2, OneMoves DEF FinitelyMany
    <2>. QED
      BY <2>3 DEF FinitelyMany, there, busy
  <1>2. /\ IsFiniteSet(Placements(c)) /\ IsFiniteSet(OwingInc(c)) /\ IsFiniteSet(OwingDec(c))
        /\ Members(c) = Cardinality(Placements(c))
        /\ Owed(c) = Cardinality(OwingInc(c)) - Cardinality(OwingDec(c))
    BY BooksFinite
  <1>3. /\ Members(c)' = Cardinality(Placements(c)')
        /\ Owed(c)' = Cardinality(OwingInc(c)') - Cardinality(OwingDec(c)')
    BY DEF Members, Owed, Placements, Placed, OwingInc, OwesInc, OwingDec, OwesDec
  <1>4. /\ Cardinality(Placements(c)) \in Nat
        /\ Cardinality(Placements(c)') = Cardinality(Placements(c))
                                         + One(Placed(k, c)') - One(Placed(k, c))
    <2>1. \A j : j # k => (j \in Placements(c) <=> j \in Placements(c)')
      BY DEF Placements, Placed
    <2>2. /\ k \in Placements(c) <=> Placed(k, c)
          /\ k \in Placements(c)' <=> Placed(k, c)'
      BY DEF Placements
    <2>. QED
      BY <1>2, <2>1, <2>2, OneMoves DEF One
  <1>5. /\ Cardinality(OwingInc(c)) \in Nat
        /\ Cardinality(OwingInc(c)') = Cardinality(OwingInc(c))
                                       + One(OwesInc(w, c)') - One(OwesInc(w, c))
    <2>1. \A v : v # w => (v \in OwingInc(c) <=> v \in OwingInc(c)')
      BY DEF OwingInc, OwesInc, Target
    <2>2. /\ w \in OwingInc(c) <=> OwesInc(w, c)
          /\ w \in OwingInc(c)' <=> OwesInc(w, c)'
      BY DEF OwingInc
    <2>. QED
      BY <1>2, <2>1, <2>2, OneMoves DEF One
  <1>6. /\ Cardinality(OwingDec(c)) \in Nat
        /\ Cardinality(OwingDec(c)') = Cardinality(OwingDec(c))
                                       + One(OwesDec(w, c)') - One(OwesDec(w, c))
    <2>1. \A v : v # w => (v \in OwingDec(c) <=> v \in OwingDec(c)')
      BY DEF OwingDec, OwesDec
    <2>2. /\ w \in OwingDec(c) <=> OwesDec(w, c)
          /\ w \in OwingDec(c)' <=> OwesDec(w, c)'
      BY DEF OwingDec
    <2>. QED
      BY <1>2, <2>1, <2>2, OneMoves DEF One
  <1>7. \A b : One(b) \in Nat
    BY DEF One
  <1>8. Members(c)' = Members(c) + One(Placed(k, c)') - One(Placed(k, c))
    BY <1>2, <1>3, <1>4
  <1>9. Owed(c)' = Owed(c) + One(OwesInc(w, c)') - One(OwesInc(w, c))
                           - One(OwesDec(w, c)') + One(OwesDec(w, c))
    BY <1>2, <1>3, <1>5, <1>6, <1>7
  <1>. QED
    BY <1>1, <1>8, <1>9

-----------------------------------------------------------------------------
\* What the step of a call leaves alone.
LEMMA CallFrame ==
  ASSUME TypeOK, NEW w \in Writers, Step(w) \/ Fail(w)
  PROVE  /\ op[w] # None /\ op[w] \in Op
         /\ op[w].key \in Keys /\ op[w].outcome \in Outcomes /\ op[w].time \in Times
         /\ op[w].from \in Clusters \union {None} /\ op[w].todo \subseteq {"dec", "inc"}
         /\ Target(w) \in Clusters
         /\ \A v \in Writers \ {w} : op'[v] = op[v]
         /\ \A j \in Keys \ {op[w].key} : documents'[j] = documents[j]
         /\ op'[w] # None => op'[w].key = op[w].key /\ op'[w].outcome = op[w].outcome
  <1>1. op[w] # None /\ \A v \in Writers \ {w} : op'[v] = op[v]
    BY StepFrame
  <1>2. op[w] \in Op
    BY <1>1 DEF TypeOK
  <1>3. /\ op[w].key \in Keys /\ op[w].outcome \in Outcomes /\ op[w].time \in Times
        /\ op[w].from \in Clusters \union {None} /\ op[w].todo \subseteq {"dec", "inc"}
        /\ Target(w) \in Clusters
    BY <1>2, ClusterAssumption DEF Op, Target, Outcomes
  <1>4. \A j \in Keys \ {op[w].key} : documents'[j] = documents[j]
    BY DEF TypeOK, Step, Fail, ServiceReadNothing, ServiceReadSame, ServiceReadOther,
       RepositoryRead, Insert, InsertMeetsDocument, InsertDuplicateKey, Update,
       UpdateStale, ShiftDecrement, ShiftIncrement, ShiftDelete, Return
  <1>5. op'[w] # None => op'[w].key = op[w].key /\ op'[w].outcome = op[w].outcome
    BY <1>2 DEF TypeOK, Op, Step, Fail, Goto, Decide, ServiceReadNothing, ServiceReadSame,
       ServiceReadOther, RepositoryRead, Insert, InsertMeetsDocument,
       InsertDuplicateKey, Update, UpdateStale, ShiftDecrement, ShiftIncrement,
       ShiftDelete, Return
  <1>. QED
    BY <1>1, <1>2, <1>3, <1>4, <1>5

\* What becomes of a call that is decided.
LEMMA DecideFields ==
  ASSUME TypeOK, NEW w \in Writers, op[w] # None,
         NEW a \in Answers, NEW o \in Outcomes \union {None}, NEW step \in Steps,
         Decide(w, a, o, step)
  PROVE  /\ op'[w] # None
         /\ op'[w].pc = step
         /\ op'[w].key = op[w].key
         /\ op'[w].outcome = op[w].outcome
         /\ op'[w].from = op[w].from
         /\ op'[w].todo = IF step = "shift" THEN ShiftWrites(op[w].from, Target(w)) ELSE {}
  <1>. DEFINE writes == IF step = "shift" THEN ShiftWrites(op[w].from, Target(w)) ELSE {}
              r == [op[w] EXCEPT !.answer = a, !.got = o, !.pc = step, !.todo = writes]
  <1>1. op[w] \in Op
    BY DEF TypeOK
  <1>2. writes \in SUBSET {"dec", "inc"}
    BY DEF ShiftWrites
  <1>3. op'[w] = r
    BY <1>1 DEF Decide, TypeOK
  <1>. HIDE DEF writes
  <1>4. /\ r \in Op
        /\ r.pc = step
        /\ r.key = op[w].key
        /\ r.outcome = op[w].outcome
        /\ r.from = op[w].from
        /\ r.todo = writes
    BY <1>1, <1>2 DEF Op
  <1>. HIDE DEF r
  <1>5. r # None
    BY <1>4, NoneAssumption
  <1>. QED
    BY <1>3, <1>4, <1>5 DEF writes

\* No size is smaller than what calls will still take from it: the calls that owe
\* an increment have decisions of their own in the cluster.
LEMMA SizesCover ==
  ASSUME SizesInv, exact, NEW c \in Clusters
  PROVE  /\ sizes[c] \in Int
         /\ sizes[c] >= 0
         /\ \A w \in Writers : OwesDec(w, c) => sizes[c] >= 1 /\ c \in rows
  <1>1. /\ IsFiniteSet(Placements(c)) /\ Members(c) = Cardinality(Placements(c))
        /\ IsFiniteSet(OwingInc(c)) /\ IsFiniteSet(OwingDec(c))
        /\ Owed(c) = Cardinality(OwingInc(c)) - Cardinality(OwingDec(c))
        /\ Members(c) \in Nat
        /\ Cardinality(OwingInc(c)) \in Nat /\ Cardinality(OwingDec(c)) \in Nat
    BY BooksFinite DEF SizesInv
  <1>2. sizes[c] \in Int /\ sizes[c] + Owed(c) = Members(c)
    BY DEF SizesInv, SizeTypeOK, TypeOK, SizesExact, SizesFollowDecisions
  <1>3. Cardinality(OwingInc(c)) <= Cardinality(Placements(c))
    <2>. DEFINE f == [w \in OwingInc(c) |-> op[w].key]
    <2>1. \A w \in OwingInc(c) : f[w] \in Placements(c)
      <3>. SUFFICES ASSUME NEW w \in OwingInc(c) PROVE f[w] \in Placements(c)
        OBVIOUS
      <3>1. w \in Writers /\ op[w] # None /\ "inc" \in op[w].todo /\ Target(w) = c
        BY DEF OwingInc, OwesInc
      <3>2. CallCurrent(w)
        BY <3>1 DEF SizesInv, SizesExact
      <3>3. op[w] \in Op /\ op[w].key \in Keys
        BY <3>1 DEF SizesInv, SizeTypeOK, TypeOK, Op
      <3>4. Placed(op[w].key, c)
        BY <3>1, <3>2 DEF CallCurrent
      <3>. QED
        BY <3>3, <3>4 DEF Placements
    <2>2. \A v, w \in OwingInc(c) : f[v] = f[w] => v = w
      BY DEF SizesInv, SizesExact, KeysApart, OwingInc, OwesInc
    <2>3. f \in Injection(OwingInc(c), Placements(c))
      BY <2>1, <2>2 DEF Injection, IsInjective
    <2>. QED
      BY <1>1, <2>3, FS_Injection
  <1>4. sizes[c] >= Cardinality(OwingDec(c))
    BY <1>1, <1>2, <1>3
  <1>5. ASSUME NEW w \in Writers, OwesDec(w, c) PROVE sizes[c] >= 1 /\ c \in rows
    <2>1. OwingDec(c) # {}
      BY <1>5 DEF OwingDec
    <2>2. Cardinality(OwingDec(c)) # 0
      BY <1>1, <2>1, FS_EmptySet
    <2>3. sizes[c] >= 1
      BY <1>1, <1>2, <1>4, <2>2
    <2>. QED
      BY <1>2, <2>3 DEF SizesInv, RowsCarrySizes
  <1>. QED
    BY <1>1, <1>2, <1>4, <1>5

\* The sizes, what call w owes and its decision k change by the same amount.
Agrees(w, k) ==
  \A c \in Clusters :
    sizes'[c] + One(OwesInc(w, c)') - One(OwesInc(w, c))
              - One(OwesDec(w, c)') + One(OwesDec(w, c))
      = sizes[c] + One(Placed(k, c)') - One(Placed(k, c))

\* A step before the index is written, of a call that owes nothing after it either.
LEMMA OwingNothing ==
  ASSUME SizesInv, exact, NEW w \in Writers, op[w] # None, op[w].pc # "shift",
         \A v \in Writers \ {w} : op'[v] = op[v],
         op'[w] # None => op'[w].todo = {},
         UNCHANGED <<documents, rows, sizes>>,
         NEW k \in Keys
  PROVE  Agrees(w, k) /\ RowsEarned'
  <1>1. op[w].todo = {}
    BY DEF SizesInv, SizesExact, CallCurrent
  <1>2. \A c : ~OwesInc(w, c) /\ ~OwesDec(w, c) /\ ~OwesInc(w, c)' /\ ~OwesDec(w, c)'
    BY <1>1 DEF OwesInc, OwesDec
  <1>3. \A c : Placed(k, c)' <=> Placed(k, c)
    BY DEF Placed
  <1>4. \A c \in Clusters : sizes[c] \in Int
    BY DEF SizesInv, SizeTypeOK, TypeOK
  <1>5. Agrees(w, k)
    BY <1>2, <1>3, <1>4 DEF Agrees, One
  <1>6. RowsEarned'
    BY DEF SizesInv, SizesExact, RowsEarned, Leaving, At, Target
  <1>. QED
    BY <1>5, <1>6

\* A call that is alone with its decision keeps the books: what it knows stays
\* true, and its writes and what it owes make up for what it does to the decision.
LEMMA StepKeepsBooks ==
  ASSUME SizesInv, exact, NEW w \in Writers, Step(w), NEW k \in Keys, k = op[w].key
  PROVE  CallCurrent(w)' /\ Agrees(w, k) /\ RowsEarned'
  <1>0. /\ TypeOK
        /\ op[w] # None /\ op[w] \in Op
        /\ op[w].key = k /\ op[w].outcome \in Outcomes /\ op[w].time \in Times
        /\ op[w].from \in Clusters \union {None} /\ op[w].todo \subseteq {"dec", "inc"}
        /\ Target(w) \in Clusters /\ None \notin Clusters
        /\ \A v \in Writers \ {w} : op'[v] = op[v]
        /\ op'[w] # None => op'[w].key = k /\ op'[w].outcome = op[w].outcome
        /\ Target(w)' = ClusterOf[op'[w].outcome.placement]
        /\ documents[k] \in Decision \union {None}
        /\ \A c \in Clusters : sizes[c] \in Int
    BY CallFrame, NoneAssumption DEF SizesInv, SizeTypeOK, TypeOK, Target
  <1>c. /\ op[w].pc # "shift" => op[w].todo = {}
        /\ op[w].pc \in {"read", "reread", "insert"} => op[w].from = None
        /\ op[w].pc \in {"reread", "insert"} => documents[k] = None
        /\ op[w].pc = "update" => Placed(k, op[w].from)
        /\ op[w].pc = "shift" => /\ Placed(k, Target(w))
                                 /\ op[w].todo \subseteq ShiftWrites(op[w].from, Target(w))
    BY <1>0 DEF SizesInv, SizesExact, CallCurrent, Stored
  <1>r. /\ \A c \in rows : sizes[c] > 0 \/ \E v \in Writers : Leaving(v, c)
        /\ \A c, v : v \in Writers \ {w} => (Leaving(v, c)' <=> Leaving(v, c))
        /\ rows \subseteq Clusters
    <2>1. \A c, v : v \in Writers \ {w} => (Leaving(v, c)' <=> Leaving(v, c))
      BY <1>0 DEF Leaving, At, Target
    <2>. QED
      BY <2>1, <1>0 DEF SizesInv, SizesExact, RowsEarned, TypeOK
  <1>1. CASE ServiceReadNothing(w)
    <2>1. op'[w] = [op[w] EXCEPT !.pc = "reread"] /\ op[w].pc = "read" /\ documents[k] = None
      BY <1>0, <1>1 DEF ServiceReadNothing, Goto, At, Stored, TypeOK
    <2>2. op'[w].pc = "reread" /\ op'[w].todo = op[w].todo /\ op'[w].from = op[w].from
      BY <1>0, <2>1 DEF Op
    <2>3. UNCHANGED <<documents, rows, sizes>>
      BY <1>1 DEF ServiceReadNothing, Goto
    <2>4. CallCurrent(w)'
      BY <1>0, <1>c, <2>1, <2>2, <2>3 DEF CallCurrent, Stored
    <2>. QED
      BY <1>0, <1>c, <2>1, <2>2, <2>3, <2>4, OwingNothing
  <1>2. CASE ServiceReadSame(w)
    <2>1. op[w].pc = "read" /\ UNCHANGED <<documents, rows, sizes>>
      BY <1>2 DEF ServiceReadSame, At, Decide
    <2>2. Stored(w).outcome \in Outcomes
      BY <1>0, <1>2 DEF ServiceReadSame, Stored, Decision
    <2>3. op'[w].pc = "done" /\ op'[w].todo = {}
      BY <1>0, <1>2, <2>2, DecideFields DEF ServiceReadSame, Answers, Steps
    <2>4. CallCurrent(w)'
      BY <2>3 DEF CallCurrent
    <2>. QED
      BY <1>0, <2>1, <2>3, <2>4, OwingNothing
  <1>3. CASE ServiceReadOther(w)
    <2>1. /\ op'[w] = [op[w] EXCEPT !.pc = "update",
                         !.from = ClusterOf[documents[k].outcome.placement]]
          /\ op[w].pc = "read" /\ documents[k] # None
      BY <1>0, <1>3 DEF ServiceReadOther, At, Stored, TypeOK
    <2>2. /\ op'[w].pc = "update" /\ op'[w].todo = op[w].todo
          /\ op'[w].from = ClusterOf[documents[k].outcome.placement]
          /\ op'[w].key = k
      BY <1>0, <2>1 DEF Op
    <2>3. UNCHANGED <<documents, rows, sizes>>
      BY <1>3 DEF ServiceReadOther
    <2>4. CallCurrent(w)'
      BY <1>0, <1>c, <2>1, <2>2, <2>3 DEF CallCurrent, Placed
    <2>. QED
      BY <1>0, <1>c, <2>1, <2>2, <2>3, <2>4, OwingNothing
  <1>4. CASE RepositoryRead(w)
    <2>1. op'[w] = [op[w] EXCEPT !.pc = "insert"] /\ op[w].pc = "reread" /\ documents[k] = None
      BY <1>0, <1>c, <1>4 DEF RepositoryRead, Goto, At, Stored, TypeOK
    <2>2. op'[w].pc = "insert" /\ op'[w].todo = op[w].todo /\ op'[w].from = op[w].from
      BY <1>0, <2>1 DEF Op
    <2>3. UNCHANGED <<documents, rows, sizes>>
      BY <1>4 DEF RepositoryRead, Goto
    <2>4. CallCurrent(w)'
      BY <1>0, <1>c, <2>1, <2>2, <2>3 DEF CallCurrent, Stored
    <2>. QED
      BY <1>0, <1>c, <2>1, <2>2, <2>3, <2>4, OwingNothing
  <1>5. CASE Insert(w)
    <2>1. op[w].pc = "insert" /\ UNCHANGED <<rows, sizes>>
      BY <1>5 DEF Insert, At, Decide
    <2>2. op[w].from = None /\ op[w].todo = {} /\ documents[k] = None
      BY <1>c, <2>1
    <2>3. /\ op'[w] # None /\ op'[w].pc = "shift" /\ op'[w].from = None
          /\ op'[w].todo = ShiftWrites(None, Target(w))
      BY <1>0, <1>5, <2>2, DecideFields DEF Insert, Answers, Steps
    <2>4. op'[w].todo = {"inc"} /\ Target(w)' = Target(w)
      BY <1>0, <2>3 DEF ShiftWrites, Target
    <2>5. documents'[k] = InsertDocument(op[w].outcome, op[w].time)
      BY <1>0, <1>5 DEF Insert, TypeOK
    <2>6. documents'[k] # None /\ documents'[k].outcome = op[w].outcome
      <3>1. InsertDocument(op[w].outcome, op[w].time) \in Decision
        BY <1>0, DocumentType
      <3>2. InsertDocument(op[w].outcome, op[w].time).outcome = op[w].outcome
        BY DEF InsertDocument
      <3>. QED
        BY <2>5, <3>1, <3>2, NoneAssumption
    <2>7. \A c : ~Placed(k, c) /\ (Placed(k, c)' <=> c = Target(w))
      BY <2>2, <2>6 DEF Placed, Target
    <2>8. \A c : /\ ~OwesInc(w, c) /\ ~OwesDec(w, c)
                 /\ OwesInc(w, c)' <=> c = Target(w)
                 /\ ~OwesDec(w, c)'
      BY <2>2, <2>3, <2>4 DEF OwesInc, OwesDec
    <2>9. CallCurrent(w)'
      BY <1>0, <2>3, <2>4, <2>6 DEF CallCurrent, Placed, ShiftWrites, Target
    <2>10. Agrees(w, k)
      BY <1>0, <2>1, <2>7, <2>8 DEF Agrees, One
    <2>11. \A c : ~Leaving(w, c)
      BY <2>1 DEF Leaving, At
    <2>12. RowsEarned'
      BY <1>r, <2>1, <2>11 DEF RowsEarned
    <2>. QED
      BY <2>9, <2>10, <2>12
  <1>6. CASE InsertMeetsDocument(w) \/ InsertDuplicateKey(w)
    BY <1>0, <1>c, <1>6 DEF InsertMeetsDocument, InsertDuplicateKey, At, Stored
  <1>7. CASE Update(w)
    <2>1. op[w].pc = "update" /\ UNCHANGED <<rows, sizes>>
      BY <1>7 DEF Update, At, Decide
    <2>2. op[w].todo = {} /\ Placed(k, op[w].from)
      BY <1>c, <2>1
    <2>3. documents[k] \in Decision /\ documents[k] # None
      BY <1>0, <2>2 DEF Placed
    <2>4. op[w].from \in Clusters /\ op[w].from # None
      BY <1>0, <2>2, <2>3, ClusterAssumption DEF Placed, Decision, Outcomes
    <2>5. /\ op'[w] # None /\ op'[w].pc = "shift" /\ op'[w].from = op[w].from
          /\ op'[w].todo = ShiftWrites(op[w].from, Target(w))
          /\ Target(w)' = Target(w)
      BY <1>0, <1>7, DecideFields DEF Update, Answers, Steps, Target
    <2>6. documents'[k] = UpdateDocument(documents[k], op[w].outcome, op[w].time)
      BY <1>0, <1>7 DEF Update, TypeOK
    <2>7. documents'[k] # None /\ documents'[k].outcome = op[w].outcome
      <3>1. UpdateDocument(documents[k], op[w].outcome, op[w].time) \in Decision
        BY <1>0, <2>3, DocumentType
      <3>2. UpdateDocument(documents[k], op[w].outcome, op[w].time).outcome = op[w].outcome
        BY <2>3 DEF UpdateDocument, Decision
      <3>. QED
        BY <2>6, <3>1, <3>2, NoneAssumption
    <2>8. \A c : (Placed(k, c) <=> c = op[w].from) /\ (Placed(k, c)' <=> c = Target(w))
      BY <2>2, <2>7 DEF Placed, Target
    <2>9. \A c : /\ ~OwesInc(w, c) /\ ~OwesDec(w, c)
                 /\ OwesInc(w, c)' <=> op[w].from # Target(w) /\ c = Target(w)
                 /\ OwesDec(w, c)' <=> op[w].from # Target(w) /\ c = op[w].from
      BY <2>2, <2>4, <2>5 DEF OwesInc, OwesDec, ShiftWrites
    <2>10. CallCurrent(w)'
      BY <1>0, <2>5, <2>7 DEF CallCurrent, Placed, Target
    <2>11. Agrees(w, k)
      BY <1>0, <2>1, <2>8, <2>9 DEF Agrees, One
    <2>12. \A c : ~Leaving(w, c)
      BY <2>1 DEF Leaving, At
    <2>13. RowsEarned'
      BY <1>r, <2>1, <2>12 DEF RowsEarned
    <2>. QED
      BY <2>10, <2>11, <2>13
  <1>8. CASE UpdateStale(w)
    <2>1. op[w].pc = "update" /\ UNCHANGED <<documents, rows, sizes>>
      BY <1>8 DEF UpdateStale, At, Decide
    <2>2. op'[w].pc = "done" /\ op'[w].todo = {}
      BY <1>0, <1>8, DecideFields DEF UpdateStale, Answers, Steps
    <2>3. CallCurrent(w)'
      BY <2>2 DEF CallCurrent
    <2>. QED
      BY <1>0, <2>1, <2>2, <2>3, OwingNothing
  <1>9. CASE ShiftDecrement(w)
    <2>1. op[w].pc = "shift" /\ "dec" \in op[w].todo /\ UNCHANGED <<documents, rows>>
      BY <1>9 DEF ShiftDecrement, At
    <2>2. op'[w] = [op[w] EXCEPT !.todo = @ \ {"dec"}]
      BY <1>0, <1>9 DEF ShiftDecrement, TypeOK
    <2>3. /\ op'[w] # None /\ op'[w].pc = "shift" /\ op'[w].from = op[w].from
          /\ op'[w].todo = op[w].todo \ {"dec"} /\ op'[w].key = k
          /\ Target(w)' = Target(w)
      <3>1. op'[w] \in Op
        BY <1>0, <2>2 DEF Op
      <3>2. op'[w] # None
        BY <3>1, NoneAssumption
      <3>. QED
        BY <1>0, <2>1, <2>2, <3>2 DEF Op, Target
    <2>4. op[w].from # Target(w) /\ op[w].from # None
      BY <1>c, <2>1 DEF ShiftWrites
    <2>5. op[w].from \in Clusters /\ OwesDec(w, op[w].from)
      BY <1>0, <2>1, <2>4 DEF OwesDec
    <2>6. op[w].from \in rows /\ sizes' = [sizes EXCEPT ![op[w].from] = @ - 1]
      BY <2>5, <1>9, SizesCover DEF ShiftDecrement
    <2>7. /\ sizes'[op[w].from] = sizes[op[w].from] - 1
          /\ \A c \in Clusters : c # op[w].from => sizes'[c] = sizes[c]
      BY <1>0, <2>5, <2>6 DEF TypeOK
    <2>8. \A c : /\ OwesInc(w, c)' <=> OwesInc(w, c)
                 /\ OwesDec(w, c) <=> c = op[w].from
                 /\ ~OwesDec(w, c)'
                 /\ Placed(k, c)' <=> Placed(k, c)
      BY <1>0, <2>1, <2>3 DEF OwesInc, OwesDec, Placed
    <2>9. CallCurrent(w)'
      BY <1>c, <2>1, <2>3 DEF CallCurrent, Placed
    <2>10. Agrees(w, k)
      BY <1>0, <2>7, <2>8 DEF Agrees, One
    <2>11. \A c : /\ c = op[w].from => Leaving(w, c)'
                  /\ Leaving(w, c) => c = op[w].from
      BY <2>3, <2>4 DEF Leaving, At
    <2>12. RowsEarned'
      <3>. SUFFICES ASSUME NEW c \in rows'
                    PROVE  sizes'[c] > 0 \/ \E v \in Writers : Leaving(v, c)'
        BY DEF RowsEarned
      <3>1. CASE c = op[w].from
        BY <2>11, <3>1
      <3>2. CASE c # op[w].from
        BY <1>r, <2>1, <2>7, <2>11, <3>2
      <3>. QED
        BY <3>1, <3>2
    <2>. QED
      BY <2>9, <2>10, <2>12
  <1>10. CASE ShiftIncrement(w)
    <2>1. op[w].pc = "shift" /\ "inc" \in op[w].todo /\ documents' = documents
      BY <1>10 DEF ShiftIncrement, At
    <2>2. op'[w] = [op[w] EXCEPT !.todo = @ \ {"inc"}]
      BY <1>0, <1>10 DEF ShiftIncrement, TypeOK
    <2>3. /\ op'[w] # None /\ op'[w].pc = "shift" /\ op'[w].from = op[w].from
          /\ op'[w].todo = op[w].todo \ {"inc"} /\ op'[w].key = k
          /\ Target(w)' = Target(w)
      <3>1. op'[w] \in Op
        BY <1>0, <2>2 DEF Op
      <3>2. op'[w] # None
        BY <3>1, NoneAssumption
      <3>. QED
        BY <1>0, <2>1, <2>2, <3>2 DEF Op, Target
    <2>4. /\ sizes'[Target(w)] = sizes[Target(w)] + 1
          /\ \A c \in Clusters : c # Target(w) => sizes'[c] = sizes[c]
          /\ rows' = rows \union {Target(w)}
      BY <1>0, <1>10 DEF ShiftIncrement, TypeOK
    <2>5. \A c : /\ OwesDec(w, c)' <=> OwesDec(w, c)
                 /\ OwesInc(w, c) <=> c = Target(w)
                 /\ ~OwesInc(w, c)'
                 /\ Placed(k, c)' <=> Placed(k, c)
      BY <1>0, <2>1, <2>3 DEF OwesInc, OwesDec, Placed
    <2>6. CallCurrent(w)'
      BY <1>c, <2>1, <2>3 DEF CallCurrent, Placed
    <2>7. Agrees(w, k)
      BY <1>0, <2>4, <2>5 DEF Agrees, One
    <2>8. \A c : Leaving(w, c)' <=> Leaving(w, c)
      BY <1>0, <2>1, <2>3 DEF Leaving, At
    <2>9. RowsEarned'
      <3>. SUFFICES ASSUME NEW c \in rows'
                    PROVE  sizes'[c] > 0 \/ \E v \in Writers : Leaving(v, c)'
        BY DEF RowsEarned
      <3>1. CASE c = Target(w)
        BY <1>0, <2>4, <3>1, SizesCover
      <3>2. CASE c # Target(w)
        BY <1>r, <2>4, <2>8, <3>2
      <3>. QED
        BY <3>1, <3>2
    <2>. QED
      BY <2>6, <2>7, <2>9
  <1>11. CASE ShiftDelete(w)
    <2>1. op[w].pc = "shift" /\ op[w].todo = {} /\ documents' = documents
      BY <1>11 DEF ShiftDelete, At
    <2>2. PICK emptied : /\ emptied = {c \in rows \ {Target(w)} : c = op[w].from /\ sizes[c] <= 0}
                         /\ rows' = rows \ emptied
                         /\ sizes' = [c \in Clusters |-> IF c \in emptied THEN 0 ELSE sizes[c]]
      BY <1>11 DEF ShiftDelete
    <2>3. \A c \in Clusters : sizes'[c] = sizes[c]
      BY <1>0, <1>r, <2>2, SizesCover
    <2>4. op'[w].pc = "done" /\ op'[w].todo = {}
      BY <1>0, <1>11, <2>1 DEF ShiftDelete, TypeOK, Op
    <2>5. \A c : /\ ~OwesInc(w, c) /\ ~OwesDec(w, c) /\ ~OwesInc(w, c)' /\ ~OwesDec(w, c)'
                 /\ Placed(k, c)' <=> Placed(k, c)
      BY <2>1, <2>4 DEF OwesInc, OwesDec, Placed
    <2>6. CallCurrent(w)'
      BY <2>4 DEF CallCurrent
    <2>7. Agrees(w, k)
      BY <1>0, <2>3, <2>5 DEF Agrees, One
    <2>8. RowsEarned'
      <3>. SUFFICES ASSUME NEW c \in rows', ~(sizes'[c] > 0)
                    PROVE  \E v \in Writers : Leaving(v, c)'
        BY DEF RowsEarned
      <3>1. c \in rows /\ c \in Clusters /\ c \notin emptied /\ sizes[c] <= 0
        BY <1>0, <1>r, <2>2, <2>3
      <3>2. PICK v \in Writers : Leaving(v, c)
        BY <1>0, <1>r, <3>1
      <3>3. v # w
        BY <2>2, <3>1, <3>2 DEF Leaving
      <3>. QED
        BY <1>r, <3>2, <3>3
    <2>. QED
      BY <2>6, <2>7, <2>8
  <1>12. CASE Return(w)
    <2>1. op[w].pc = "done" /\ UNCHANGED <<documents, rows, sizes>>
      BY <1>12 DEF Return, At
    <2>2. op'[w] = None
      BY <1>0, <1>12 DEF Return, TypeOK
    <2>3. CallCurrent(w)'
      BY <2>2 DEF CallCurrent
    <2>. QED
      BY <1>0, <2>1, <2>2, <2>3, OwingNothing
  <1>. QED
    BY <1>1, <1>2, <1>3, <1>4, <1>5, <1>6, <1>7, <1>8, <1>9, <1>10, <1>11, <1>12 DEF Step

\* The backfill changes neither the decisions nor the calls.
LEMMA BackfillFrame ==
  ASSUME UNCHANGED <<documents, op>>
  PROVE  /\ FinitelyMany' <=> FinitelyMany
         /\ Quiet' <=> Quiet
         /\ \A c : Members(c)' = Members(c) /\ Owed(c)' = Owed(c)
         /\ KeysApart' <=> KeysApart
         /\ \A w : CallCurrent(w)' <=> CallCurrent(w)
         /\ \A w, c : Leaving(w, c)' <=> Leaving(w, c)
  <1>1. FinitelyMany' <=> FinitelyMany
    BY DEF FinitelyMany
  <1>2. Quiet' <=> Quiet
    BY DEF Quiet
  <1>3. \A c : Members(c)' = Members(c) /\ Owed(c)' = Owed(c)
    BY DEF Members, Owed, Target
  <1>4. KeysApart' <=> KeysApart
    BY DEF KeysApart
  <1>5. \A w : CallCurrent(w)' <=> CallCurrent(w)
    BY DEF CallCurrent, Stored, Placed, Target
  <1>6. \A w, c : Leaving(w, c)' <=> Leaving(w, c)
    BY DEF Leaving, At, Target
  <1>. QED
    BY <1>1, <1>2, <1>3, <1>4, <1>5, <1>6

\* Nothing is owed while no call is in progress.
LEMMA QuietOwesNothing ==
  ASSUME FinitelyMany, Quiet, NEW c
  PROVE  Owed(c) = 0 /\ \A w \in Writers : ~Leaving(w, c)
  <1>1. OwingInc(c) = {} /\ OwingDec(c) = {}
    BY DEF Quiet, OwingInc, OwesInc, OwingDec, OwesDec
  <1>2. Owed(c) = 0
    BY <1>1, BooksFinite, FS_EmptySet
  <1>. QED
    BY <1>2 DEF Quiet, Leaving, At

LEMMA SizesHoldFirst ==
  ASSUME SizeInit
  PROVE  SizesInv
  <1>1. SizeTypeOK
    <2>1. TypeOK
      BY BoundsAssumption DEF SizeInit, Init, TypeOK
    <2>2. {window, exact} \subseteq BOOLEAN
      BY Zenon DEF SizeInit
    <2>. QED
      BY <2>1, <2>2 DEF SizeInit, SizeTypeOK, NoCounts
  <1>2. FinitelyMany
    <2>1. {k \in Keys : documents[k] # None} = {} /\ {w \in Writers : op[w] # None} = {}
      BY DEF SizeInit, Init
    <2>. QED
      BY <2>1, FS_EmptySet DEF FinitelyMany
  <1>3. RowsCarrySizes /\ WindowTrue
    BY DEF SizeInit, Init, RowsCarrySizes, WindowTrue
  <1>4. SizesFollowDecisions
    <2>. SUFFICES ASSUME NEW c \in Clusters PROVE sizes[c] + Owed(c) = Members(c)
      BY DEF SizesFollowDecisions
    <2>1. Placements(c) = {}
      BY DEF SizeInit, Init, Placements, Placed
    <2>2. Members(c) = 0
      BY <1>2, <2>1, BooksFinite, FS_EmptySet
    <2>3. Owed(c) = 0
      BY <1>2, QuietOwesNothing DEF SizeInit, Init, Quiet
    <2>. QED
      BY <2>2, <2>3 DEF SizeInit, Init
  <1>5. SizesExact
    BY <1>4 DEF SizeInit, Init, SizesExact, KeysApart, CallCurrent, RowsEarned
  <1>. QED
    BY <1>1, <1>2, <1>3, <1>5 DEF SizesInv

LEMMA SizeTypeStep ==
  ASSUME SizesInv, [SizeNext]_sizeVars
  PROVE  SizeTypeOK'
  <1>. USE DEF SizeTypeOK, SizesInv
  <1>1. ASSUME NEW w \in Writers, NEW k \in Keys, SubmitCall(w, k) PROVE SizeTypeOK'
    <2>1. TypeOK'
      BY <1>1, TypeStep DEF SubmitCall, Next
    <2>2. exact' \in BOOLEAN /\ window' \in BOOLEAN
      BY <1>1, Zenon DEF SubmitCall
    <2>. QED
      BY <1>1, <2>1, <2>2 DEF SubmitCall, maintenance
  <1>2. ASSUME NEW w \in Writers, StepCall(w) \/ FailCall(w) PROVE SizeTypeOK'
    <2>1. TypeOK'
      BY <1>2, TypeStep DEF StepCall, FailCall, Next
    <2>. QED
      BY <1>2, <2>1 DEF StepCall, FailCall, maintenance
  <1>3. CASE Aggregate
    <2>1. TypeOK'
      BY <1>3, TypeStep DEF Aggregate
    <2>2. counts' \in [Clusters -> Nat]
      BY <1>3, BooksFinite DEF Aggregate
    <2>3. exact' \in BOOLEAN /\ window' \in BOOLEAN
      BY <1>3, Zenon DEF Aggregate, Quiet
    <2>. QED
      BY <1>3, <2>1, <2>2, <2>3 DEF Aggregate
  <1>4. ASSUME NEW c \in Clusters, UpsertSize(c) PROVE SizeTypeOK'
    BY <1>4 DEF UpsertSize, TypeOK
  <1>5. CASE DeleteStale
    <2>1. TypeOK'
      BY <1>5 DEF DeleteStale, TypeOK
    <2>2. exact' \in BOOLEAN
      BY <1>5, Zenon DEF DeleteStale
    <2>. QED
      BY <1>5, <2>1, <2>2 DEF DeleteStale, EndScript, NoCounts
  <1>6. CASE AbortScript
    BY <1>6 DEF AbortScript, EndScript, NoCounts, vars, TypeOK
  <1>7. CASE UNCHANGED sizeVars
    BY <1>7 DEF sizeVars, vars, maintenance, TypeOK
  <1>. QED
    BY <1>1, <1>2, <1>3, <1>4, <1>5, <1>6, <1>7 DEF SizeNext

\* The parts that hold whether or not the sizes have drifted.
LEMMA WindowStep ==
  ASSUME SizesInv, [SizeNext]_sizeVars
  PROVE  FinitelyMany' /\ RowsCarrySizes' /\ WindowTrue'
  <1>0. /\ TypeOK /\ FinitelyMany
        /\ \A c \in Clusters : sizes[c] \in Int /\ counts[c] \in Nat
        /\ \A c \in Clusters : c \notin rows => sizes[c] = 0
        /\ rows \subseteq Clusters
    BY DEF SizesInv, SizeTypeOK, TypeOK, RowsCarrySizes
  <1>1. ASSUME NEW w \in Writers, NEW k \in Keys, SubmitCall(w, k)
        PROVE  FinitelyMany' /\ RowsCarrySizes' /\ WindowTrue'
    <2>1. /\ UNCHANGED <<documents, rows, sizes>> /\ ~window'
          /\ \A v \in Writers \ {w} : op'[v] = op[v]
      BY <1>0, <1>1 DEF SubmitCall, SubmitAny, Submit, TypeOK
    <2>2. FinitelyMany'
      BY <1>0, <2>1, BooksMove
    <2>. QED
      BY <1>0, <2>1, <2>2 DEF RowsCarrySizes, WindowTrue
  <1>2. ASSUME NEW w \in Writers, StepCall(w) \/ FailCall(w)
        PROVE  FinitelyMany' /\ RowsCarrySizes' /\ WindowTrue'
    <2>1. Step(w) \/ Fail(w)
      BY <1>2 DEF StepCall, FailCall
    <2>2. /\ op[w] # None /\ op[w].key \in Keys /\ Target(w) \in Clusters
          /\ \A v \in Writers \ {w} : op'[v] = op[v]
          /\ \A j \in Keys \ {op[w].key} : documents'[j] = documents[j]
      BY <1>0, <2>1, CallFrame
    <2>3. FinitelyMany'
      <3>1. PICK k \in Keys : k = op[w].key
        BY <2>2
      <3>. QED
        BY <1>0, <2>2, <3>1, BooksMove
    <2>4. RowsCarrySizes'
      <3>1. CASE ShiftDecrement(w)
        BY <1>0, <3>1 DEF ShiftDecrement, RowsCarrySizes, TypeOK
      <3>2. CASE ShiftIncrement(w)
        BY <1>0, <2>2, <3>2 DEF ShiftIncrement, RowsCarrySizes, TypeOK
      <3>3. CASE ShiftDelete(w)
        BY <1>0, <3>3 DEF ShiftDelete, RowsCarrySizes
      <3>4. CASE UNCHANGED <<rows, sizes>>
        BY <1>0, <3>4 DEF RowsCarrySizes
      <3>. QED
        BY <2>1, <3>1, <3>2, <3>3, <3>4 DEF Step, Fail, Goto, Decide, ServiceReadNothing,
           ServiceReadSame, ServiceReadOther, RepositoryRead, Insert, InsertMeetsDocument,
           InsertDuplicateKey, Update, UpdateStale, Return
    <2>5. ~window /\ window' = window
      BY <1>2, <2>2 DEF SizesInv, WindowTrue, Quiet, StepCall, FailCall
    <2>. QED
      BY <2>3, <2>4, <2>5 DEF WindowTrue
  <1>3. CASE Aggregate
    <2>1. /\ UNCHANGED <<documents, op, rows, sizes>>
          /\ FinitelyMany' /\ (Quiet' <=> Quiet)
          /\ \A c : Members(c)' = Members(c)
      BY <1>0, <1>3, BackfillFrame DEF Aggregate, vars
    <2>2. /\ script' = "upsert" /\ (window' => Quiet)
          /\ \A c \in Clusters : counts'[c] = Members(c)
          /\ todo' = {c \in Clusters : Members(c) > 0}
      BY <1>3 DEF Aggregate
    <2>3. \A c \in Clusters \ todo' : ~(counts'[c] > 0)
      BY <2>2
    <2>4. WindowTrue'
      BY <2>1, <2>2, <2>3 DEF WindowTrue
    <2>. QED
      BY <1>0, <2>1, <2>4 DEF RowsCarrySizes
  <1>4. ASSUME NEW c \in Clusters, UpsertSize(c)
        PROVE  FinitelyMany' /\ RowsCarrySizes' /\ WindowTrue'
    <2>1. /\ FinitelyMany' /\ (Quiet' <=> Quiet)
          /\ \A d : Members(d)' = Members(d)
      BY <1>0, <1>4, BackfillFrame DEF UpsertSize
    <2>2. /\ sizes'[c] = counts[c] /\ \A d \in Clusters \ {c} : sizes'[d] = sizes[d]
          /\ rows' = rows \union {c} /\ todo' = todo \ {c}
          /\ UNCHANGED <<script, counts, window>>
      BY <1>0, <1>4 DEF UpsertSize, TypeOK
    <2>3. RowsCarrySizes'
      BY <1>0, <2>2 DEF RowsCarrySizes
    <2>4. WindowTrue'
      BY <2>1, <2>2 DEF SizesInv, WindowTrue
    <2>. QED
      BY <2>1, <2>3, <2>4
  <1>5. CASE DeleteStale
    <2>1. FinitelyMany' /\ ~window'
      BY <1>0, <1>5, BackfillFrame DEF DeleteStale, EndScript
    <2>2. RowsCarrySizes'
      BY <1>0, <1>5 DEF DeleteStale, RowsCarrySizes
    <2>. QED
      BY <2>1, <2>2 DEF WindowTrue
  <1>6. CASE AbortScript
    BY <1>0, <1>6, BackfillFrame DEF AbortScript, EndScript, vars, RowsCarrySizes, WindowTrue
  <1>7. CASE UNCHANGED sizeVars
    <2>1. /\ UNCHANGED <<documents, op, rows, sizes, script, counts, todo, window>>
          /\ FinitelyMany' /\ (Quiet' <=> Quiet)
          /\ \A c : Members(c)' = Members(c)
      BY <1>0, <1>7, BackfillFrame DEF sizeVars, vars, maintenance
    <2>2. WindowTrue'
      BY <2>1 DEF SizesInv, WindowTrue
    <2>. QED
      BY <1>0, <2>1, <2>2 DEF RowsCarrySizes
  <1>. QED
    BY <1>1, <1>2, <1>3, <1>4, <1>5, <1>6, <1>7 DEF SizeNext

\* The part that holds while nothing has let the sizes drift, and again from the
\* end of a backfill that ran undisturbed.
LEMMA ExactStep ==
  ASSUME SizesInv, [SizeNext]_sizeVars
  PROVE  SizesExact'
  <1>. SUFFICES ASSUME exact'
                PROVE  /\ script' = "upsert" => window'
                       /\ KeysApart'
                       /\ \A v \in Writers : CallCurrent(v)'
                       /\ SizesFollowDecisions'
                       /\ RowsEarned'
    BY DEF SizesExact
  <1>0. /\ TypeOK /\ FinitelyMany
        /\ \A c \in Clusters : sizes[c] \in Int /\ counts[c] \in Nat
        /\ \A c \in Clusters : Members(c) \in Nat /\ Owed(c) \in Int
        /\ rows \subseteq Clusters
    BY BooksFinite DEF SizesInv, SizeTypeOK, TypeOK
  <1>e. exact => /\ script = "upsert" => window
                 /\ KeysApart
                 /\ \A v \in Writers : CallCurrent(v)
                 /\ \A c \in Clusters : sizes[c] + Owed(c) = Members(c)
                 /\ \A c \in rows : sizes[c] > 0 \/ \E v \in Writers : Leaving(v, c)
    BY DEF SizesInv, SizesExact, SizesFollowDecisions, RowsEarned
  <1>w. window => /\ Quiet
                  /\ \A c \in Clusters : counts[c] = Members(c)
                  /\ \A c \in todo : counts[c] > 0
                  /\ \A c \in Clusters \ todo : counts[c] > 0 => c \in rows /\ sizes[c] = counts[c]
    BY DEF SizesInv, WindowTrue
  <1>1. ASSUME NEW w \in Writers, NEW k \in Keys, SubmitCall(w, k)
        PROVE  /\ script' = "upsert" => window'
               /\ KeysApart'
               /\ \A v \in Writers : CallCurrent(v)'
               /\ SizesFollowDecisions'
               /\ RowsEarned'
    <2>1. exact /\ Unused(k) /\ script = "idle" /\ script' = script
      BY <1>1 DEF SubmitCall, maintenance
    <2>2. PICK p \in References, cs \in CandidateLists, t \in Times : Submit(w, k, p, cs, t)
      BY <1>1 DEF SubmitCall, SubmitAny
    <2>3. /\ op[w] = None /\ UNCHANGED <<documents, rows, sizes>>
          /\ \A v \in Writers \ {w} : op'[v] = op[v]
      BY <1>0, <2>2 DEF Submit, TypeOK
    <2>4. op'[w].pc = "read" /\ op'[w].key = k /\ op'[w].todo = {} /\ op'[w].from = None
      BY <1>0, <2>2 DEF Submit, TypeOK
    <2>5. KeysApart'
      BY <1>e, <2>1, <2>3, <2>4 DEF KeysApart, Unused
    <2>6. ASSUME NEW v \in Writers PROVE CallCurrent(v)'
      <3>1. CASE v = w
        BY <2>4, <3>1 DEF CallCurrent
      <3>2. CASE v # w
        <4>1. CallCurrent(v) /\ op'[v] = op[v] /\ documents' = documents
          BY <1>e, <2>1, <2>3, <3>2
        <4>. QED
          BY <4>1 DEF CallCurrent, Stored, Placed, Target
      <3>. QED
        BY <3>1, <3>2
    <2>7. SizesFollowDecisions'
      <3>. SUFFICES ASSUME NEW c \in Clusters PROVE sizes'[c] + Owed(c)' = Members(c)'
        BY DEF SizesFollowDecisions
      <3>1. ~OwesInc(w, c) /\ ~OwesInc(w, c)' /\ ~OwesDec(w, c) /\ ~OwesDec(w, c)'
        BY <2>3, <2>4 DEF OwesInc, OwesDec
      <3>2. Placed(k, c)' <=> Placed(k, c)
        BY <2>3 DEF Placed
      <3>3. Members(c)' = Members(c) /\ Owed(c)' = Owed(c)
        BY <1>0, <2>3, <3>1, <3>2, BooksMove DEF One
      <3>. QED
        BY <1>e, <2>1, <2>3, <3>3
    <2>8. RowsEarned'
      <3>1. \A v \in Writers : \A c : Leaving(v, c) => Leaving(v, c)'
        BY <2>3 DEF Leaving, At, Target
      <3>. QED
        BY <1>e, <2>1, <2>3, <3>1 DEF RowsEarned
    <2>. QED
      BY <2>1, <2>5, <2>6, <2>7, <2>8
  <1>2. ASSUME NEW w \in Writers, StepCall(w)
        PROVE  /\ script' = "upsert" => window'
               /\ KeysApart'
               /\ \A v \in Writers : CallCurrent(v)'
               /\ SizesFollowDecisions'
               /\ RowsEarned'
    <2>1. Step(w) /\ exact /\ script' = script /\ window' = window
      BY <1>2 DEF StepCall, maintenance
    <2>2. PICK k \in Keys : k = op[w].key
      BY <1>0, <2>1, CallFrame
    <2>3. /\ op[w] # None
          /\ \A v \in Writers \ {w} : op'[v] = op[v]
          /\ \A j \in Keys \ {k} : documents'[j] = documents[j]
          /\ op'[w] # None => op'[w].key = k
      BY <1>0, <2>1, <2>2, CallFrame
    <2>4. CallCurrent(w)' /\ Agrees(w, k) /\ RowsEarned'
      BY <2>1, <2>2, StepKeepsBooks
    <2>5. KeysApart'
      BY <1>e, <2>1, <2>2, <2>3 DEF KeysApart
    <2>6. ASSUME NEW v \in Writers PROVE CallCurrent(v)'
      <3>1. CASE v = w
        BY <2>4, <3>1
      <3>2. CASE v # w
        <4>. SUFFICES ASSUME op[v] # None PROVE CallCurrent(v)'
          BY <2>3, <3>2 DEF CallCurrent
        <4>1. CallCurrent(v) /\ op'[v] = op[v]
          BY <1>e, <2>1, <2>3, <3>2
        <4>2. op[v].key \in Keys
          BY <1>0 DEF TypeOK, Op
        <4>3. op[v].key # k
          BY <1>e, <2>1, <2>2, <2>3, <3>2 DEF KeysApart
        <4>4. documents'[op[v].key] = documents[op[v].key]
          BY <2>3, <4>2, <4>3
        <4>. QED
          BY <4>1, <4>4 DEF CallCurrent, Stored, Placed, Target
      <3>. QED
        BY <3>1, <3>2
    <2>7. SizesFollowDecisions'
      <3>. SUFFICES ASSUME NEW c \in Clusters PROVE sizes'[c] + Owed(c)' = Members(c)'
        BY DEF SizesFollowDecisions
      <3>1. /\ Members(c)' = Members(c) + One(Placed(k, c)') - One(Placed(k, c))
            /\ Owed(c)' = Owed(c) + One(OwesInc(w, c)') - One(OwesInc(w, c))
                                  - One(OwesDec(w, c)') + One(OwesDec(w, c))
        BY <1>0, <2>3, BooksMove
      <3>2. sizes'[c] + One(OwesInc(w, c)') - One(OwesInc(w, c))
                      - One(OwesDec(w, c)') + One(OwesDec(w, c))
              = sizes[c] + One(Placed(k, c)') - One(Placed(k, c))
        BY <2>4 DEF Agrees
      <3>3. sizes[c] + Owed(c) = Members(c) /\ sizes[c] \in Int /\ Members(c) \in Int /\ Owed(c) \in Int
        BY <1>0, <1>e, <2>1
      <3>4. sizes'[c] \in Int
        <4>1. TypeOK'
          BY <1>0, <2>1, TypeStep DEF Next
        <4>. QED
          BY <4>1 DEF TypeOK
      <3>5. \A b : One(b) \in Int
        BY DEF One
      <3>. QED
        BY <3>1, <3>2, <3>3, <3>4, <3>5
    <2>. QED
      BY <1>e, <2>1, <2>4, <2>5, <2>6, <2>7
  <1>3. ASSUME NEW w \in Writers, FailCall(w) PROVE FALSE
    BY <1>3 DEF FailCall
  <1>4. CASE UNCHANGED <<documents, op>> /\ exact /\ (script' = "upsert" => window')
             /\ UNCHANGED <<rows, sizes>>
    <2>1. SizesFollowDecisions'
      BY <1>e, <1>4, BackfillFrame DEF SizesFollowDecisions
    <2>2. RowsEarned'
      BY <1>e, <1>4, BackfillFrame DEF RowsEarned
    <2>. QED
      BY <1>e, <1>4, <2>1, <2>2, BackfillFrame
  <1>5. CASE Aggregate
    BY <1>4, <1>5 DEF Aggregate, vars
  <1>6. ASSUME NEW c \in Clusters, UpsertSize(c)
        PROVE  /\ script' = "upsert" => window'
               /\ KeysApart'
               /\ \A v \in Writers : CallCurrent(v)'
               /\ SizesFollowDecisions'
               /\ RowsEarned'
    <2>1. /\ script = "upsert" /\ c \in todo /\ exact
          /\ UNCHANGED <<documents, op, script, window>>
      BY <1>6 DEF UpsertSize
    <2>2. window /\ Quiet
      BY <1>e, <1>w, <2>1
    <2>3. sizes[c] = counts[c] /\ counts[c] > 0
      <3>1. Owed(c) = 0
        BY <1>0, <2>2, QuietOwesNothing
      <3>. QED
        BY <1>0, <1>e, <1>w, <2>1, <2>2, <3>1
    <2>4. /\ \A d \in Clusters : sizes'[d] = sizes[d]
          /\ rows' = rows \union {c}
      BY <1>0, <1>6, <2>3 DEF UpsertSize, TypeOK
    <2>5. SizesFollowDecisions'
      BY <1>e, <2>1, <2>4, BackfillFrame DEF SizesFollowDecisions
    <2>6. RowsEarned'
      BY <1>0, <1>e, <2>1, <2>3, <2>4, BackfillFrame DEF RowsEarned
    <2>. QED
      BY <1>e, <2>1, <2>2, <2>5, <2>6, BackfillFrame
  <1>7. CASE DeleteStale
    <2>1. /\ window /\ Quiet /\ todo = {}
          /\ UNCHANGED <<documents, op>> /\ script' = "idle"
      BY <1>e, <1>w, <1>7 DEF DeleteStale, EndScript
    <2>2. KeysApart' /\ \A v \in Writers : CallCurrent(v)'
      BY <2>1 DEF Quiet, KeysApart, CallCurrent
    <2>3. \A c \in Clusters : sizes'[c] = Members(c)
      <3>. SUFFICES ASSUME NEW c \in Clusters PROVE sizes'[c] = Members(c)
        OBVIOUS
      <3>1. sizes'[c] = IF counts[c] > 0 THEN sizes[c] ELSE 0
        BY <1>7 DEF DeleteStale
      <3>. QED
        BY <1>0, <1>w, <2>1, <3>1
    <2>4. \A c \in rows' : c \in Clusters /\ sizes'[c] > 0
      <3>1. \A c \in rows' : c \in Clusters /\ counts[c] > 0
        BY <1>7 DEF DeleteStale
      <3>. QED
        BY <1>0, <1>w, <2>1, <2>3, <3>1
    <2>5. SizesFollowDecisions'
      <3>. SUFFICES ASSUME NEW c \in Clusters PROVE sizes'[c] + Owed(c)' = Members(c)'
        BY DEF SizesFollowDecisions
      <3>1. Owed(c)' = 0 /\ Members(c)' = Members(c)
        BY <1>0, <2>1, QuietOwesNothing, BackfillFrame
      <3>. QED
        BY <1>0, <2>3, <3>1
    <2>6. RowsEarned'
      BY <2>4 DEF RowsEarned
    <2>. QED
      BY <2>1, <2>2, <2>5, <2>6
  <1>8. CASE AbortScript
    BY <1>4, <1>8 DEF AbortScript, EndScript, vars
  <1>9. CASE UNCHANGED sizeVars
    BY <1>4, <1>9, <1>e DEF sizeVars, vars, maintenance
  <1>. QED
    BY <1>1, <1>2, <1>3, <1>5, <1>6, <1>7, <1>8, <1>9 DEF SizeNext

LEMMA SizesInvariant == SizeSpec => []SizesInv
  <1>1. SizesInv /\ [SizeNext]_sizeVars => SizesInv'
    <2>. SUFFICES ASSUME SizesInv, [SizeNext]_sizeVars PROVE SizesInv'
      OBVIOUS
    <2>1. SizeTypeOK'
      BY SizeTypeStep
    <2>2. FinitelyMany' /\ RowsCarrySizes' /\ WindowTrue'
      BY WindowStep
    <2>3. SizesExact'
      BY ExactStep
    <2>. QED
      BY <2>1, <2>2, <2>3 DEF SizesInv
  <1>. QED
    BY <1>1, SizesHoldFirst, PTL DEF SizeSpec

\* The store, the script and the histories keep their types, for any deployment.
THEOREM SizesTyped == SizeSpec => []SizeTypeOK
  <1>1. SizesInv => SizeTypeOK
    BY DEF SizesInv
  <1>. QED
    BY <1>1, SizesInvariant, PTL

\* The size of a cluster, with the index writes that calls in progress still owe
\* it, is the number of its decisions, as long as nothing has let it drift and
\* again after the next undisturbed backfill: $inc of ClusterSizeIndex.shift and
\* the upserts of the script add up over any number of calls, keys and clusters.
THEOREM SizesCount == SizeSpec => []SizesFollow
  <1>1. SizesInv => SizesFollow
    BY DEF SizesInv, SizesExact, SizesFollow
  <1>. QED
    BY <1>1, SizesInvariant, PTL

\* When no call is in progress, verify_cluster_sizes finds no drift and the rows
\* of cluster_sizes are those of the clusters that have decisions.
THEOREM Verified == SizeSpec => []VerifiedAtRest
  <1>1. SizesInv => VerifiedAtRest
    <2>. SUFFICES ASSUME SizesInv, exact, Quiet
                  PROVE  Drifts = {} /\ rows = {c \in Clusters : Members(c) > 0}
      BY DEF VerifiedAtRest
    <2>1. ASSUME NEW c \in Clusters
          PROVE  /\ Members(c) = sizes[c]
                 /\ sizes[c] \in Int
                 /\ c \in rows <=> sizes[c] > 0
                 /\ c \notin rows => sizes[c] = 0
      <3>1. sizes[c] + Owed(c) = Members(c) /\ sizes[c] \in Int
        BY DEF SizesInv, SizesExact, SizesFollowDecisions, SizeTypeOK, TypeOK
      <3>2. Owed(c) = 0 /\ \A w \in Writers : ~Leaving(w, c)
        BY QuietOwesNothing DEF SizesInv
      <3>3. c \in rows => sizes[c] > 0
        BY <3>2 DEF SizesInv, SizesExact, RowsEarned
      <3>4. c \notin rows => sizes[c] = 0
        BY DEF SizesInv, RowsCarrySizes
      <3>. QED
        BY <3>1, <3>2, <3>3, <3>4
    <2>2. rows \subseteq Clusters
      BY DEF SizesInv, SizeTypeOK, TypeOK
    <2>3. Drifts = {}
      BY <2>1 DEF Drifts
    <2>. QED
      BY <2>1, <2>2, <2>3
  <1>. QED
    BY <1>1, SizesInvariant, PTL
=============================================================================
