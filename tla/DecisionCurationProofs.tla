------------------------- MODULE DecisionCurationProofs -------------------------
(***************************************************************************)
(* Theorems about DecisionCuration, for every set of decisions, curators,  *)
(* requests and timestamps.                                                *)
(***************************************************************************)
EXTENDS DecisionCuration, FiniteSetTheorems, TLAPS

\* Items without a user action yet, and items whose action is on record.
Unsaved == {"queued", "saving", "not_found", "invalid"}
OnRecord == Unsettled \union {"publishing", "success"}

\* What an item knows of its decision and of its user action.
ItemFits(c, k) == LET i == review[c][k] IN
  /\ i.id <= issued
  /\ i.kind = "assign" => i.choice # None
  /\ i.at \in Unsaved => i.id = 0
  /\ i.at \in OnRecord \union {"saving"} => i.seen # None /\ decision[k] # None
  /\ i.at \in OnRecord => i.id # 0 /\ ActionOf(c, k, i.id, i.time) \in actions
  /\ i.at = "already_curated" => \A a \in actions : a.id # i.id

ItemsFit == \A c \in Curators, k \in Keys : review[c][k] # None => ItemFits(c, k)

\* No two items have the same user action.
ItemsDiffer ==
  \A c, d \in Curators : \A k, l \in Keys :
    /\ review[c][k] # None /\ review[d][l] # None
    /\ review[c][k].id = review[d][l].id /\ review[c][k].id # 0
    => c = d /\ k = l

\* The audit log is finite, numbered, and about decisions that there are.
LogFits ==
  /\ IsFiniteSet(actions)
  /\ \A a \in actions : a.id # 0 /\ a.id <= issued /\ decision[a.key] # None
  /\ \A a, b \in actions : a.id = b.id => a = b

\* The user action a says what the re-evaluation p says.
Says(a, p) ==
  /\ a.id = p.id /\ a.key = p.key
  /\ a.kind # "reject" => p.proposed = {a.selected} /\ p.excluded = {}
  /\ a.kind = "reject" => /\ p.proposed = {}
                          /\ \E o \in Outcomes : /\ o.candidates = a.candidates
                                                 /\ p.excluded = o.candidates \union {o.placement}

Backed(p) == \E a \in actions : Says(a, p) /\ Settled(a)
PublishedIsBacked == \A p \in published : Backed(p)

\* The settled actions on a decision.
Log(k) == {a \in ActionsOn(k) : Settled(a)}

CurationInv ==
  /\ TypeOK /\ ItemsFit /\ ItemsDiffer /\ LogFits /\ PublishedIsBacked
  /\ ReviewedHasAction /\ CounterFollowsLog

-----------------------------------------------------------------------------
\* One item of a request goes on.
Moved(c, k, j) ==
  /\ review' \in [Curators -> [Keys -> Item \union {None}]]
  /\ review'[c][k] = j
  /\ \A d \in Curators, l \in Keys : d # c \/ l # k => review'[d][l] = review[d][l]

LEMMA ItemMoves ==
  ASSUME TypeOK, NEW c \in Curators, NEW k \in Keys, NEW j \in Item,
         review' = [review EXCEPT ![c][k] = j]
  PROVE  Moved(c, k, j) /\ j # None
  BY NoneAssumption DEF TypeOK, Moved

LEMMA GotoMoves ==
  ASSUME TypeOK, NEW c \in Curators, NEW k \in Keys, review[c][k] # None,
         NEW step \in {"queued"} \union Working \union Ended, Goto(c, k, step)
  PROVE  LET j == [review[c][k] EXCEPT !.at = step]
         IN Moved(c, k, j) /\ j \in Item /\ j # None
  <1> DEFINE j == [review[c][k] EXCEPT !.at = step]
  <1>1. review[c][k] \in Item
    BY DEF TypeOK
  <1>2. j \in Item
    BY <1>1 DEF Item
  <1>3. review' = [review EXCEPT ![c][k] = j]
    BY DEF Goto
  <1>. QED
    BY <1>2, <1>3, ItemMoves

\* Only the action of the item that moves can become settled or unsettled.
LEMMA SettledByMove ==
  ASSUME TypeOK, ItemsDiffer, NEW c \in Curators, NEW k \in Keys, review[c][k] # None,
         NEW j, j # None, Moved(c, k, j), j.id = review[c][k].id, NEW a, a.id # 0
  PROVE  /\ a.id # j.id => (Settled(a)' <=> Settled(a))
         /\ a.id = j.id => /\ Settled(a)' <=> j.at \notin Unsettled
                           /\ Settled(a) <=> review[c][k].at \notin Unsettled
  <1>1. CASE a.id # j.id
    <2>1. \A d \in Curators, l \in Keys :
            (review'[d][l] # None /\ review'[d][l].id = a.id)
              <=> (review[d][l] # None /\ review[d][l].id = a.id /\ ~(d = c /\ l = k))
      BY <1>1 DEF Moved
    <2>2. \A d \in Curators, l \in Keys :
            review[d][l].id = a.id => ~(d = c /\ l = k)
      BY <1>1
    <2>. QED
      BY <1>1, <2>1, <2>2 DEF Settled, Moved
  <1>2. CASE a.id = j.id
    <2>1. \A d \in Curators, l \in Keys :
            review[d][l] # None /\ review[d][l].id = a.id => d = c /\ l = k
      BY <1>2 DEF ItemsDiffer
    <2>2. \A d \in Curators, l \in Keys :
            review'[d][l] # None /\ review'[d][l].id = a.id => d = c /\ l = k
      BY <2>1 DEF Moved
    <2>3. review'[c][k] = j
      BY DEF Moved
    <2>. QED
      BY <1>2, <2>1, <2>2, <2>3 DEF Settled
  <1>. QED
    BY <1>1, <1>2

\* The items other than the one that moves, and the numbers of all.
LEMMA OthersFit ==
  ASSUME CurationInv, NEW c \in Curators, NEW k \in Keys, review[c][k] # None,
         NEW j \in Item, j # None, Moved(c, k, j), j.id = review[c][k].id,
         issued' = issued, ItemFits(c, k)',
         \A l \in Keys : decision[l] # None => decision'[l] # None,
         actions' \subseteq actions,
         \A a \in actions : a \in actions' \/ a.id = j.id
  PROVE  ItemsFit' /\ ItemsDiffer'
  <1>1. ItemsDiffer'
    BY DEF CurationInv, ItemsDiffer, Moved
  <1>2. ASSUME NEW d \in Curators, NEW l \in Keys, review'[d][l] # None PROVE ItemFits(d, l)'
    <2>1. CASE d = c /\ l = k
      BY <2>1
    <2>2. CASE d # c \/ l # k
      <3>1. review'[d][l] = review[d][l] /\ review[d][l] # None /\ ItemFits(d, l)
        BY <1>2, <2>2 DEF Moved, CurationInv, ItemsFit
      <3>2. review[d][l].at \in OnRecord => review[d][l].id # 0 /\ review[d][l].id # j.id
        BY <2>2, <3>1 DEF ItemFits, CurationInv, ItemsDiffer
      <3>3. ActionOf(d, l, review[d][l].id, review[d][l].time)' = ActionOf(d, l, review[d][l].id, review[d][l].time)
        BY <3>1 DEF ActionOf, Seen
      <3>4. ActionOf(d, l, review[d][l].id, review[d][l].time).id = review[d][l].id
        BY DEF ActionOf
      <3>. QED
        BY <3>1, <3>2, <3>3, <3>4 DEF ItemFits
    <2>. QED
      BY <2>1, <2>2
  <1>. QED
    BY <1>1, <1>2 DEF ItemsFit

\* A step of an item that changes neither the log nor the decision, nor whether its
\* action is settled.
LEMMA QuietStep ==
  ASSUME CurationInv, NEW c \in Curators, NEW k \in Keys, review[c][k] # None,
         NEW j \in Item, j # None, Moved(c, k, j), j.id = review[c][k].id,
         ItemFits(c, k)', j.at \in Unsettled <=> review[c][k].at \in Unsettled,
         UNCHANGED <<decision, actions, counters>>,
         published' \subseteq Reevaluation, \A p \in published' : p \in published \/ Backed(p)
  PROVE  CurationInv'
  <1>. USE DEF CurationInv
  <1>1. ItemsFit' /\ ItemsDiffer'
    BY OthersFit DEF counters
  <1>2. \A a \in actions : Settled(a)' <=> Settled(a)
    BY SettledByMove DEF LogFits
  <1>3. \A l \in Keys : Log(l)' = Log(l)
    BY <1>2 DEF Log, ActionsOn
  <1>4. ReviewedHasAction'
    BY <1>2 DEF ReviewedHasAction, Boundary
  <1>5. CounterFollowsLog'
    BY <1>3 DEF CounterFollowsLog, Log, counters
  <1>6. PublishedIsBacked'
    BY <1>2 DEF PublishedIsBacked, Backed, Says
  <1>7. LogFits' /\ TypeOK'
    BY DEF LogFits, TypeOK, counters, Moved
  <1>. QED
    BY <1>1, <1>4, <1>5, <1>6, <1>7
-----------------------------------------------------------------------------
\* The steps of an item that are quiet.
LEMMA QuietSteps ==
  ASSUME CurationInv, NEW c \in Curators, NEW k \in Keys,
         FindNothing(c, k) \/ Find(c, k) \/ ClaimNothing(c, k) \/ LoseClaim(c, k)
           \/ Publish(c, k) \/ PublishNothing(c, k)
  PROVE  CurationInv'
  <1> DEFINE i == review[c][k]
  <1>0. i # None /\ i \in Item /\ ItemFits(c, k) /\ TypeOK
    BY DEF FindNothing, Find, Admitted, ClaimNothing, LoseClaim, Publish, PublishNothing, At,
       CurationInv, TypeOK, ItemsFit
  <1>1. ASSUME NEW step \in {"not_found", "counting", "undoing", "success"}, Goto(c, k, step),
               UNCHANGED <<decision, actions, counters>>,
               \/ At(c, k, "queued") /\ step = "not_found"
               \/ At(c, k, "claiming") /\ step = "counting"
               \/ At(c, k, "counting") /\ step = "undoing"
               \/ At(c, k, "publishing") /\ step = "success",
               published' \subseteq Reevaluation, \A p \in published' : p \in published \/ Backed(p)
        PROVE  CurationInv'
    <2> DEFINE j == [i EXCEPT !.at = step]
    <2>1. Moved(c, k, j) /\ j \in Item /\ j # None
      BY <1>0, <1>1, GotoMoves DEF Working, Ended
    <2>2. /\ j.at = step /\ j.id = i.id /\ j.kind = i.kind /\ j.choice = i.choice
          /\ j.seen = i.seen /\ j.time = i.time
      BY <1>0 DEF Item
    <2>. HIDE DEF j
    <2>3. ActionOf(c, k, i.id, i.time)' = ActionOf(c, k, i.id, i.time)
      BY <2>1, <2>2 DEF ActionOf, Seen, Selected, Moved
    <2>4. ItemFits(c, k)'
      BY <1>0, <1>1, <2>1, <2>2, <2>3 DEF ItemFits, Moved, At, Unsaved, OnRecord, Unsettled, counters
    <2>5. j.at \in Unsettled <=> i.at \in Unsettled
      BY <1>1, <2>2 DEF At, Unsettled
    <2>. QED
      BY <1>0, <1>1, <2>1, <2>2, <2>4, <2>5, QuietStep
  <1>2. CASE FindNothing(c, k) \/ ClaimNothing(c, k) \/ LoseClaim(c, k) \/ PublishNothing(c, k)
    BY <1>0, <1>1, <1>2 DEF FindNothing, Admitted, ClaimNothing, LoseClaim, PublishNothing, TypeOK
  <1>3. CASE Publish(c, k)
    <2> DEFINE p == [id |-> i.id, key |-> k, proposed |-> Proposed(i), excluded |-> Excluded(i)]
               a == ActionOf(c, k, i.id, i.time)
    <2>1. /\ a \in actions /\ i.seen # None /\ i.at = "publishing" /\ i.id # 0
          /\ i.kind = "assign" => i.choice # None
      BY <1>0, <1>3 DEF Publish, At, ItemFits, OnRecord
    <2>2. i.seen \in Outcomes /\ i.kind \in Kinds /\ i.choice \in Clusters \union {None} /\ i.id \in Nat
      BY <1>0, <2>1 DEF Item
    <2>3. i.seen.placement \in Clusters /\ i.seen.candidates \subseteq Clusters
      BY <2>2, OutcomesAssumption
    <2>4. i.kind = "reject" => Says(a, p)
      <3>. SUFFICES ASSUME i.kind = "reject" PROVE Says(a, p)
        OBVIOUS
      <3>1. Proposed(i) = {} /\ Excluded(i) = i.seen.candidates \union {i.seen.placement}
        BY DEF Selected, Proposed, Excluded
      <3>2. a.id = i.id /\ a.key = k /\ a.kind = "reject" /\ a.candidates = i.seen.candidates
        BY DEF ActionOf, Seen
      <3>. HIDE DEF a, i
      <3>. QED
        BY <2>2, <3>1, <3>2 DEF Says
    <2>5. i.kind # "reject" => Says(a, p)
      <3>. SUFFICES ASSUME i.kind # "reject" PROVE Says(a, p)
        OBVIOUS
      <3>1. Selected(i) \in Clusters /\ Selected(i) # None
        BY <2>1, <2>2, <2>3, OutcomesAssumption DEF Selected, Kinds
      <3>2. Proposed(i) = {Selected(i)} /\ Excluded(i) = {}
        BY <3>1 DEF Proposed, Excluded
      <3>3. a.id = i.id /\ a.key = k /\ a.kind = i.kind /\ a.selected = Selected(i)
        BY DEF ActionOf
      <3>. HIDE DEF a, i
      <3>. QED
        BY <3>2, <3>3 DEF Says
    <2>6. Says(a, p) /\ p \in Reevaluation
      <3>1. Proposed(i) \subseteq Clusters /\ Excluded(i) \subseteq Clusters
        BY <2>2, <2>3 DEF Proposed, Excluded, Selected, Kinds
      <3>2. p \in Reevaluation
        BY <2>2, <3>1 DEF Reevaluation
      <3>. QED
        BY <2>4, <2>5, <3>2
    <2>7. Settled(a)
      <3>1. a.id = i.id
        BY DEF ActionOf
      <3>2. \A d \in Curators, l \in Keys : review[d][l] # None /\ review[d][l].id = a.id => d = c /\ l = k
        BY <1>0, <2>1, <3>1 DEF CurationInv, ItemsDiffer
      <3>. QED
        BY <2>1, <3>2 DEF Settled, Unsettled
    <2>8. Backed(p)
      BY <2>1, <2>6, <2>7 DEF Backed
    <2>9. published' = published \union {p}
      BY <1>3 DEF Publish
    <2>. QED
      BY <1>0, <1>1, <1>3, <2>6, <2>8, <2>9 DEF Publish, TypeOK
  <1>4. CASE Find(c, k)
    <2> DEFINE found == [i EXCEPT !.seen = decision[k].outcome]
               j == [found EXCEPT !.at = IF Assignable(found) THEN "saving" ELSE "invalid"]
    <2>0. i.at = "queued" /\ i.id = 0 /\ decision[k] # None
      BY <1>0, <1>4 DEF Find, Admitted, At, ItemFits, Unsaved
    <2>1. decision[k].outcome \in Outcomes /\ decision[k].outcome # None
      <3>1. decision[k] \in Register!Decision
        BY <1>0, <2>0 DEF TypeOK
      <3>. QED
        BY <3>1, OutcomesAssumption DEF Register!Decision
    <2>2. /\ j \in Item /\ j.at \in {"saving", "invalid"} /\ j.id = i.id /\ j.kind = i.kind
          /\ j.choice = i.choice /\ j.seen = decision[k].outcome
      BY <1>0, <2>1 DEF Item, Working, Ended
    <2>3. review' = [review EXCEPT ![c][k] = j]
      BY <1>4 DEF Find
    <2>. HIDE DEF j
    <2>4. Moved(c, k, j) /\ j # None
      BY <1>0, <2>2, <2>3, ItemMoves
    <2>5. ItemFits(c, k)'
      BY <1>0, <1>4, <2>0, <2>1, <2>2, <2>4 DEF Find, ItemFits, Moved, Unsaved, OnRecord, Unsettled, counters
    <2>6. j.at \in Unsettled <=> i.at \in Unsettled
      BY <2>0, <2>2 DEF Unsettled
    <2>. QED
      BY <1>0, <1>4, <2>2, <2>4, <2>5, <2>6, QuietStep DEF Find, TypeOK
  <1>. QED
    BY <1>2, <1>3, <1>4

\* UserActionFactory and save: an action that is not settled.
LEMMA SaveKeeps ==
  ASSUME CurationInv, NEW c \in Curators, NEW k \in Keys, NEW t \in Times, Save(c, k, t)
  PROVE  CurationInv'
  <1>. PICK n : n = issued + 1
    OBVIOUS
  <1>. PICK a : a = ActionOf(c, k, n, t)
    OBVIOUS
  <1> DEFINE i == review[c][k]
             j == [i EXCEPT !.at = "claiming", !.id = n, !.time = t]
  <1>0. i # None /\ i \in Item /\ ItemFits(c, k) /\ TypeOK /\ i.at = "saving" /\ issued \in Nat /\ n \in Nat
    BY DEF Save, At, CurationInv, TypeOK, ItemsFit
  <1>1. i.id = 0 /\ i.seen \in Outcomes /\ i.kind \in Kinds /\ i.choice \in Clusters \union {None}
        /\ decision[k] # None /\ (i.kind = "assign" => i.choice # None)
    BY <1>0 DEF ItemFits, Unsaved, Item
  <1>2. /\ j \in Item /\ j.at = "claiming" /\ j.id = n /\ j.time = t /\ j.kind = i.kind
        /\ j.choice = i.choice /\ j.seen = i.seen
    BY <1>0 DEF Item, Working
  <1>3. review' = [review EXCEPT ![c][k] = j]
    BY DEF Save
  <1>. HIDE DEF j
  <1>4. Moved(c, k, j) /\ j # None
    BY <1>0, <1>2, <1>3, ItemMoves
  <1>5. a \in UserAction /\ a.id = n /\ a.key = k
    <2>1. i.seen.placement \in Clusters /\ i.seen.candidates \subseteq Clusters
      BY <1>1, OutcomesAssumption
    <2>2. Selected(i) \in Clusters \union {None}
      BY <1>1, <2>1 DEF Selected, Kinds
    <2>. QED
      BY <1>0, <1>1, <2>1, <2>2 DEF UserAction, ActionOf, Seen
  <1>6. a = ActionOf(c, k, n, t)'
    BY <1>2, <1>4 DEF ActionOf, Seen, Selected, Moved
  <1>7. /\ actions' = actions \union {a} /\ issued' = n
        /\ UNCHANGED <<decision, published, asked, faults, clean, changes>>
    BY DEF Save
  <1>8. \A d \in Curators, l \in Keys : review[d][l] # None => review[d][l].id \in Nat /\ review[d][l].id < n
    <2> SUFFICES ASSUME NEW d \in Curators, NEW l \in Keys, review[d][l] # None
                 PROVE  review[d][l].id \in Nat /\ review[d][l].id < n
      OBVIOUS
    <2>1. review[d][l] \in Item /\ ItemFits(d, l)
      BY DEF CurationInv, TypeOK, ItemsFit
    <2>. QED
      BY <1>0, <2>1 DEF Item, ItemFits
  <1>9. \A b \in actions : b.id \in Nat /\ b.id < n /\ b.id # 0
    BY <1>0 DEF CurationInv, LogFits, UserAction, TypeOK
  <1>10. ItemsDiffer'
    <2> SUFFICES ASSUME NEW d \in Curators, NEW e \in Curators, NEW l \in Keys, NEW m \in Keys,
                        review'[d][l] # None, review'[e][m] # None,
                        review'[d][l].id = review'[e][m].id, review'[d][l].id # 0
                 PROVE  d = e /\ l = m
      BY DEF ItemsDiffer
    <2>1. CASE d = c /\ l = k
      BY <1>2, <1>4, <1>8, <2>1 DEF Moved
    <2>2. CASE e = c /\ m = k
      BY <1>2, <1>4, <1>8, <2>2 DEF Moved
    <2>3. CASE ~(d = c /\ l = k) /\ ~(e = c /\ m = k)
      BY <1>4, <2>3 DEF Moved, CurationInv, ItemsDiffer
    <2>. QED
      BY <2>1, <2>2, <2>3
  <1>11. ItemsFit'
    <2> SUFFICES ASSUME NEW d \in Curators, NEW l \in Keys, review'[d][l] # None PROVE ItemFits(d, l)'
      BY DEF ItemsFit
    <2>1. CASE d = c /\ l = k
      BY <1>0, <1>1, <1>2, <1>4, <1>6, <1>7, <2>1 DEF ItemFits, Moved, Unsaved, OnRecord, Unsettled
    <2>2. CASE ~(d = c /\ l = k)
      <3>1. review'[d][l] = review[d][l] /\ ItemFits(d, l)
        BY <1>4, <2>2 DEF Moved, CurationInv, ItemsFit
      <3>2. ActionOf(d, l, review[d][l].id, review[d][l].time)' = ActionOf(d, l, review[d][l].id, review[d][l].time)
        BY <3>1 DEF ActionOf, Seen
      <3>3. review[d][l].id \in Nat /\ review[d][l].id < n
        BY <1>8, <3>1
      <3>. QED
        BY <1>0, <1>5, <1>7, <3>1, <3>2, <3>3 DEF ItemFits
    <2>. QED
      BY <2>1, <2>2
  <1>12. LogFits' /\ TypeOK'
    <2>1. IsFiniteSet(actions')
      BY <1>7, FS_AddElement DEF CurationInv, LogFits
    <2>2. \A b, d \in actions' : b.id = d.id => b = d
      BY <1>5, <1>7, <1>9 DEF CurationInv, LogFits
    <2>3. \A b \in actions' : b.id # 0 /\ b.id <= issued' /\ decision'[b.key] # None
      BY <1>0, <1>1, <1>5, <1>7, <1>9 DEF CurationInv, LogFits
    <2>. QED
      BY <1>0, <1>4, <1>5, <1>7, <2>1, <2>2, <2>3 DEF LogFits, TypeOK, Moved
  <1>13. \A b \in actions : Settled(b)' <=> Settled(b)
    <2> SUFFICES ASSUME NEW b \in actions PROVE Settled(b)' <=> Settled(b)
      OBVIOUS
    <2>1. \A d \in Curators, l \in Keys :
            (review'[d][l] # None /\ review'[d][l].id = b.id) => ~(d = c /\ l = k)
      BY <1>2, <1>4, <1>9 DEF Moved
    <2>2. \A d \in Curators, l \in Keys :
            (review[d][l] # None /\ review[d][l].id = b.id) => ~(d = c /\ l = k)
      BY <1>1, <1>9
    <2>. QED
      BY <1>4, <2>1, <2>2 DEF Settled, Moved
  <1>14. ~Settled(a)'
    BY <1>2, <1>4, <1>5 DEF Settled, Moved, Unsettled
  <1>15. \A l \in Keys : Log(l)' = Log(l)
    BY <1>7, <1>13, <1>14 DEF Log, ActionsOn
  <1>16. ReviewedHasAction' /\ PublishedIsBacked'
    BY <1>7, <1>13 DEF CurationInv, ReviewedHasAction, Boundary, PublishedIsBacked, Backed, Says
  <1>17. CounterFollowsLog'
    BY <1>7, <1>15 DEF CurationInv, CounterFollowsLog, Log
  <1>. QED
    BY <1>10, <1>11, <1>12, <1>16, <1>17 DEF CurationInv
LEMMA TimesAreNumbers == \A t \in Times : t \in Int /\ t > 0
  BY TimesAssumption

\* record_review: either update counts the action, which is settled from then on.
LEMMA CountKeeps ==
  ASSUME CurationInv, NEW c \in Curators, NEW k \in Keys, Claim(c, k) \/ Count(c, k)
  PROVE  CurationInv'
  <1> DEFINE i == review[c][k]
  <1>. PICK d : d = decision[k]
    OBVIOUS
  <1>0. /\ i # None /\ i \in Item /\ ItemFits(c, k) /\ TypeOK
        /\ i.at \in {"claiming", "counting"} /\ ~d.reviewed
    BY DEF Claim, Count, Fresh, At, CurationInv, TypeOK, ItemsFit
  <1>1. PICK a \in actions : a = ActionOf(c, k, i.id, i.time)
    BY <1>0 DEF ItemFits, OnRecord, Unsettled
  <1>2. a.id = i.id /\ a.key = k /\ a.time = i.time /\ a.id # 0 /\ i.seen # None
    BY <1>0, <1>1 DEF ActionOf, ItemFits, OnRecord, Unsettled
  <1>3. d # None /\ d \in Register!Decision /\ d.reviews \in Nat /\ d.reviewed \in BOOLEAN
    BY <1>0 DEF ItemFits, OnRecord, Unsettled, TypeOK, Register!Decision
  <1> DEFINE j == [i EXCEPT !.at = "publishing"]
  <1>4. Moved(c, k, j) /\ j \in Item /\ j # None
    BY <1>0, GotoMoves DEF Claim, Count, Working
  <1>5. /\ j.at = "publishing" /\ j.id = i.id /\ j.kind = i.kind /\ j.choice = i.choice
        /\ j.seen = i.seen /\ j.time = i.time
    BY <1>0 DEF Item
  <1>. HIDE DEF j
  <1>6. PICK e \in Register!Decision :
          /\ decision' = [decision EXCEPT ![k] = e]
          /\ e.reviews = d.reviews + 1 /\ e.created = d.created /\ e.updated = d.updated
          /\ e.reviewed => Boundary(d) < i.time
    <2>1. CASE Claim(c, k)
      <3> DEFINE e == [d EXCEPT !.reviewed = TRUE, !.reviews = d.reviews + 1]
      <3>0. d.reviews + 1 \in Nat /\ TRUE \in BOOLEAN
        BY <1>3
      <3>1. /\ e \in Register!Decision /\ e.reviews = d.reviews + 1
            /\ e.created = d.created /\ e.updated = d.updated
        BY <1>3, <3>0 DEF Register!Decision
      <3>2. decision' = [decision EXCEPT ![k] = e]
        BY <2>1 DEF Claim
      <3>3. Boundary(d) < i.time
        BY <2>1 DEF Claim, Fresh
      <3>. QED
        BY <3>1, <3>2, <3>3
    <2>2. CASE Count(c, k)
      <3> DEFINE e == [d EXCEPT !.reviews = d.reviews + 1]
      <3>1. /\ e \in Register!Decision /\ e.reviews = d.reviews + 1 /\ ~e.reviewed
            /\ e.created = d.created /\ e.updated = d.updated
        BY <1>0, <1>3 DEF Register!Decision
      <3>2. decision' = [decision EXCEPT ![k] = e]
        BY <2>2 DEF Count
      <3>. QED
        BY <3>1, <3>2
    <2>. QED
      BY <2>1, <2>2
  <1>7. UNCHANGED <<actions, published, counters>>
    BY DEF Claim, Count
  <1>8. /\ decision' \in [Keys -> Register!Decision \union {None}]
        /\ decision'[k] = e /\ \A l \in Keys \ {k} : decision'[l] = decision[l]
        /\ e # None /\ Boundary(e) = Boundary(d)
    BY <1>0, <1>6, NoneAssumption DEF TypeOK, Boundary, Register!Boundary
  <1>9. ItemsFit' /\ ItemsDiffer'
    <2>2. ActionOf(c, k, a.id, a.time)' = a
      BY <1>1, <1>2, <1>4, <1>5 DEF ActionOf, Seen, Selected, Moved
    <2>3. ItemFits(c, k)'
      BY <1>0, <1>1, <1>2, <1>4, <1>5, <1>7, <1>8, <2>2
         DEF ItemFits, Moved, Unsaved, OnRecord, Unsettled, counters
    <2>. QED
      BY <1>0, <1>4, <1>5, <1>7, <1>8, <2>3, OthersFit DEF counters
  <1>10. \A b \in actions : Settled(b)' <=> Settled(b) \/ b = a
    <2> SUFFICES ASSUME NEW b \in actions PROVE Settled(b)' <=> Settled(b) \/ b = a
      OBVIOUS
    <2>1. b.id # 0 /\ (b.id = a.id <=> b = a)
      BY <1>1 DEF CurationInv, LogFits
    <2>. QED
      BY <1>0, <1>2, <1>4, <1>5, <2>1, SettledByMove DEF CurationInv, Unsettled
  <1>11. ~Settled(a)
    BY <1>0, <1>2 DEF Settled, Unsettled
  <1>12. /\ Log(k)' = Log(k) \union {a} /\ a \notin Log(k)
         /\ \A l \in Keys \ {k} : Log(l)' = Log(l)
    BY <1>1, <1>2, <1>7, <1>10, <1>11 DEF Log, ActionsOn
  <1>13. Cardinality(Log(k)') = Cardinality(Log(k)) + 1 /\ Cardinality(Log(k)) \in Nat
    <2>1. IsFiniteSet(Log(k))
      BY FS_Subset DEF Log, ActionsOn, CurationInv, LogFits
    <2>. QED
      BY <1>12, <2>1, FS_AddElement, FS_CardinalityType
  <1>14. CounterFollowsLog'
    <2>1. /\ d.reviews <= Cardinality(Log(k)) /\ clean => d.reviews = Cardinality(Log(k))
          /\ d.reviews <= Cardinality(Log(k))
      BY <1>3 DEF CurationInv, CounterFollowsLog, Log
    <2>2. e.reviews <= Cardinality(Log(k)') /\ (clean => e.reviews = Cardinality(Log(k)'))
      BY <1>3, <1>6, <1>13, <2>1 DEF CurationInv, CounterFollowsLog, Log
    <2>3. \A l \in Keys \ {k} : decision'[l] # None =>
            /\ decision'[l].reviews <= Cardinality(Log(l)')
            /\ clean => decision'[l].reviews = Cardinality(Log(l)')
      BY <1>8, <1>12 DEF CurationInv, CounterFollowsLog, Log
    <2>. QED
      BY <1>7, <1>8, <2>2, <2>3 DEF CounterFollowsLog, Log, counters
  <1>15. ReviewedHasAction'
    <2>1. ASSUME NEW l \in Keys \ {k}, decision'[l] # None, decision'[l].reviewed
          PROVE  \E b \in actions' : b.key = l /\ b.time > Boundary(decision'[l]) /\ Settled(b)'
      BY <1>7, <1>8, <1>10, <2>1 DEF CurationInv, ReviewedHasAction
    <2>2. ASSUME e.reviewed
          PROVE  a.time > Boundary(e) /\ Settled(a)' /\ a \in actions' /\ a.key = k
      <3>1. a.time \in Int
        <4>1. a \in UserAction
          BY <1>0 DEF TypeOK
        <4>2. a.time \in Times
          BY <4>1 DEF UserAction
        <4>. QED
          BY <4>2, TimesAreNumbers
      <3>2. Boundary(d) \in Int
        <4>1. d.created \in Times /\ d.updated \in Times \union {0}
          BY <1>3 DEF Register!Decision, Register!NoTime
        <4>. QED
          BY <4>1, TimesAreNumbers DEF Boundary, Register!Boundary
      <3>. QED
        BY <1>1, <1>2, <1>6, <1>7, <1>8, <1>10, <2>2, <3>1, <3>2
    <2>. QED
      BY <1>8, <2>1, <2>2 DEF ReviewedHasAction, Boundary
  <1>16. PublishedIsBacked' /\ LogFits' /\ TypeOK'
    <2>1. PublishedIsBacked'
      BY <1>7, <1>10 DEF CurationInv, PublishedIsBacked, Backed, Says
    <2>2. \A l \in Keys : decision[l] # None => decision'[l] # None
      BY <1>8
    <2>3. \A b \in actions : b.key \in Keys
      BY <1>0 DEF TypeOK, UserAction
    <2>4. LogFits'
      BY <1>7, <2>2, <2>3 DEF CurationInv, LogFits, counters
    <2>5. TypeOK'
      BY <1>0, <1>4, <1>7, <1>8 DEF TypeOK, Moved, counters
    <2>. QED
      BY <2>1, <2>4, <2>5
  <1>. QED
    BY <1>9, <1>14, <1>15, <1>16 DEF CurationInv

\* The delete of the compensation, which may also fail after it was applied: only an
\* action that is not settled goes.
Deleted(c, k) == actions' = {a \in actions : a.id # review[c][k].id}

LEMMA EndKeeps ==
  ASSUME CurationInv, NEW c \in Curators, NEW k \in Keys, Undo(c, k) \/ Fail(c, k)
  PROVE  CurationInv'
  <1> DEFINE i == review[c][k]
  <1>0. i # None /\ i \in Item /\ ItemFits(c, k) /\ TypeOK
    BY DEF Undo, Fail, At, CurationInv, TypeOK, ItemsFit
  <1>1. PICK step \in {"already_curated", "error"} : Goto(c, k, step)
    BY DEF Undo, Fail
  <1>2. /\ \/ At(c, k, "undoing") /\ Deleted(c, k)
           \/ step = "error" /\ actions' = actions
        /\ clean' \in BOOLEAN /\ faults' \in Nat
        /\ clean' => clean /\ step = "already_curated"
        /\ UNCHANGED <<decision, published, asked, issued, changes>>
        /\ step = "already_curated" => Undo(c, k)
    <2>0. ASSUME NEW s \in {"already_curated", "error"}, Goto(c, k, s) PROVE s = step
      BY <1>0, <1>1, <2>0 DEF Goto, TypeOK, Item
    <2>1. CASE Undo(c, k)
      <3>1. step = "already_curated"
        BY <2>0, <2>1 DEF Undo
      <3>2. faults' \in Nat /\ clean' \in BOOLEAN
        BY <1>0, <2>1 DEF Undo, counters, TypeOK
      <3>. QED
        BY <2>1, <3>1, <3>2 DEF Undo, Deleted, counters
    <2>2. CASE Fail(c, k) /\ ~Undo(c, k)
      <3>1. step = "error"
        BY <2>0, <2>2 DEF Fail
      <3>2. faults' \in Nat /\ clean' = FALSE
        BY <1>0, <2>2 DEF Fail, TypeOK
      <3>. QED
        BY <2>2, <3>1, <3>2 DEF Fail, Deleted
    <2>. QED
      BY <2>1, <2>2
  <1> DEFINE j == [i EXCEPT !.at = step]
  <1>3. Moved(c, k, j) /\ j \in Item /\ j # None
    BY <1>0, <1>1, GotoMoves DEF Ended
  <1>4. /\ j.at = step /\ j.id = i.id /\ j.kind = i.kind /\ j.choice = i.choice
        /\ j.seen = i.seen /\ j.time = i.time
    BY <1>0 DEF Item
  <1>. HIDE DEF j
  <1>5. /\ actions' \subseteq actions
        /\ \A a \in actions : a \in actions' \/ (a.id = j.id /\ ~Settled(a))
    <2>1. CASE actions' = actions
      BY <2>1
    <2>2. CASE At(c, k, "undoing") /\ Deleted(c, k)
      <3>1. \A a \in actions : a.id = i.id => ~Settled(a)
        BY <1>0, <2>2 DEF Settled, Unsettled, At
      <3>. QED
        BY <1>4, <2>2, <3>1 DEF Deleted
    <2>. QED
      BY <1>2, <2>1, <2>2
  <1>6. ItemsFit' /\ ItemsDiffer'
    <2>1. step = "already_curated" => \A a \in actions' : a.id # i.id
      BY <1>2 DEF Deleted, Undo
    <2>2. ItemFits(c, k)'
      BY <1>0, <1>2, <1>3, <1>4, <2>1 DEF ItemFits, Moved, Unsaved, OnRecord, Unsettled
    <2>. QED
      BY <1>0, <1>2, <1>3, <1>4, <1>5, <2>2, OthersFit
  <1>7. \A a \in actions : Settled(a) => Settled(a)' /\ a \in actions'
    BY <1>0, <1>1, <1>3, <1>4, <1>5, SettledByMove DEF CurationInv, LogFits, Unsettled
  <1>8. \A l \in Keys : Log(l) \subseteq Log(l)'
    BY <1>7 DEF Log, ActionsOn
  <1>9. clean' => \A l \in Keys : Log(l)' = Log(l)
    <2> SUFFICES ASSUME clean', NEW l \in Keys, NEW a \in Log(l)' PROVE a \in Log(l)
      BY <1>8
    <2>1. a \in actions /\ a \in actions' /\ a.key = l /\ Settled(a)' /\ a.id # 0
      BY <1>5 DEF Log, ActionsOn, CurationInv, LogFits
    <2>2. a.id # i.id
      BY <1>2, <2>1 DEF Undo
    <2>. QED
      BY <1>0, <1>3, <1>4, <2>1, <2>2, SettledByMove DEF CurationInv, Log, ActionsOn
  <1>10. LogFits'
    <2>1. IsFiniteSet(actions')
      BY <1>5, FS_Subset DEF CurationInv, LogFits
    <2>. QED
      BY <1>2, <1>5, <2>1 DEF CurationInv, LogFits
  <1>11. CounterFollowsLog'
    <2>1. \A l \in Keys : IsFiniteSet(Log(l)') /\ IsFiniteSet(Log(l))
      BY <1>10, FS_Subset DEF Log, ActionsOn, CurationInv, LogFits
    <2>2. \A l \in Keys : /\ Cardinality(Log(l)) <= Cardinality(Log(l)')
                          /\ Cardinality(Log(l)) \in Nat /\ Cardinality(Log(l)') \in Nat
      BY <1>8, <2>1, FS_Subset, FS_CardinalityType
    <2>3. \A l \in Keys : decision[l] # None => decision[l].reviews \in Nat
      BY <1>0 DEF TypeOK, Register!Decision
    <2>4. \A l \in Keys : decision[l] # None =>
            /\ decision[l].reviews <= Cardinality(Log(l))
            /\ clean => decision[l].reviews = Cardinality(Log(l))
      BY DEF CurationInv, CounterFollowsLog, Log
    <2>5. \A l \in Keys : decision[l] # None =>
            /\ decision[l].reviews <= Cardinality(Log(l)')
            /\ clean' => decision[l].reviews = Cardinality(Log(l)')
      BY <1>2, <1>9, <2>2, <2>3, <2>4
    <2>. QED
      BY <1>2, <2>5 DEF CounterFollowsLog, Log
  <1>12. ReviewedHasAction' /\ PublishedIsBacked'
    BY <1>2, <1>7 DEF CurationInv, ReviewedHasAction, Boundary, PublishedIsBacked, Backed, Says
  <1>13. TypeOK'
    BY <1>0, <1>2, <1>3, <1>5 DEF TypeOK, Moved
  <1>. QED
    BY <1>6, <1>10, <1>11, <1>12, <1>13 DEF CurationInv
-----------------------------------------------------------------------------
\* A request comes or goes: its new items have no user action, and all that it had
\* in progress is settled.
LEMMA RequestKeeps ==
  ASSUME CurationInv, NEW c \in Curators, NEW row \in [Keys -> Item \union {None}],
         review' = [review EXCEPT ![c] = row],
         \A k \in Keys : row[k] # None => /\ row[k].at = "queued" /\ row[k].id = 0
                                          /\ row[k].kind = "assign" => row[k].choice # None,
         clean' => /\ clean
                   /\ \A k \in Keys : review[c][k] # None => review[c][k].at \notin Unsettled,
         clean' \in BOOLEAN, {asked', faults'} \subseteq Nat,
         UNCHANGED <<decision, actions, published, issued, changes>>
  PROVE  CurationInv'
  <1>0. TypeOK /\ issued \in Nat /\ 0 <= issued
    BY DEF CurationInv, TypeOK
  <1>1. /\ review' \in [Curators -> [Keys -> Item \union {None}]] /\ review'[c] = row
        /\ \A d \in Curators \ {c} : review'[d] = review[d]
    BY <1>0 DEF TypeOK
  <1>2. ItemsDiffer'
    BY <1>1 DEF CurationInv, ItemsDiffer
  <1>3. ItemsFit'
    <2> SUFFICES ASSUME NEW d \in Curators, NEW l \in Keys, review'[d][l] # None PROVE ItemFits(d, l)'
      BY DEF ItemsFit
    <2>1. CASE d = c
      BY <1>0, <1>1, <2>1 DEF ItemFits, Unsaved, OnRecord, Unsettled
    <2>2. CASE d # c
      <3>1. review'[d][l] = review[d][l] /\ ItemFits(d, l)
        BY <1>1, <2>2 DEF CurationInv, ItemsFit
      <3>2. ActionOf(d, l, review[d][l].id, review[d][l].time)' = ActionOf(d, l, review[d][l].id, review[d][l].time)
        BY <3>1 DEF ActionOf, Seen
      <3>. QED
        BY <3>1, <3>2 DEF ItemFits
    <2>. QED
      BY <2>1, <2>2
  <1>4. \A a \in actions : Settled(a) => Settled(a)'
    <2>1. \A a \in actions : a.id # 0
      BY DEF CurationInv, LogFits
    <2>. QED
      BY <1>1, <2>1 DEF Settled
  <1>5. clean' => \A a \in actions : Settled(a)' => Settled(a)
    BY <1>1 DEF Settled
  <1>6. \A l \in Keys : Log(l) \subseteq Log(l)'
    BY <1>4 DEF Log, ActionsOn
  <1>7. clean' => \A l \in Keys : Log(l)' = Log(l)
    BY <1>4, <1>5 DEF Log, ActionsOn
  <1>8. CounterFollowsLog'
    <2>1. \A l \in Keys : IsFiniteSet(Log(l)') /\ IsFiniteSet(Log(l))
      BY FS_Subset DEF Log, ActionsOn, CurationInv, LogFits
    <2>2. \A l \in Keys : /\ Cardinality(Log(l)) <= Cardinality(Log(l)')
                          /\ Cardinality(Log(l)) \in Nat /\ Cardinality(Log(l)') \in Nat
      BY <1>6, <2>1, FS_Subset, FS_CardinalityType
    <2>3. \A l \in Keys : decision[l] # None => decision[l].reviews \in Nat
      BY <1>0 DEF TypeOK, Register!Decision
    <2>4. \A l \in Keys : decision[l] # None =>
            /\ decision[l].reviews <= Cardinality(Log(l))
            /\ clean => decision[l].reviews = Cardinality(Log(l))
      BY DEF CurationInv, CounterFollowsLog, Log
    <2>5. \A l \in Keys : decision[l] # None =>
            /\ decision[l].reviews <= Cardinality(Log(l)')
            /\ clean' => decision[l].reviews = Cardinality(Log(l)')
      BY <1>7, <2>2, <2>3, <2>4
    <2>. QED
      BY <2>5 DEF CounterFollowsLog, Log
  <1>9. ReviewedHasAction' /\ PublishedIsBacked'
    BY <1>4 DEF CurationInv, ReviewedHasAction, Boundary, PublishedIsBacked, Backed, Says
  <1>10. LogFits' /\ TypeOK'
    BY <1>0, <1>1 DEF CurationInv, LogFits, TypeOK
  <1>. QED
    BY <1>2, <1>3, <1>8, <1>9, <1>10 DEF CurationInv

LEMMA RequestsKeep ==
  ASSUME CurationInv,
         \/ \E a \in Asks : Ask(a)
         \/ \E c \in Curators : Reply(c) \/ Crash(c)
  PROVE  CurationInv'
  <1>0. TypeOK
    BY DEF CurationInv
  <1>1. ASSUME NEW a \in Asks, Ask(a) PROVE CurationInv'
    <2> DEFINE item == [at |-> "queued", kind |-> a.kind, choice |-> a.choice,
                        seen |-> None, id |-> 0, time |-> 0]
               row == [k \in Keys |-> IF k \in a.keys THEN item ELSE None]
    <2>1. /\ a.kind \in Kinds /\ a.choice \in Clusters \union {None} /\ a.actor \in Curators
          /\ a.kind = "assign" => a.choice # None
      BY AsksAssumption, OutcomesAssumption DEF Kinds
    <2>2. item \in Item
      BY <2>1 DEF Item
    <2>3. row \in [Keys -> Item \union {None}]
      BY <2>2
    <2>4. \A k \in Keys : row[k] # None => /\ row[k].at = "queued" /\ row[k].id = 0
                                           /\ row[k].kind = "assign" => row[k].choice # None
      BY <2>1
    <2>5. review' = [review EXCEPT ![a.actor] = row]
      BY <1>1 DEF Ask
    <2>6. \A k \in Keys : review[a.actor][k] = None
      BY <1>1 DEF Ask, Idle
    <2>7. /\ clean' = clean /\ clean \in BOOLEAN /\ {asked', faults'} \subseteq Nat
          /\ UNCHANGED <<decision, actions, published, issued, changes>>
      BY <1>0, <1>1 DEF Ask, TypeOK
    <2>. HIDE DEF row
    <2>. QED
      BY <2>1, <2>3, <2>4, <2>5, <2>6, <2>7, RequestKeeps
  <1>2. ASSUME NEW c \in Curators, Reply(c) \/ Crash(c) PROVE CurationInv'
    <2> DEFINE row == [k \in Keys |-> None]
    <2>1. row \in [Keys -> Item \union {None}] /\ \A k \in Keys : row[k] = None
      OBVIOUS
    <2>2. /\ review' = [review EXCEPT ![c] = row]
          /\ UNCHANGED <<decision, actions, published, issued, changes>>
      BY <1>2 DEF Reply, Crash, counters
    <2>3. clean' \in BOOLEAN /\ {asked', faults'} \subseteq Nat
      <3>1. CASE Reply(c)
        BY <1>0, <3>1 DEF Reply, TypeOK, counters
      <3>2. CASE Crash(c)
        <4>1. asked \in Nat /\ faults \in Nat
          BY <1>0 DEF TypeOK
        <4>2. asked' = asked /\ faults' = faults + 1 /\ clean' = FALSE
          BY <3>2 DEF Crash
        <4>3. asked' \in Nat /\ faults' \in Nat
          BY <4>1, <4>2
        <4>4. clean' \in BOOLEAN
          BY <4>2, Zenon
        <4>. QED
          BY <4>3, <4>4
      <3>. QED
        BY <1>2, <3>1, <3>2
    <2>4. clean' => /\ clean
                    /\ \A k \in Keys : review[c][k] # None => review[c][k].at \notin Unsettled
      BY <1>2 DEF Reply, Crash, counters, Ended, Unsettled
    <2>. HIDE DEF row
    <2>. QED
      BY <2>1, <2>2, <2>3, <2>4, RequestKeeps
  <1>. QED
    BY <1>1, <1>2

\* A placement is written, or the counts of all decisions: no request moves.
LEMMA DecisionsKeep ==
  ASSUME CurationInv, UNCHANGED <<review, actions, published, issued>>,
         decision' \in [Keys -> Register!Decision \union {None}],
         \A k \in Keys : decision[k] # None => decision'[k] # None,
         {asked', faults', changes'} \subseteq Nat, clean' \in BOOLEAN
  PROVE  /\ TypeOK' /\ ItemsFit' /\ ItemsDiffer' /\ LogFits' /\ PublishedIsBacked'
         /\ \A a \in actions : Settled(a)' <=> Settled(a)
         /\ \A k \in Keys : Log(k)' = Log(k)
  <1>1. TypeOK'
    BY DEF CurationInv, TypeOK
  <1>2. ASSUME NEW c \in Curators, NEW k \in Keys, review[c][k] # None PROVE ItemFits(c, k)'
    <2>1. ItemFits(c, k)
      BY <1>2 DEF CurationInv, ItemsFit
    <2>2. ActionOf(c, k, review[c][k].id, review[c][k].time)' = ActionOf(c, k, review[c][k].id, review[c][k].time)
      BY DEF ActionOf, Seen
    <2>. QED
      BY <2>1, <2>2 DEF ItemFits
  <1>3. ItemsFit' /\ ItemsDiffer'
    BY <1>2 DEF CurationInv, ItemsFit, ItemsDiffer
  <1>4. LogFits'
    <2>1. \A a \in actions : a.key \in Keys
      BY DEF CurationInv, TypeOK, UserAction
    <2>. QED
      BY <2>1 DEF CurationInv, LogFits
  <1>5. \A a \in actions : Settled(a)' <=> Settled(a)
    BY DEF Settled
  <1>6. PublishedIsBacked' /\ \A k \in Keys : Log(k)' = Log(k)
    BY <1>5 DEF CurationInv, PublishedIsBacked, Backed, Says, Log, ActionsOn
  <1>. QED
    BY <1>1, <1>3, <1>4, <1>5, <1>6

LEMMA IntegrateKeeps ==
  ASSUME CurationInv, NEW k \in Keys, NEW o \in Outcomes, NEW t \in Times, Integrate(k, o, t)
  PROVE  CurationInv'
  <1>. PICK d : d = decision[k]
    OBVIOUS
  <1>0. /\ TypeOK /\ t \in Times
        /\ decision \in [Keys -> Register!Decision \union {None}]
    BY DEF CurationInv, TypeOK
  <1>1. PICK e \in Register!Decision :
          /\ decision' = [decision EXCEPT ![k] = e] /\ ~e.reviewed
          /\ IF d = None THEN e.reviews = 0 ELSE e.reviews = d.reviews
    <2>1. CASE d = None
      <3>1. decision' = [decision EXCEPT ![k] = Register!Created(o, t)]
        BY <2>1 DEF Integrate
      <3>2. /\ Register!Created(o, t) \in Register!Decision
            /\ ~Register!Created(o, t).reviewed /\ Register!Created(o, t).reviews = 0
        BY DEF Register!Created, Register!Decision, Register!NoTime
      <3>. QED
        BY <2>1, <3>1, <3>2
    <2>2. CASE d # None
      <3>1. decision' = [decision EXCEPT ![k] = Register!Replaced(d, o, t)]
        BY <2>2 DEF Integrate
      <3>2. ASSUME NEW x \in Register!Decision
            PROVE  /\ Register!Replaced(x, o, t) \in Register!Decision
                   /\ ~Register!Replaced(x, o, t).reviewed
                   /\ Register!Replaced(x, o, t).reviews = x.reviews
        BY DEF Register!Replaced, Register!Decision
      <3>3. d \in Register!Decision
        BY <1>0, <2>2
      <3>. QED
        BY <2>2, <3>1, <3>2, <3>3
    <2>. QED
      BY <2>1, <2>2
  <1>2. /\ decision' \in [Keys -> Register!Decision \union {None}]
        /\ decision'[k] = e /\ e # None /\ \A l \in Keys \ {k} : decision'[l] = decision[l]
    BY <1>0, <1>1, NoneAssumption
  <1>3. /\ {asked', faults', changes'} \subseteq Nat /\ clean' = clean /\ clean \in BOOLEAN
        /\ UNCHANGED <<review, actions, published, issued>>
    BY <1>0 DEF Integrate, TypeOK
  <1>4. /\ TypeOK' /\ ItemsFit' /\ ItemsDiffer' /\ LogFits' /\ PublishedIsBacked'
        /\ \A a \in actions : Settled(a)' <=> Settled(a)
        /\ \A l \in Keys : Log(l)' = Log(l)
    BY <1>2, <1>3, DecisionsKeep
  <1>5. d = None => Log(k) = {}
    BY DEF Log, ActionsOn, CurationInv, LogFits
  <1>6. ReviewedHasAction'
    BY <1>1, <1>2, <1>3, <1>4 DEF CurationInv, ReviewedHasAction, Boundary
  <1>7. e.reviews <= Cardinality(Log(k)) /\ (clean => e.reviews = Cardinality(Log(k)))
    <2>1. CASE d = None
      BY <1>1, <1>5, <2>1, FS_EmptySet
    <2>2. CASE d # None
      BY <1>1, <2>2 DEF CurationInv, CounterFollowsLog, Log
    <2>. QED
      BY <2>1, <2>2
  <1>8. CounterFollowsLog'
    BY <1>2, <1>3, <1>4, <1>7 DEF CurationInv, CounterFollowsLog, Log
  <1>. QED
    BY <1>4, <1>6, <1>8 DEF CurationInv

\* The backfill runs while nobody curates, when every action is settled.
LEMMA BackfillKeeps ==
  ASSUME CurationInv, Backfill
  PROVE  CurationInv'
  <1>0. TypeOK /\ decision \in [Keys -> Register!Decision \union {None}] /\ IsFiniteSet(actions)
    BY DEF CurationInv, TypeOK, LogFits
  <1>1. \A a \in actions : Settled(a)
    BY DEF Backfill, Idle, Settled
  <1>2. \A k \in Keys : Log(k) = ActionsOn(k)
    BY <1>1 DEF Log, ActionsOn
  <1>3. \A k \in Keys : IsFiniteSet(ActionsOn(k)) /\ Cardinality(ActionsOn(k)) \in Nat
    BY <1>0, FS_Subset, FS_CardinalityType DEF ActionsOn
  <1>4. ASSUME NEW k \in Keys
        PROVE  /\ decision'[k] \in Register!Decision \union {None}
               /\ decision[k] = None <=> decision'[k] = None
               /\ decision[k] # None =>
                    /\ decision'[k].reviews = Cardinality(ActionsOn(k))
                    /\ decision'[k].reviewed =>
                         \E a \in ActionsOn(k) : a.time > Boundary(decision'[k])
    <2>. PICK d : d = decision[k]
      OBVIOUS
    <2>0. decision'[k] = Backfilled(k)
      BY DEF Backfill
    <2>1. CASE d = None
      BY <2>0, <2>1 DEF Backfilled
    <2>2. CASE d # None /\ ActionsOn(k) = {}
      <3>1. decision'[k] = d /\ d \in Register!Decision
        BY <1>0, <2>0, <2>2 DEF Backfilled
      <3>2. d.reviews <= 0 /\ ~d.reviewed
        <4>1. d.reviews <= Cardinality(Log(k))
          BY <2>2 DEF CurationInv, CounterFollowsLog, Log
        <4>2. Cardinality(Log(k)) = 0
          BY <1>2, <2>2, FS_EmptySet
        <4>3. ~d.reviewed
          BY <2>2 DEF CurationInv, ReviewedHasAction, ActionsOn
        <4>. QED
          BY <4>1, <4>2, <4>3
      <3>3. d.reviews = 0
        BY <3>1, <3>2 DEF Register!Decision
      <3>. QED
        BY <2>2, <3>1, <3>2, <3>3, FS_EmptySet
    <2>3. CASE d # None /\ ActionsOn(k) # {}
      <3>1. PICK n, b : /\ n = Cardinality(ActionsOn(k))
                        /\ b = (\E a \in ActionsOn(k) : a.time > Boundary(d))
        OBVIOUS
      <3>2. decision'[k] = [d EXCEPT !.reviews = n, !.reviewed = b]
        BY <2>0, <2>3, <3>1 DEF Backfilled
      <3>3. n \in Nat /\ b \in BOOLEAN /\ d \in Register!Decision
        BY <1>0, <1>3, <2>3, <3>1
      <3>4. decision'[k].reviewed = b
        BY <3>2, <3>3, Zenon DEF Register!Decision
      <3>5. /\ decision'[k] \in Register!Decision /\ decision'[k].reviews = n
            /\ decision'[k].created = d.created /\ decision'[k].updated = d.updated
        BY <3>2, <3>3 DEF Register!Decision
      <3>6. Boundary(decision'[k]) = Boundary(d)
        BY <3>5 DEF Boundary, Register!Boundary
      <3>. QED
        BY <2>3, <3>1, <3>4, <3>5, <3>6, NoneAssumption
    <2>. QED
      BY <2>1, <2>2, <2>3
  <1>5. decision' \in [Keys -> Register!Decision \union {None}]
    <2>1. decision' = [k \in Keys |-> decision'[k]]
      BY DEF Backfill
    <2>. QED
      BY <1>4, <2>1
  <1>6. /\ {asked', faults', changes'} \subseteq Nat /\ clean' \in BOOLEAN
        /\ UNCHANGED <<review, actions, published, issued>>
    BY <1>0 DEF Backfill, TypeOK
  <1>7. /\ TypeOK' /\ ItemsFit' /\ ItemsDiffer' /\ LogFits' /\ PublishedIsBacked'
        /\ \A a \in actions : Settled(a)' <=> Settled(a)
        /\ \A k \in Keys : Log(k)' = Log(k)
    BY <1>4, <1>5, <1>6, DecisionsKeep
  <1>8. ReviewedHasAction'
    BY <1>1, <1>4, <1>6, <1>7 DEF ReviewedHasAction, Boundary, ActionsOn
  <1>9. \A k \in Keys : decision'[k] # None => decision'[k].reviews = Cardinality(Log(k)')
    BY <1>2, <1>4, <1>7
  <1>10. CounterFollowsLog'
    BY <1>2, <1>3, <1>4, <1>7, <1>9 DEF CounterFollowsLog, Log
  <1>. QED
    BY <1>7, <1>8, <1>10 DEF CurationInv

-----------------------------------------------------------------------------
LEMMA StepKeeps ==
  ASSUME CurationInv, [CurationNext]_vars
  PROVE  CurationInv'
  <1>1. CASE StoreStep
    BY <1>1, IntegrateKeeps DEF StoreStep
  <1>2. CASE Backfill
    BY <1>2, BackfillKeeps
  <1>3. ASSUME NEW c \in Curators, NEW k \in Keys, ReviewStep(c, k) \/ Fail(c, k) PROVE CurationInv'
    BY <1>3, QuietSteps, SaveKeeps, CountKeeps, EndKeeps DEF ReviewStep
  <1>4. CASE UNCHANGED vars
    <2>1. ItemsFit'
      BY <1>4 DEF vars, CurationInv, ItemsFit, ItemFits, ActionOf, Seen
    <2>2. TypeOK' /\ ItemsDiffer' /\ LogFits'
      BY <1>4 DEF vars, CurationInv, TypeOK, ItemsDiffer, LogFits
    <2>3. PublishedIsBacked' /\ ReviewedHasAction' /\ CounterFollowsLog'
      BY <1>4 DEF vars, CurationInv, PublishedIsBacked, Backed, Says, Settled, ReviewedHasAction,
         CounterFollowsLog, ActionsOn, Boundary
    <2>. QED
      BY <2>1, <2>2, <2>3 DEF CurationInv
  <1>. QED
    BY <1>1, <1>2, <1>3, <1>4, RequestsKeep DEF CurationNext

LEMMA CurationInvariant == CurationSpec => []CurationInv
  <1>1. Init => CurationInv
    <2> SUFFICES ASSUME Init PROVE CurationInv
      OBVIOUS
    <2>1. TypeOK
      BY DEF Init, TypeOK
    <2>2. ItemsFit /\ ItemsDiffer /\ LogFits /\ PublishedIsBacked
      BY FS_EmptySet DEF Init, ItemsFit, ItemsDiffer, LogFits, PublishedIsBacked
    <2>3. ReviewedHasAction /\ CounterFollowsLog
      BY DEF Init, ReviewedHasAction, CounterFollowsLog
    <2>. QED
      BY <2>1, <2>2, <2>3 DEF CurationInv
  <1>. QED
    BY <1>1, StepKeeps, PTL DEF CurationSpec
\* The audit log, the decisions, the items and the ERE's requests keep their types.
THEOREM CurationTyped == CurationSpec => []TypeOK
  <1>. CurationInv => TypeOK
    BY DEF CurationInv
  <1>. QED
    BY CurationInvariant, PTL

\* A decision marked as reviewed has a user action that judged its placement and that
\* no compensation takes away, wherever the placement changes in between.
THEOREM ReviewsHaveActions == CurationSpec => []ReviewedHasAction
  <1>. CurationInv => ReviewedHasAction
    BY DEF CurationInv
  <1>. QED
    BY CurationInvariant, PTL

\* The counter of a decision is at most the number of its settled user actions, and
\* is that number until an operation fails.
THEOREM CounterIsLog == CurationSpec => []CounterFollowsLog
  <1>. CurationInv => CounterFollowsLog
    BY DEF CurationInv
  <1>. QED
    BY CurationInvariant, PTL

\* What a curator is told of a review agrees with the audit log.
THEOREM ToldTheLog == CurationSpec => []ToldAsRecorded
  <1>. CurationInv => ToldAsRecorded
    <2> SUFFICES ASSUME CurationInv, NEW c \in Curators, NEW k \in Keys, review[c][k] # None
                 PROVE  LET own == {a \in actions : a.id = review[c][k].id}
                        IN /\ At(c, k, "success") => own # {}
                           /\ review[c][k].at \in {"not_found", "invalid", "already_curated"} => own = {}
      BY DEF ToldAsRecorded
    <2>1. ItemFits(c, k) /\ \A a \in actions : a.id # 0
      BY DEF CurationInv, ItemsFit, LogFits
    <2>2. ActionOf(c, k, review[c][k].id, review[c][k].time).id = review[c][k].id
      BY DEF ActionOf
    <2>. QED
      BY <2>1, <2>2 DEF ItemFits, At, OnRecord, Unsaved
  <1>. QED
    BY CurationInvariant, PTL

\* A re-evaluation that the ERE was asked for stays backed by a user action that says
\* the same.
THEOREM PublishedIsRecorded == CurationSpec => []PublishedWasRecorded
  <1>. CurationInv => PublishedWasRecorded
    BY DEF CurationInv, PublishedIsBacked, Backed, Says, PublishedWasRecorded
  <1>. QED
    BY CurationInvariant, PTL

\* Until its placement is replaced, a reviewed decision stays reviewed and counts no
\* other review.
THEOREM ReviewsAreFinal == CurationSpec => ReviewIsFinal
  <1> DEFINE Final == \A k \in Keys :
               decision[k] # None /\ decision[k].reviewed /\ changes' = changes =>
                 /\ decision'[k].reviewed
                 /\ clean => decision'[k].reviews = decision[k].reviews
  <1>1. ASSUME CurationInv, [CurationNext]_vars PROVE Final
    <2> SUFFICES ASSUME NEW k \in Keys, decision[k] # None, decision[k].reviewed, changes' = changes
                 PROVE  /\ decision'[k].reviewed
                        /\ clean => decision'[k].reviews = decision[k].reviews
      OBVIOUS
    <2>0. TypeOK /\ changes \in Nat
      BY <1>1 DEF CurationInv, TypeOK
    <2>1. CASE decision' = decision
      BY <2>1
    <2>2. ASSUME NEW c \in Curators, NEW l \in Keys, Claim(c, l) \/ Count(c, l)
          PROVE  decision'[k] = decision[k]
      <3>1. k # l
        BY <2>2 DEF Claim, Count, Fresh
      <3>. QED
        BY <2>0, <2>2, <3>1 DEF Claim, Count, TypeOK
    <2>3. CASE Backfill
      <3>1. decision'[k] = Backfilled(k)
        BY <2>3 DEF Backfill
      <3>2. PICK a \in ActionsOn(k) : a.time > Boundary(decision[k])
        BY <1>1 DEF CurationInv, ReviewedHasAction, ActionsOn
      <3>3. \A b \in actions : Settled(b)
        BY <2>3 DEF Backfill, Idle, Settled
      <3>4. clean => decision[k].reviews = Cardinality(ActionsOn(k))
        <4>1. {b \in ActionsOn(k) : Settled(b)} = ActionsOn(k)
          BY <3>3 DEF ActionsOn
        <4>. QED
          BY <1>1, <4>1 DEF CurationInv, CounterFollowsLog
      <3>5. decision[k] \in Register!Decision
        BY <2>0 DEF TypeOK
      <3>6. PICK n, b : /\ n = Cardinality(ActionsOn(k))
                        /\ b = (\E x \in ActionsOn(k) : x.time > Boundary(decision[k]))
        OBVIOUS
      <3>7. decision'[k] = [decision[k] EXCEPT !.reviews = n, !.reviewed = b]
        BY <3>1, <3>2, <3>6 DEF Backfilled
      <3>8. decision'[k].reviews = n /\ decision'[k].reviewed = b
        BY <3>5, <3>7 DEF Register!Decision
      <3>. QED
        BY <3>2, <3>4, <3>6, <3>8
    <2>4. ASSUME StoreStep PROVE FALSE
      BY <2>0, <2>4 DEF StoreStep, Integrate
    <2>5. \/ decision' = decision \/ Backfill \/ StoreStep
          \/ \E c \in Curators, l \in Keys : Claim(c, l) \/ Count(c, l)
      <3>1. ASSUME NEW c \in Curators, NEW l \in Keys, ReviewStep(c, l) \/ Fail(c, l)
            PROVE  decision' = decision \/ Claim(c, l) \/ Count(c, l)
        BY <3>1 DEF ReviewStep, FindNothing, Find, Save, ClaimNothing, LoseClaim, Undo, Publish,
           PublishNothing, Fail
      <3>2. ASSUME \/ \E a \in Asks : Ask(a)
                   \/ \E c \in Curators : Reply(c) \/ Crash(c)
            PROVE  decision' = decision
        BY <3>2 DEF Ask, Reply, Crash
      <3>3. ASSUME UNCHANGED vars PROVE decision' = decision
        BY <3>3 DEF vars
      <3>. QED
        BY <1>1, <3>1, <3>2, <3>3 DEF CurationNext
    <2>. QED
      BY <2>1, <2>2, <2>3, <2>4, <2>5
  <1>2. CurationInv /\ [CurationNext]_vars => [Final]_vars
    BY <1>1
  <1>. QED
    BY <1>2, CurationInvariant, PTL DEF CurationSpec, ReviewIsFinal
================================================================================
