-------------------------- MODULE SourceRefreshProofs --------------------------
(***************************************************************************)
(* Theorems about SourceRefresh for every set of sources, clients and      *)
(* times, every finite set of mentions and every page size.                *)
(***************************************************************************)
EXTENDS SourceRefresh, KeysetPagesProofs

FetchedFinite == \A c \in Clients : reader[c] # None => IsFiniteSet(reader[c].fetched)

-----------------------------------------------------------------------------
\* A delta is a finite set of rows.
LEMMA DeltaRows ==
  ASSUME TypeOK, NEW s, NEW since
  PROVE  Delta(s, since) \in SUBSET Row /\ IsFiniteSet(Delta(s, since))
  <1> DEFINE D == Delta(s, since)
             f == [r \in D |-> r.id]
  <1>1. \A r \in D : r.id \in Triads /\ r.value = decisions[r.id].updated /\ r \in Row
    <2> SUFFICES ASSUME NEW t \in Triads, Changed(t, s, since)
                 PROVE  [id |-> t, value |-> decisions[t].updated] \in Row
      BY DEF Delta
    <2>1. decisions[t] \in Decision
      BY DEF Changed, TypeOK
    <2>2. Triads \subseteq Nat /\ Times \subseteq Nat
      BY RefreshAssumption
    <2>3. t \in Nat
      BY <2>2
    <2>4. decisions[t].updated \in Nat
      <3>1. decisions[t].updated \in Times \union {0}
        BY <2>1 DEF Decision
      <3>2. Times \union {0} \subseteq Nat
        BY <2>2
      <3>. QED
        BY <3>1, <3>2, Zenon
    <2>. QED
      BY <2>3, <2>4 DEF Row
  <1>2. \A a, b \in D : a.id = b.id => a = b
    BY <1>1 DEF Row
  <1>3. f \in Injection(D, Triads)
    BY <1>1, <1>2 DEF Injection, IsInjective
  <1>. QED
    BY <1>1, <1>3, FS_Injection, RefreshAssumption

\* The cursor of the next page is a row of what was fetched.
LEMMA CursorFetched ==
  ASSUME NEW rows \in SUBSET Row, IsFiniteSet(rows)
  PROVE  NextCursor(rows, Limit, TRUE) \subseteq rows
  <1>1. Cardinality(rows) \in Nat /\ Limit \in Nat \ {0}
    BY FS_CardinalityType, RefreshAssumption
  <1>2. CASE Cardinality(rows) > Limit
    <2>1. Limit \in 1..Cardinality(rows)
      BY <1>1, <1>2
    <2>. QED
      BY <1>2, <2>1, NthExists DEF NextCursor
  <1>3. CASE ~(Cardinality(rows) > Limit)
    BY <1>3 DEF NextCursor
  <1>. QED
    BY <1>2, <1>3

LEMMA FetchedRows ==
  ASSUME TypeOK, NEW s, NEW since, NEW cursor
  PROVE  /\ Fetched(Delta(s, since), cursor, Limit, TRUE) \in SUBSET Row
         /\ IsFiniteSet(Fetched(Delta(s, since), cursor, Limit, TRUE))
  <1>1. Fetched(Delta(s, since), cursor, Limit, TRUE) \in SUBSET Delta(s, since)
    BY DEF Fetched, First
  <1>. QED
    BY <1>1, DeltaRows, FS_Subset

\* A traversal is rewritten in one place.
LEMMA ReaderStep ==
  ASSUME TypeOK, FetchedFinite, NEW c \in Clients, NEW r \in Reader, IsFiniteSet(r.fetched),
         reader' = [reader EXCEPT ![c] = r]
  PROVE  reader' \in [Clients -> Reader \union {None}] /\ FetchedFinite'
  BY DEF TypeOK, FetchedFinite

LEMMA ReaderEnds ==
  ASSUME TypeOK, FetchedFinite, NEW c \in Clients, End(c)
  PROVE  reader' \in [Clients -> Reader \union {None}] /\ FetchedFinite'
  BY DEF TypeOK, FetchedFinite, End

LEMMA ReaderAgain ==
  ASSUME TypeOK, FetchedFinite, NEW c \in Clients, reader[c] # None, NEW heard \in BOOLEAN,
         Again(c, heard)
  PROVE  reader' \in [Clients -> Reader \union {None}] /\ FetchedFinite'
  <1> DEFINE r == [reader[c] EXCEPT !.at = "state", !.fetched = {}, !.time = 0, !.against = 0,
                                    !.undisturbed = reader[c].undisturbed /\ heard]
  <1>1. reader[c] \in Reader
    BY DEF TypeOK
  <1>2. r \in Reader /\ r.fetched = {}
    BY <1>1 DEF Reader
  <1>3. reader' = [reader EXCEPT ![c] = r]
    BY <1>1 DEF Again, Reader
  <1>. QED
    BY <1>2, <1>3, ReaderStep, FS_EmptySet

\* The variables of the refresh keep their types.
THEOREM RefreshTyped == Spec => [](TypeOK /\ FetchedFinite)
  <1>1. Init => TypeOK /\ FetchedFinite
    BY RefreshAssumption DEF Init, TypeOK, FetchedFinite
  <1>2. TypeOK /\ FetchedFinite /\ [Next]_vars => TypeOK' /\ FetchedFinite'
    <2> SUFFICES ASSUME TypeOK, FetchedFinite, [Next]_vars PROVE TypeOK' /\ FetchedFinite'
      OBVIOUS
    <2>1. ASSUME NEW t \in Triads, Register(t) PROVE TypeOK' /\ FetchedFinite'
      BY <2>1 DEF Register, TypeOK, FetchedFinite
    <2>2. ASSUME NEW t \in Triads, NEW u \in Times, StoreFirst(t, u) \/ StoreLater(t, u)
          PROVE  TypeOK' /\ FetchedFinite'
      BY <2>2 DEF StoreFirst, StoreLater, TypeOK, FetchedFinite, Decision
    <2>3. CASE Tick
      BY <2>3 DEF Tick, TypeOK, FetchedFinite
    <2>4. ASSUME NEW c \in Clients, RefreshStep(c) PROVE TypeOK' /\ FetchedFinite'
      <3> DEFINE r == reader[c]
      <3>0. r # None => r \in Reader
        BY DEF TypeOK
      <3>1. ASSUME NEW s \in Sources, Refresh(c, s) PROVE TypeOK' /\ FetchedFinite'
        <4> DEFINE others == {d \in Clients : reader[d] # None /\ reader[d].source = s}
                   begun == [source |-> s, at |-> "state", since |-> 0, cursor |-> {},
                             fetched |-> {}, time |-> 0, against |-> 0, due |-> {},
                             undisturbed |-> others = {}]
        <4>1. begun \in Reader
          <5>1. (others = {}) \in BOOLEAN
            OBVIOUS
          <5>. HIDE DEF others
          <5>. QED
            BY <5>1 DEF Reader
        <4>2. begun.fetched = {} /\ IsFiniteSet({})
          BY FS_EmptySet
        <4>3. reader' = [d \in Clients |->
                IF d = c THEN begun
                ELSE IF d \in others THEN [reader[d] EXCEPT !.undisturbed = FALSE] ELSE reader[d]]
          BY <3>1 DEF Refresh
        <4>. HIDE DEF begun
        <4>4. ASSUME NEW d \in Clients
              PROVE  /\ reader'[d] \in Reader \union {None}
                     /\ reader'[d] # None => IsFiniteSet(reader'[d].fetched)
          <5>1. d \in others => /\ [reader[d] EXCEPT !.undisturbed = FALSE] \in Reader
                                /\ [reader[d] EXCEPT !.undisturbed = FALSE].fetched = reader[d].fetched
            BY DEF TypeOK, Reader
          <5>. QED
            BY <4>1, <4>2, <4>3, <5>1 DEF TypeOK, FetchedFinite
        <4>. QED
          BY <3>1, <4>3, <4>4 DEF Refresh, TypeOK, FetchedFinite
      <3>2. CASE SourceNotFound(c)
        BY <3>2, ReaderEnds DEF SourceNotFound, TypeOK
      <3>3. CASE GetLookupState(c)
        <4>1. [r EXCEPT !.since = snapshot[r.source], !.at = "delta"] \in Reader
          BY <3>0, <3>3 DEF GetLookupState, At, TypeOK, Reader
        <4>2. reader' = [reader EXCEPT ![c] = [r EXCEPT !.since = snapshot[r.source], !.at = "delta"]]
          BY <3>0, <3>3 DEF GetLookupState, At, TypeOK, Reader
        <4>3. IsFiniteSet(r.fetched)
          BY <3>3 DEF GetLookupState, At, FetchedFinite
        <4>4. reader' \in [Clients -> Reader \union {None}] /\ FetchedFinite'
          <5>. DEFINE q == [r EXCEPT !.since = snapshot[r.source], !.at = "delta"]
          <5>1. q \in Reader /\ q.fetched = r.fetched
            BY <4>1, <3>0, <3>3 DEF GetLookupState, At, Reader
          <5>2. reader' = [reader EXCEPT ![c] = q] /\ IsFiniteSet(q.fetched)
            BY <4>2, <4>3, <5>1
          <5>. HIDE DEF q
          <5>. QED
            BY <5>1, <5>2, ReaderStep
        <4>. QED
          BY <3>3, <4>4 DEF GetLookupState, TypeOK
      <3>4. CASE QueryDelta(c)
        <4> DEFINE delta == Delta(r.source, r.since)
                   rows == Fetched(delta, r.cursor, Limit, TRUE)
                   q == [r EXCEPT !.fetched = rows, !.due = IF r.cursor = {} THEN delta ELSE r.due,
                                  !.since = 0,
                                  !.at = IF LastPage(rows) THEN "stamp" ELSE "contexts"]
        <4>0. delta \in SUBSET Row /\ rows \in SUBSET Row /\ IsFiniteSet(rows)
          BY DeltaRows, FetchedRows
        <4>. HIDE DEF delta, rows
        <4>1. q \in Reader
          BY <3>0, <3>4, <4>0, <4>0, RefreshAssumption DEF QueryDelta, At, TypeOK, Reader
        <4>2. reader' = [reader EXCEPT ![c] = q] /\ IsFiniteSet(q.fetched)
          BY <3>0, <3>4, <4>0 DEF QueryDelta, delta, rows, At, TypeOK, Reader, FetchedFinite
        <4>. QED
          BY <3>0, <3>4, <4>1, <4>2, ReaderStep DEF QueryDelta, TypeOK, Reader, At
      <3>5. CASE TakeTime(c)
        <4> DEFINE q == [r EXCEPT !.time = now, !.at = "compare"]
        <4>1. q \in Reader
          BY <3>0, <3>5, RefreshAssumption DEF TakeTime, At, TypeOK, Reader
        <4>2. reader' = [reader EXCEPT ![c] = q] /\ IsFiniteSet(q.fetched)
          BY <3>0, <3>5 DEF TakeTime, At, TypeOK, Reader, FetchedFinite
        <4>. QED
          BY <3>0, <3>5, <4>1, <4>2, ReaderStep DEF TakeTime, TypeOK, Reader, At
      <3>6. CASE SnapshotAccepted(c)
        <4> DEFINE q == [r EXCEPT !.against = snapshot[r.source], !.at = "save"]
        <4>1. q \in Reader
          BY <3>0, <3>6, RefreshAssumption DEF SnapshotAccepted, At, TypeOK, Reader
        <4>2. reader' = [reader EXCEPT ![c] = q] /\ IsFiniteSet(q.fetched)
          BY <3>0, <3>6 DEF SnapshotAccepted, At, TypeOK, Reader, FetchedFinite
        <4>. QED
          BY <3>0, <3>6, <4>1, <4>2, ReaderStep DEF SnapshotAccepted, TypeOK, Reader, At
      <3>7. CASE SnapshotRegression(c)
        BY <3>7, ReaderAgain DEF SnapshotRegression, At, TypeOK
      <3>8. CASE SaveSnapshot(c)
        <4> DEFINE q == [r EXCEPT !.at = "contexts", !.time = 0, !.against = 0]
        <4>1. q \in Reader
          BY <3>0, <3>8, RefreshAssumption DEF SaveSnapshot, At, TypeOK, Reader
        <4>2. reader' = [reader EXCEPT ![c] = q] /\ IsFiniteSet(q.fetched)
          BY <3>0, <3>8 DEF SaveSnapshot, At, TypeOK, Reader, FetchedFinite
        <4>. QED
          BY <3>0, <3>8, <4>1, <4>2, ReaderStep DEF SaveSnapshot, TypeOK, Reader, At
      <3>9. CASE Respond(c)
        <4> DEFINE q == [r EXCEPT !.at = "state", !.fetched = {},
                                  !.cursor = NextCursor(r.fetched, Limit, TRUE)]
        <4>0. /\ r \in Reader /\ NextCursor(r.fetched, Limit, TRUE) \in SUBSET Row
              /\ PageOf(r.fetched, Limit, TRUE) \in SUBSET Row
          BY <3>0, <3>9, CursorFetched DEF Respond, At, FetchedFinite, Reader, PageOf, First
        <4>1. delivered' \in [Sources -> SUBSET Row]
          BY <3>9, <4>0 DEF Respond, TypeOK, Reader
        <4>2. CASE LastPage(r.fetched)
          BY <3>9, <4>1, <4>2, ReaderEnds DEF Respond, TypeOK
        <4>3. CASE ~LastPage(r.fetched)
          <5>1. q \in Reader /\ q.fetched = {}
            BY <4>0 DEF Reader
          <5>2. reader' = [reader EXCEPT ![c] = q]
            BY <3>9, <4>0, <4>3 DEF Respond, Reader
          <5>3. reader' \in [Clients -> Reader \union {None}] /\ FetchedFinite'
            BY <5>1, <5>2, ReaderStep, FS_EmptySet
          <5>. QED
            BY <3>9, <4>1, <5>3 DEF Respond, TypeOK
        <4>. QED
          BY <4>2, <4>3
      <3>10. CASE RefreshFails(c)
        <4>1. (~(At(c, "contexts") /\ LastPage(r.fetched))) \in BOOLEAN
          OBVIOUS
        <4>2. (\E heard \in BOOLEAN : Again(c, heard)) \/ End(c)
          BY <3>10, <4>1, Zenon DEF RefreshFails
        <4>3. reader' \in [Clients -> Reader \union {None}] /\ FetchedFinite'
          BY <3>10, <4>2, ReaderAgain, ReaderEnds DEF RefreshFails
        <4>. QED
          BY <3>10, <4>3 DEF RefreshFails, TypeOK
      <3>. QED
        BY <2>4, <3>1, <3>2, <3>3, <3>4, <3>5, <3>6, <3>7, <3>8, <3>9, <3>10 DEF RefreshStep
    <2>5. CASE UNCHANGED vars
      BY <2>5 DEF vars, TypeOK, FetchedFinite
    <2>. QED
      BY <2>1, <2>2, <2>3, <2>4, <2>5 DEF Next
  <1>. QED
    BY <1>1, <1>2, PTL DEF Spec

-----------------------------------------------------------------------------
\* A step of a traversal leaves the others alone, but for the mark that a new one
\* sets on those of its source.
LEMMA OthersKept ==
  ASSUME TypeOK, NEW c \in Clients, RefreshStep(c), NEW d \in Clients \ {c}
  PROVE  \/ reader'[d] = reader[d]
         \/ /\ reader[d] # None /\ (\E s \in Sources : Refresh(c, s))
            /\ reader'[d] = [reader[d] EXCEPT !.undisturbed = FALSE]
  <1>1. ASSUME NEW s \in Sources, Refresh(c, s)
        PROVE  \/ reader'[d] = reader[d]
               \/ reader[d] # None /\ reader'[d] = [reader[d] EXCEPT !.undisturbed = FALSE]
    BY <1>1 DEF Refresh
  <1>2. CASE \A s \in Sources : ~Refresh(c, s)
    BY <1>2 DEF RefreshStep, TypeOK, SourceNotFound, GetLookupState, QueryDelta, TakeTime,
       SnapshotAccepted, SnapshotRegression, SaveSnapshot, Respond, RefreshFails, Again, End
  <1>. QED
    BY <1>1, <1>2

\* What is about to be saved is later than what it was compared with.
Compared == \A c \in Clients : At(c, "save") => reader[c].time > reader[c].against

LEMMA ComparedKept ==
  ASSUME TypeOK, Compared, NEW c \in Clients, RefreshStep(c)
  PROVE  Compared'
  <1> SUFFICES ASSUME NEW d \in Clients, At(d, "save")'
               PROVE  reader'[d].time > reader'[d].against
    BY DEF Compared
  <1>1. CASE d # c
    <2>1. \/ reader'[d] = reader[d]
          \/ reader[d] # None /\ reader'[d] = [reader[d] EXCEPT !.undisturbed = FALSE]
      BY <1>1, OthersKept
    <2>2. reader[d] # None => reader[d] \in Reader
      BY DEF TypeOK
    <2>3. /\ reader[d] # None /\ reader'[d].at = reader[d].at
          /\ reader'[d].time = reader[d].time /\ reader'[d].against = reader[d].against
      BY <2>1, <2>2 DEF At, Reader
    <2>. QED
      BY <2>3 DEF Compared, At
  <1>2. CASE d = c /\ SnapshotAccepted(c)
    <2>1. reader[c] \in Reader
      BY <1>2 DEF SnapshotAccepted, At, TypeOK
    <2>2. reader'[c] = [reader[c] EXCEPT !.against = snapshot[reader[c].source], !.at = "save"]
      BY <1>2 DEF SnapshotAccepted, TypeOK
    <2>3. reader'[c].time = reader[c].time /\ reader'[c].against = snapshot[reader[c].source]
      BY <2>1, <2>2 DEF Reader
    <2>. QED
      BY <1>2, <2>3 DEF SnapshotAccepted
  <1>3. CASE d = c /\ ~SnapshotAccepted(c)
    <2>0. reader[c] # None => reader[c] \in Reader
      BY DEF TypeOK
    <2>1. reader'[c] = None \/ reader'[c].at # "save"
      <3>1. CASE \E s \in Sources : Refresh(c, s)
        BY <3>1 DEF Refresh
      <3>2. CASE SourceNotFound(c)
        BY <3>2 DEF SourceNotFound, End, TypeOK
      <3>3. CASE GetLookupState(c) \/ TakeTime(c) \/ SaveSnapshot(c)
        BY <2>0, <3>3 DEF GetLookupState, TakeTime, SaveSnapshot, TypeOK, At, Reader
      <3>4. CASE QueryDelta(c)
        <4> DEFINE delta == Delta(reader[c].source, reader[c].since)
                   rows == Fetched(delta, reader[c].cursor, Limit, TRUE)
                   due == IF reader[c].cursor = {} THEN delta ELSE reader[c].due
                   step == IF LastPage(rows) THEN "stamp" ELSE "contexts"
                   q == [reader[c] EXCEPT !.fetched = rows, !.due = due, !.since = 0, !.at = step]
        <4>1. step # "save"
          OBVIOUS
        <4>. HIDE DEF rows, due, step
        <4>2. reader' = [reader EXCEPT ![c] = q]
          BY <2>0, <3>4 DEF QueryDelta, rows, due, step, delta, At, TypeOK, Reader
        <4>3. q.at = step
          BY <2>0, <3>4 DEF QueryDelta, At, Reader
        <4>4. reader'[c] = q
          BY <4>2 DEF TypeOK
        <4>. QED
          BY <4>1, <4>3, <4>4
      <3>5. CASE Respond(c)
        BY <2>0, <3>5 DEF Respond, End, At, TypeOK, Reader
      <3>6. CASE SnapshotRegression(c) \/ RefreshFails(c)
        BY <2>0, <3>6 DEF SnapshotRegression, RefreshFails, Again, End, At, TypeOK, Reader
      <3>. QED
        BY <1>3, <3>1, <3>2, <3>3, <3>4, <3>5, <3>6 DEF RefreshStep
    <2>. QED
      BY <1>3, <2>1 DEF At
  <1>. QED
    BY <1>1, <1>2, <1>3

\* The snapshot of a source moves forwards only, unless another refresh has
\* written it between the comparison and the write.
THEOREM SnapshotForwards == Spec => SnapshotAdvances
  <1> DEFINE Forwards ==
        \A c \in Clients, s \in Sources :
          /\ At(c, "save") /\ reader[c].source = s /\ reader'[c] # reader[c]
          /\ reader[c].against = snapshot[s] /\ snapshot'[s] # snapshot[s]
          => snapshot'[s] > snapshot[s]
  <1>1. Init => Compared
    BY DEF Init, Compared, At
  <1>2. TypeOK /\ Compared /\ [Next]_vars => Compared'
    <2> SUFFICES ASSUME TypeOK, Compared, [Next]_vars PROVE Compared'
      OBVIOUS
    <2>1. CASE reader' = reader
      BY <2>1 DEF Compared, At
    <2>2. ASSUME NEW c \in Clients, RefreshStep(c) PROVE Compared'
      BY <2>2, ComparedKept
    <2>. QED
      BY <2>1, <2>2 DEF Next, vars, Register, StoreFirst, StoreLater, Tick
  <1>3. TypeOK /\ Compared /\ [Next]_vars => Forwards
    <2> SUFFICES ASSUME TypeOK, Compared, [Next]_vars, NEW c \in Clients, NEW s \in Sources,
                        At(c, "save"), reader[c].source = s, reader'[c] # reader[c],
                        reader[c].against = snapshot[s], snapshot'[s] # snapshot[s]
                 PROVE  snapshot'[s] > snapshot[s]
      OBVIOUS
    <2>1. PICK d \in Clients : SaveSnapshot(d)
      BY DEF Next, vars, Register, StoreFirst, StoreLater, Tick, RefreshStep, Refresh,
         SourceNotFound, GetLookupState, QueryDelta, TakeTime, SnapshotAccepted,
         SnapshotRegression, Respond, RefreshFails
    <2>2. d = c
      BY <2>1 DEF SaveSnapshot, TypeOK
    <2>3. snapshot'[s] = reader[c].time
      BY <2>1, <2>2 DEF SaveSnapshot, TypeOK
    <2>. QED
      BY <2>3 DEF Compared
  <1>. QED
    BY <1>1, <1>2, <1>3, RefreshTyped, PTL DEF Spec, SnapshotAdvances

-----------------------------------------------------------------------------
\* The version of a decision as a row of the delta.
Latest(row, D) == [id |-> row.id, value |-> D[row.id].updated]
Covered(rows, row) == \E d \in rows : d.id = row.id /\ d.value >= row.value
Beyond(row, D, cursor) == \A p \in cursor : Past(Latest(row, D), p, TRUE)

\* The first page has been read; a page is held; it is the last one and the
\* snapshot has moved.
Started(r) == r.cursor # {} \/ r.at \notin {"state", "delta"}
HasPage(r) == r.at \in {"stamp", "compare", "save", "contexts"}
Final(r) == r.at = "contexts" /\ LastPage(r.fetched)

\* Where a row of the first delta is, given the decisions D, the snapshot last and
\* the rows got of the source: received, or in the page held, or still ahead.
Accounted(r, row, D, last, got) ==
  /\ row \in Row /\ row.id \in Triads /\ SourceOf[row.id] = r.source
  /\ row.value > 0
  /\ D[row.id] # None /\ D[row.id].updated >= row.value
  /\ ~Final(r) => row.value > last
  /\ Covered(got, row) \/ Beyond(row, D, r.cursor)
  /\ HasPage(r) => \/ Covered(got \union PageOf(r.fetched, Limit, TRUE), row)
                   \/ /\ ~LastPage(r.fetched)
                      /\ Beyond(row, D, NextCursor(r.fetched, Limit, TRUE))

Lone(r, D, last, got) ==
  /\ r.at = "delta" => r.since = last
  /\ r.at \in {"stamp", "compare", "save"} => LastPage(r.fetched)
  /\ Started(r) => \A row \in r.due : Accounted(r, row, D, last, got)

Undisturbed(c) == reader[c] # None /\ reader[c].undisturbed
Alone == \A c \in Clients : Undisturbed(c) =>
           \A d \in Clients \ {c} : reader[d] # None => reader[d].source # reader[c].source
LoneRefresh == \A c \in Clients : Undisturbed(c) =>
                 Lone(reader[c], decisions, snapshot[reader[c].source], delivered[reader[c].source])

Grown(D, E) == \A t \in Triads : D[t] # None => E[t] # None /\ E[t].updated >= D[t].updated

\* A later version of a row is still past the cursor.
LEMMA PastGrows ==
  ASSUME NEW a \in Row, NEW b \in Row, NEW p \in Row,
         a.id = b.id, a.value >= 0, b.value >= a.value, Past(a, p, TRUE)
  PROVE  Past(b, p, TRUE)
  <1>1. /\ a.value \in Int /\ b.value \in Int /\ p.value \in Int
        /\ a.id \in Nat /\ b.id \in Nat /\ p.id \in Nat
    BY DEF Row, NoValue
  <1>2. Before(p, a, TRUE)
    BY PastIsAfter
  <1>3. Before(p, b, TRUE)
    BY <1>1, <1>2 DEF Before
  <1>4. a.value # NoValue /\ b.value # NoValue
    BY <1>1 DEF NoValue
  <1>. QED
    BY <1>3, <1>4, PastIsAfter

LEMMA LatestIsRow ==
  ASSUME NEW D \in [Triads -> Decision \union {None}], NEW row \in Row,
         row.id \in Triads, D[row.id] # None
  PROVE  /\ Latest(row, D) \in Row /\ Latest(row, D).id = row.id
         /\ Latest(row, D).value = D[row.id].updated /\ D[row.id].updated \in Nat
  <1>1. D[row.id] \in Decision
    OBVIOUS
  <1>2. Times \union {0} \subseteq Nat /\ Triads \subseteq Nat
    BY RefreshAssumption
  <1>3. D[row.id].updated \in Times \union {0}
    BY <1>1 DEF Decision
  <1>4. D[row.id].updated \in Nat /\ row.id \in Nat
    BY <1>2, <1>3, Zenon DEF Row
  <1>. QED
    BY <1>4 DEF Latest, Row

\* A row stays accounted for while decisions are replaced and rows are received.
LEMMA AccountedKept ==
  ASSUME NEW D \in [Triads -> Decision \union {None}], NEW E \in [Triads -> Decision \union {None}],
         Grown(D, E), NEW r \in Reader, IsFiniteSet(r.fetched), NEW row, NEW last,
         NEW got, NEW more, got \subseteq more, Accounted(r, row, D, last, got)
  PROVE  Accounted(r, row, E, last, more)
  <1>1. row \in Row /\ row.id \in Triads /\ D[row.id] # None /\ row.value > 0
    BY DEF Accounted
  <1>2. E[row.id] # None /\ E[row.id].updated >= D[row.id].updated
    BY <1>1 DEF Grown
  <1>3. /\ Latest(row, D) \in Row /\ Latest(row, D).id = row.id
        /\ Latest(row, D).value = D[row.id].updated /\ D[row.id].updated \in Nat
    BY <1>1, LatestIsRow
  <1>4. /\ Latest(row, E) \in Row /\ Latest(row, E).id = row.id
        /\ Latest(row, E).value = E[row.id].updated /\ E[row.id].updated \in Nat
    BY <1>1, <1>2, LatestIsRow
  <1>5. row.value \in Int
    BY <1>1 DEF Row, NoValue
  <1>6. E[row.id].updated >= row.value
    BY <1>2, <1>3, <1>4, <1>5 DEF Accounted
  <1>7. ASSUME NEW C \in SUBSET Row, Beyond(row, D, C) PROVE Beyond(row, E, C)
    <2> SUFFICES ASSUME NEW p \in C PROVE Past(Latest(row, E), p, TRUE)
      BY DEF Beyond
    <2>1. Past(Latest(row, D), p, TRUE)
      BY <1>7 DEF Beyond
    <2>2. /\ Latest(row, D).id = Latest(row, E).id /\ Latest(row, D).value >= 0
          /\ Latest(row, E).value >= Latest(row, D).value
      BY <1>2, <1>3, <1>4
    <2>. QED
      BY <1>3, <1>4, <2>1, <2>2, PastGrows
  <1>8. r.cursor \in SUBSET Row /\ r.fetched \in SUBSET Row
    BY DEF Reader
  <1>9. NextCursor(r.fetched, Limit, TRUE) \in SUBSET Row
    BY <1>8, CursorFetched
  <1>10. Covered(got, row) \/ Beyond(row, D, r.cursor)
         => Covered(more, row) \/ Beyond(row, E, r.cursor)
    BY <1>7, <1>8 DEF Covered
  <1>11. ASSUME HasPage(r)
         PROVE  \/ Covered(more \union PageOf(r.fetched, Limit, TRUE), row)
                \/ /\ ~LastPage(r.fetched)
                   /\ Beyond(row, E, NextCursor(r.fetched, Limit, TRUE))
    BY <1>7, <1>9, <1>11 DEF Covered, Accounted
  <1>. QED
    BY <1>2, <1>6, <1>10, <1>11 DEF Accounted

LEMMA LoneKept ==
  ASSUME NEW D \in [Triads -> Decision \union {None}], NEW E \in [Triads -> Decision \union {None}],
         Grown(D, E), NEW r \in Reader, IsFiniteSet(r.fetched), NEW last,
         NEW got, NEW more, got \subseteq more, Lone(r, D, last, got)
  PROVE  Lone(r, E, last, more)
  BY AccountedKept DEF Lone

\* The steps of a traversal that read and write no decision: q is what r becomes,
\* new the snapshot after the step.
LEMMA LoneMoves ==
  ASSUME NEW r \in Reader, NEW q, NEW D, NEW last, NEW new, NEW got,
         Lone(r, D, last, got),
         q.source = r.source, q.cursor = r.cursor, q.due = r.due,
         \/ r.at = "state" /\ q.at = "delta" /\ q.since = last /\ new = last
         \/ /\ r.at \in {"stamp", "compare"} /\ q.at \in {"compare", "save"}
            /\ q.fetched = r.fetched /\ new = last
         \/ r.at = "save" /\ q.at = "contexts" /\ q.fetched = r.fetched
         \/ ~Final(r) /\ q.at = "state" /\ new = last
  PROVE  Lone(q, D, new, got)
  <1>1. Started(q) => Started(r)
    BY DEF Started
  <1>2. q.at = "delta" => q.since = new
    OBVIOUS
  <1>3. q.at \in {"stamp", "compare", "save"} => LastPage(q.fetched)
    BY DEF Lone
  <1>4. ASSUME Started(q), NEW row \in q.due PROVE Accounted(q, row, D, new, got)
    <2>1. Accounted(r, row, D, last, got)
      BY <1>1, <1>4 DEF Lone
    <2>2. HasPage(q) => HasPage(r) /\ q.fetched = r.fetched
      BY DEF HasPage
    <2>3. ~Final(q) => ~Final(r) /\ new = last
      BY DEF Final, Lone
    <2>. QED
      BY <2>1, <2>2, <2>3 DEF Accounted
  <1>. QED
    BY <1>2, <1>3, <1>4 DEF Lone

\* A page is fetched: a row that is due is in it, or past its cursor.
LEMMA LoneQueries ==
  ASSUME TypeOK, NEW r \in Reader, r.at = "delta",
         Lone(r, decisions, snapshot[r.source], delivered[r.source]),
         NEW delta, delta = Delta(r.source, r.since),
         NEW rows, rows = Fetched(delta, r.cursor, Limit, TRUE),
         NEW q, q.source = r.source, q.cursor = r.cursor, q.fetched = rows,
         q.due = IF r.cursor = {} THEN delta ELSE r.due,
         q.at = IF LastPage(rows) THEN "stamp" ELSE "contexts"
  PROVE  Lone(q, decisions, snapshot[r.source], delivered[r.source])
  <1> DEFINE S == {d \in delta : \A p \in r.cursor : Past(d, p, TRUE)}
             last == snapshot[r.source]
             got == delivered[r.source]
             page == PageOf(rows, Limit, TRUE)
  <1>1. last \in Nat /\ r.since = last /\ Limit \in Nat \ {0}
    <2>1. last \in Times \union {0}
      BY DEF TypeOK, Reader
    <2>2. Times \union {0} \subseteq Nat /\ Limit \in Nat \ {0}
      BY RefreshAssumption
    <2>3. last \in Nat
      BY <2>1, <2>2, Zenon
    <2>. QED
      BY <2>2, <2>3 DEF Lone
  <1>2. delta \in SUBSET Row /\ IsFiniteSet(delta)
    BY DeltaRows
  <1>3. S \in SUBSET Row /\ IsFiniteSet(S)
    BY <1>2, FS_Subset
  <1>4. rows = First(S, Limit + 1, TRUE)
    BY DEF Fetched
  <1>5. ASSUME NEW row \in delta
        PROVE  /\ row.id \in Triads /\ SourceOf[row.id] = r.source /\ decisions[row.id] # None
               /\ row.value = decisions[row.id].updated /\ row.value > last
               /\ row = Latest(row, decisions)
    <2>1. PICK t \in Triads : /\ Changed(t, r.source, r.since)
                              /\ row = [id |-> t, value |-> decisions[t].updated]
      BY DEF Delta
    <2>2. row.id = t /\ row.value = decisions[t].updated /\ row \in Row
      BY <1>2, <2>1
    <2>3. decisions[t].updated \in Nat
      BY <2>1, <2>2, LatestIsRow DEF TypeOK, Changed
    <2>. QED
      BY <1>1, <2>1, <2>2, <2>3 DEF Changed, Latest
  <1>6. ASSUME NEW row, row \in Row, row.id \in Triads, SourceOf[row.id] = r.source,
               decisions[row.id] # None, decisions[row.id].updated > last
        PROVE  Latest(row, decisions) \in delta
    <2>1. decisions[row.id].updated \in Nat
      BY <1>6, LatestIsRow DEF TypeOK
    <2>2. Changed(row.id, r.source, r.since)
      BY <1>1, <1>6, <2>1 DEF Changed
    <2>. QED
      BY <1>6, <2>2 DEF Delta, Latest
  <1>7. ASSUME NEW d \in S
        PROVE  \/ d \in page
               \/ ~LastPage(rows) /\ (\A p \in NextCursor(rows, Limit, TRUE) : Past(d, p, TRUE))
    <2>. HIDE DEF S
    <2>1. /\ rows \subseteq S /\ NextCursor(rows, Limit, TRUE) \subseteq rows
          /\ NextCursor(rows, Limit, TRUE) = {} => page = S
          /\ \A p \in NextCursor(rows, Limit, TRUE), s \in S : s \in page <=> ~Before(p, s, TRUE)
      BY <1>1, <1>3, <1>4, PageThenRest, Zenon
    <2>2. ASSUME NEW p \in NextCursor(rows, Limit, TRUE), d \notin page PROVE Past(d, p, TRUE)
      <3>1. Before(p, d, TRUE) /\ p \in delta /\ d \in delta /\ p \in Row /\ d \in Row
        BY <1>2, <2>1, <2>2 DEF S
      <3>2. p.value # NoValue /\ d.value # NoValue
        BY <1>1, <1>5, <3>1 DEF Row, NoValue
      <3>. QED
        BY <3>1, <3>2, PastIsAfter
    <2>. QED
      BY <2>1, <2>2 DEF LastPage
  <1>8. ASSUME NEW row \in q.due
        PROVE  /\ row \in Row /\ row.id \in Triads /\ SourceOf[row.id] = r.source /\ row.value > last
               /\ decisions[row.id] # None /\ decisions[row.id].updated >= row.value
               /\ Covered(got, row) \/ Beyond(row, decisions, r.cursor)
    <2>1. CASE r.cursor = {}
      <3>1. row \in delta
        BY <1>8, <2>1
      <3>2. row.value \in Int
        BY <1>2, <3>1 DEF Row, NoValue
      <3>3. Beyond(row, decisions, r.cursor)
        BY <2>1 DEF Beyond
      <3>. QED
        BY <1>2, <1>5, <3>1, <3>2, <3>3
    <2>2. CASE r.cursor # {}
      <3>1. Accounted(r, row, decisions, last, got)
        BY <1>8, <2>2 DEF Lone, Started
      <3>. QED
        BY <3>1 DEF Accounted, Final
    <2>. QED
      BY <2>1, <2>2
  <1>9. ASSUME NEW row \in q.due
        PROVE  \/ Covered(got \union page, row)
               \/ ~LastPage(rows) /\ Beyond(row, decisions, NextCursor(rows, Limit, TRUE))
    <2>1. CASE Covered(got, row)
      BY <2>1 DEF Covered
    <2>2. CASE Beyond(row, decisions, r.cursor)
      <3> DEFINE d == Latest(row, decisions)
      <3>1. d.id = row.id /\ d.value = decisions[row.id].updated /\ d.value \in Nat
        BY <1>8, <1>9, LatestIsRow DEF TypeOK
      <3>2. d.value >= row.value /\ d.value > last
        BY <1>1, <1>8, <1>9, <3>1 DEF Row, NoValue
      <3>3. d \in delta
        BY <1>6, <1>8, <1>9, <3>1, <3>2
      <3>4. d \in S
        BY <2>2, <3>3 DEF Beyond
      <3>. QED
        BY <1>7, <3>1, <3>2, <3>4 DEF Covered, Beyond
    <2>. QED
      BY <1>8, <1>9, <2>1, <2>2
  <1>10. \A row \in q.due : Accounted(q, row, decisions, last, got)
    <2> SUFFICES ASSUME NEW row \in q.due PROVE Accounted(q, row, decisions, last, got)
      OBVIOUS
    <2>1. row.value > 0
      BY <1>1, <1>8 DEF Row, NoValue
    <2>. QED
      BY <1>8, <1>9, <2>1 DEF Accounted
  <1>11. q.at # "delta" /\ (q.at \in {"stamp", "compare", "save"} => LastPage(q.fetched))
    OBVIOUS
  <1>. QED
    BY <1>10, <1>11 DEF Lone

\* A page that is not the last is received, and the next one asked for.
LEMMA LoneResponds ==
  ASSUME NEW r \in Reader, r.at = "contexts", ~LastPage(r.fetched), NEW D, NEW last, NEW got,
         Lone(r, D, last, got),
         NEW q, q.source = r.source, q.due = r.due, q.at = "state",
         q.cursor = NextCursor(r.fetched, Limit, TRUE)
  PROVE  Lone(q, D, last, got \union PageOf(r.fetched, Limit, TRUE))
  <1>1. ASSUME NEW row \in q.due
        PROVE  Accounted(q, row, D, last, got \union PageOf(r.fetched, Limit, TRUE))
    <2>1. Accounted(r, row, D, last, got)
      BY <1>1 DEF Lone, Started
    <2>. QED
      BY <2>1 DEF Accounted, HasPage, Final
  <1>. QED
    BY <1>1 DEF Lone

-----------------------------------------------------------------------------
\* Outside the steps of the traversal itself decisions grow, and only a refresh
\* of its source moves its snapshot.
LEMMA DecisionsGrow ==
  ASSUME TypeOK, [Next]_vars
  PROVE  Grown(decisions, decisions')
  <1>0. ASSUME NEW t \in Triads, decisions[t] # None
        PROVE  /\ decisions[t] \in Decision /\ decisions[t].updated \in Nat
    <2>1. decisions[t] \in Decision
      BY <1>0 DEF TypeOK
    <2>2. decisions[t].updated \in Times \union {0} /\ Times \union {0} \subseteq Nat
      BY <2>1, RefreshAssumption DEF Decision
    <2>3. decisions[t].updated \in Nat
      BY <2>2, Zenon
    <2>. QED
      BY <2>1, <2>3
  <1>1. CASE decisions' = decisions
    BY <1>0, <1>1 DEF Grown
  <1>2. ASSUME NEW t \in Triads, NEW u \in Times, StoreFirst(t, u)
        PROVE  Grown(decisions, decisions')
    BY <1>0, <1>2 DEF StoreFirst, Grown, TypeOK
  <1>3. ASSUME NEW t \in Triads, NEW u \in Times, StoreLater(t, u)
        PROVE  Grown(decisions, decisions')
    <2> SUFFICES ASSUME NEW v \in Triads, decisions[v] # None
                 PROVE  decisions'[v] # None /\ decisions'[v].updated >= decisions[v].updated
      BY DEF Grown
    <2>1. CASE v # t
      BY <1>0, <1>3, <2>1 DEF StoreLater, TypeOK
    <2>2. CASE v = t
      <3>0. decisions[t] \in Decision /\ decisions[t].updated \in Nat
        BY <1>0, <2>2
      <3>1. u \in Nat
        BY RefreshAssumption
      <3>2. u >= decisions[t].updated
        BY <1>3, <3>0, <3>1 DEF StoreLater
      <3>3. decisions' = [decisions EXCEPT ![t] = [decisions[t] EXCEPT !.updated = u]]
        BY <1>3 DEF StoreLater, TypeOK
      <3>4. [decisions[t] EXCEPT !.updated = u] \in Decision
        BY <3>0 DEF Decision
      <3>5. [decisions[t] EXCEPT !.updated = u].updated = u
        BY <3>0 DEF Decision
      <3>6. decisions'[t] = [decisions[t] EXCEPT !.updated = u]
        BY <3>3 DEF TypeOK
      <3>. QED
        BY <2>2, <3>2, <3>4, <3>5, <3>6, NoneAssumption
    <2>. QED
      BY <2>1, <2>2
  <1>. QED
    BY <1>1, <1>2, <1>3 DEF Next, vars, Register, Tick, RefreshStep, Refresh, SourceNotFound,
       GetLookupState, QueryDelta, TakeTime, SnapshotAccepted, SnapshotRegression, SaveSnapshot,
       Respond, RefreshFails

LEMMA OthersLeave ==
  ASSUME TypeOK, NEW c \in Clients, RefreshStep(c), NEW s \in Sources,
         reader[c] # None => reader[c].source # s
  PROVE  snapshot'[s] = snapshot[s] /\ delivered'[s] = delivered[s]
  <1>1. CASE Respond(c)
    BY <1>1 DEF Respond, At, TypeOK
  <1>2. CASE SaveSnapshot(c)
    BY <1>2 DEF SaveSnapshot, At, TypeOK
  <1>. QED
    BY <1>1, <1>2 DEF RefreshStep, Refresh, SourceNotFound, GetLookupState, QueryDelta, TakeTime,
       SnapshotAccepted, SnapshotRegression, RefreshFails

\* The rest of a step of client c when c is the one that steps: what its traversal
\* becomes.
LEMMA OwnStep ==
  ASSUME TypeOK, FetchedFinite, NEW c \in Clients, RefreshStep(c), Undisturbed(c), Undisturbed(c)',
         Lone(reader[c], decisions, snapshot[reader[c].source], delivered[reader[c].source])
  PROVE  /\ reader'[c].source = reader[c].source
         /\ Lone(reader'[c], decisions, snapshot'[reader[c].source], delivered'[reader[c].source])
  <1> DEFINE r == reader[c]
             q == reader'[c]
             s == reader[c].source
  <1>0. r \in Reader /\ IsFiniteSet(r.fetched) /\ s \in Sources
    BY DEF Undisturbed, TypeOK, FetchedFinite, Reader
  <1>1. CASE \E z \in Sources : Refresh(c, z)
    BY <1>1 DEF Refresh, Undisturbed
  <1>2. CASE SourceNotFound(c)
    BY <1>2 DEF SourceNotFound, End, TypeOK, Undisturbed
  <1>3. CASE GetLookupState(c)
    <2>1. /\ q.source = s /\ q.cursor = r.cursor /\ q.due = r.due /\ q.since = snapshot[s]
          /\ r.at = "state" /\ q.at = "delta" /\ snapshot' = snapshot /\ delivered' = delivered
      BY <1>0, <1>3 DEF GetLookupState, At, TypeOK, Reader
    <2>. HIDE DEF r, q, s
    <2>. QED
      BY <1>0, <2>1, LoneMoves DEF r, q, s
  <1>4. CASE QueryDelta(c)
    <2> DEFINE delta == Delta(r.source, r.since)
               rows == Fetched(delta, r.cursor, Limit, TRUE)
               due == IF r.cursor = {} THEN delta ELSE r.due
               step == IF LastPage(rows) THEN "stamp" ELSE "contexts"
               n == [r EXCEPT !.fetched = rows, !.due = due, !.since = 0, !.at = step]
    <2>1. reader' = [reader EXCEPT ![c] = n]
      <3>. HIDE DEF rows, due, step
      <3>. QED
        BY <1>0, <1>4 DEF QueryDelta, rows, due, step, delta, TypeOK, Reader
    <2>2. q = n
      BY <2>1 DEF TypeOK
    <2>3. /\ n.source = s /\ n.cursor = r.cursor /\ n.fetched = rows /\ n.due = due
          /\ n.at = step
      <3>. HIDE DEF rows, due, step
      <3>. QED
        BY <1>0 DEF Reader
    <2>4. r.at = "delta" /\ snapshot' = snapshot /\ delivered' = delivered
      BY <1>4 DEF QueryDelta, At
    <2>5. Lone(q, decisions, snapshot[s], delivered[s])
      <3>. HIDE DEF r, q, s, n
      <3>. QED
        BY <1>0, <2>2, <2>3, <2>4, LoneQueries DEF r, s
    <2>. QED
      BY <2>2, <2>3, <2>4, <2>5
  <1>5. CASE TakeTime(c) \/ SnapshotAccepted(c)
    <2>1. /\ q.source = s /\ q.cursor = r.cursor /\ q.due = r.due /\ q.fetched = r.fetched
          /\ r.at \in {"stamp", "compare"} /\ q.at \in {"compare", "save"}
          /\ snapshot' = snapshot /\ delivered' = delivered
      BY <1>0, <1>5 DEF TakeTime, SnapshotAccepted, At, TypeOK, Reader
    <2>. QED
      BY <1>0, <2>1, LoneMoves
  <1>6. CASE SaveSnapshot(c)
    <2>1. /\ q.source = s /\ q.cursor = r.cursor /\ q.due = r.due /\ q.fetched = r.fetched
          /\ r.at = "save" /\ q.at = "contexts" /\ delivered' = delivered
      BY <1>0, <1>6 DEF SaveSnapshot, At, TypeOK, Reader
    <2>. QED
      BY <1>0, <2>1, LoneMoves
  <1>7. CASE SnapshotRegression(c) \/ RefreshFails(c)
    <2>1. PICK heard \in BOOLEAN : Again(c, heard) /\ (heard => ~Final(r))
      <3>1. CASE SnapshotRegression(c)
        BY <3>1 DEF SnapshotRegression, At, Final
      <3>2. CASE RefreshFails(c)
        <4>1. ~End(c)
          BY DEF End, TypeOK, Undisturbed
        <4>2. (~(At(c, "contexts") /\ LastPage(r.fetched))) \in BOOLEAN
          OBVIOUS
        <4>3. Again(c, ~(At(c, "contexts") /\ LastPage(r.fetched)))
          BY <3>2, <4>1 DEF RefreshFails
        <4>4. ~(At(c, "contexts") /\ LastPage(r.fetched)) => ~Final(r)
          BY DEF At, Final, Undisturbed
        <4>. QED
          BY <4>2, <4>3, <4>4, Zenon
      <3>. QED
        BY <1>7, <3>1, <3>2
    <2> DEFINE n == [r EXCEPT !.at = "state", !.fetched = {}, !.time = 0, !.against = 0,
                              !.undisturbed = r.undisturbed /\ heard]
    <2>2. reader' = [reader EXCEPT ![c] = n]
      BY <1>0, <2>1 DEF Again, Reader
    <2>3. q = n
      BY <2>2 DEF TypeOK
    <2>4. /\ n.source = s /\ n.cursor = r.cursor /\ n.due = r.due /\ n.at = "state"
          /\ n.undisturbed = (r.undisturbed /\ heard)
      BY <1>0 DEF Reader
    <2>5. heard
      BY <2>3, <2>4 DEF Undisturbed
    <2>6. snapshot' = snapshot /\ delivered' = delivered
      BY <1>7 DEF SnapshotRegression, RefreshFails
    <2>. HIDE DEF n
    <2>. QED
      BY <1>0, <2>1, <2>3, <2>4, <2>5, <2>6, LoneMoves
  <1>8. CASE Respond(c)
    <2> DEFINE next == NextCursor(r.fetched, Limit, TRUE)
               n == [r EXCEPT !.at = "state", !.fetched = {}, !.cursor = next]
    <2>1. r.at = "contexts" /\ ~LastPage(r.fetched)
      BY <1>8 DEF Respond, At, End, TypeOK, Undisturbed
    <2>2. reader' = [reader EXCEPT ![c] = n]
      BY <1>0, <1>8, <2>1 DEF Respond, Reader
    <2>3. q = n
      BY <2>2 DEF TypeOK
    <2>4. n.source = s /\ n.cursor = next /\ n.due = r.due /\ n.at = "state"
      BY <1>0 DEF Reader
    <2>5. snapshot' = snapshot /\ delivered'[s] = delivered[s] \union PageOf(r.fetched, Limit, TRUE)
      BY <1>0, <1>8 DEF Respond, TypeOK
    <2>. HIDE DEF n
    <2>6. Lone(q, decisions, snapshot[s], delivered[s] \union PageOf(r.fetched, Limit, TRUE))
      BY <1>0, <2>1, <2>3, <2>4, LoneResponds
    <2>. QED
      BY <2>3, <2>4, <2>5, <2>6
  <1>. QED
    BY <1>1, <1>2, <1>3, <1>4, <1>5, <1>6, <1>7, <1>8 DEF RefreshStep

\* A traversal that is still undisturbed after a step of another client was so
\* before, and has not been touched.
LEMMA UndisturbedWas ==
  ASSUME TypeOK, NEW c \in Clients, RefreshStep(c), NEW d \in Clients \ {c}, Undisturbed(d)'
  PROVE  reader'[d] = reader[d] /\ Undisturbed(d) /\ reader[d] \in Reader
  <1>1. reader[d] # None => reader[d] \in Reader
    BY DEF TypeOK
  <1>2. \/ reader'[d] = reader[d]
        \/ reader[d] # None /\ reader'[d] = [reader[d] EXCEPT !.undisturbed = FALSE]
    BY OthersKept
  <1>3. reader'[d] = reader[d]
    BY <1>1, <1>2 DEF Undisturbed, Reader
  <1>. QED
    BY <1>1, <1>3 DEF Undisturbed

\* A traversal begins only when the client has none; the source of one in progress
\* does not change.
LEMMA SourceStays ==
  ASSUME TypeOK, NEW c \in Clients, RefreshStep(c), reader'[c] # None
  PROVE  \/ /\ reader[c] # None /\ reader'[c].source = reader[c].source
            /\ (reader'[c].undisturbed => reader[c].undisturbed)
         \/ /\ \E s \in Sources : Refresh(c, s)
            /\ reader[c] = None /\ reader'[c].at = "state" /\ reader'[c].cursor = {}
            /\ (reader'[c].undisturbed =>
                  \A d \in Clients : reader[d] # None => reader[d].source # reader'[c].source)
  <1>0. reader[c] # None => reader[c] \in Reader
    BY DEF TypeOK
  <1>1. ASSUME NEW s \in Sources, Refresh(c, s)
        PROVE  /\ reader[c] = None /\ reader'[c].at = "state" /\ reader'[c].cursor = {}
               /\ reader'[c].source = s
               /\ reader'[c].undisturbed = ({d \in Clients : reader[d] # None /\ reader[d].source = s} = {})
    BY <1>1 DEF Refresh
  <1>2. CASE SourceNotFound(c)
    BY <1>2 DEF SourceNotFound, End, TypeOK
  <1>3. CASE GetLookupState(c) \/ TakeTime(c) \/ SnapshotAccepted(c) \/ SaveSnapshot(c)
    BY <1>0, <1>3 DEF GetLookupState, TakeTime, SnapshotAccepted, SaveSnapshot, TypeOK, At, Reader
  <1>4. CASE QueryDelta(c)
    <2> DEFINE delta == Delta(reader[c].source, reader[c].since)
               rows == Fetched(delta, reader[c].cursor, Limit, TRUE)
               due == IF reader[c].cursor = {} THEN delta ELSE reader[c].due
               step == IF LastPage(rows) THEN "stamp" ELSE "contexts"
    <2>1. reader' = [reader EXCEPT ![c] =
                       [reader[c] EXCEPT !.fetched = rows, !.due = due, !.since = 0, !.at = step]]
      <3>. HIDE DEF rows, due, step
      <3>. QED
        BY <1>0, <1>4 DEF QueryDelta, rows, due, step, delta, At, TypeOK, Reader
    <2>. HIDE DEF rows, due, step
    <2>2. reader'[c] = [reader[c] EXCEPT !.fetched = rows, !.due = due, !.since = 0, !.at = step]
      BY <2>1 DEF TypeOK
    <2>3. reader[c] # None
      BY <1>4 DEF QueryDelta, At
    <2>4. reader'[c].source = reader[c].source /\ reader'[c].undisturbed = reader[c].undisturbed
      BY <1>0, <2>2, <2>3 DEF Reader
    <2>. QED
      BY <2>3, <2>4
  <1>5. CASE Respond(c)
    <2> DEFINE next == NextCursor(reader[c].fetched, Limit, TRUE)
               n == [reader[c] EXCEPT !.at = "state", !.fetched = {}, !.cursor = next]
    <2>1. reader[c] # None
      BY <1>5 DEF Respond, At
    <2>2. ~End(c)
      BY DEF End, TypeOK
    <2>3. reader' = [reader EXCEPT ![c] = n]
      BY <1>0, <1>5, <2>1, <2>2 DEF Respond, Reader
    <2>4. reader'[c] = n
      BY <2>3 DEF TypeOK
    <2>5. n.source = reader[c].source /\ n.undisturbed = reader[c].undisturbed
      BY <1>0, <2>1 DEF Reader
    <2>. QED
      BY <2>1, <2>4, <2>5
  <1>6. CASE SnapshotRegression(c) \/ RefreshFails(c)
    BY <1>0, <1>6 DEF SnapshotRegression, RefreshFails, Again, End, At, TypeOK, Reader
  <1>. QED
    BY <1>1, <1>2, <1>3, <1>4, <1>5, <1>6 DEF RefreshStep

LEMMA AloneKept ==
  ASSUME TypeOK, Alone, NEW c \in Clients, RefreshStep(c)
  PROVE  Alone'
  <1> SUFFICES ASSUME NEW d \in Clients, Undisturbed(d)', NEW e \in Clients \ {d}, reader'[e] # None
               PROVE  reader'[e].source # reader'[d].source
    BY DEF Alone, Undisturbed
  <1>1. CASE d = c
    <2>1. \/ reader'[e] = reader[e]
          \/ reader[e] # None /\ reader'[e] = [reader[e] EXCEPT !.undisturbed = FALSE]
      BY <1>1, OthersKept
    <2>2. reader[e] # None => reader[e] \in Reader
      BY DEF TypeOK
    <2>3. reader[e] # None /\ reader'[e].source = reader[e].source
      BY <2>1, <2>2 DEF Reader
    <2>. QED
      BY <1>1, <2>3, SourceStays DEF Alone, Undisturbed
  <1>2. CASE d # c /\ e = c
    <2>1. reader'[d] = reader[d] /\ Undisturbed(d) /\ reader[d] \in Reader
      BY <1>2, UndisturbedWas
    <2>2. CASE reader[c] # None /\ reader'[c].source = reader[c].source
      BY <1>2, <2>1, <2>2 DEF Alone
    <2>3. ASSUME NEW s \in Sources, Refresh(c, s), reader'[c].source = reader[d].source PROVE FALSE
      <3>1. reader'[c].source = s
        BY <2>3 DEF Refresh
      <3>2. reader'[d] = [reader[d] EXCEPT !.undisturbed = FALSE]
        BY <1>2, <2>1, <2>3, <3>1 DEF Refresh, Undisturbed
      <3>. QED
        BY <2>1, <3>2 DEF Undisturbed, Reader
    <2>. QED
      BY <1>2, <2>1, <2>2, <2>3, SourceStays
  <1>3. CASE d # c /\ e # c
    <2>1. reader'[d] = reader[d] /\ Undisturbed(d)
      BY <1>3, UndisturbedWas
    <2>2. \/ reader'[e] = reader[e]
          \/ reader[e] # None /\ reader'[e] = [reader[e] EXCEPT !.undisturbed = FALSE]
      BY <1>3, OthersKept
    <2>3. reader[e] # None => reader[e] \in Reader
      BY DEF TypeOK
    <2>4. reader[e] # None /\ reader'[e].source = reader[e].source
      BY <2>2, <2>3 DEF Reader
    <2>. QED
      BY <2>1, <2>4 DEF Alone
  <1>. QED
    BY <1>1, <1>2, <1>3

\* When the last page of a refresh is answered, whatever was due at its first page
\* has been delivered.
THEOREM RefreshDelivers == Spec => []RefreshIsComplete
  <1>1. Init => Alone /\ LoneRefresh
    BY DEF Init, Alone, LoneRefresh, Undisturbed
  <1>2. TypeOK /\ FetchedFinite /\ Alone /\ LoneRefresh /\ [Next]_vars /\ TypeOK'
        => Alone' /\ LoneRefresh'
    <2> SUFFICES ASSUME TypeOK, FetchedFinite, Alone, LoneRefresh, [Next]_vars, TypeOK'
                 PROVE  Alone' /\ LoneRefresh'
      OBVIOUS
    <2>0. /\ decisions \in [Triads -> Decision \union {None}]
          /\ decisions' \in [Triads -> Decision \union {None}]
          /\ Grown(decisions, decisions')
      BY DecisionsGrow DEF TypeOK
    <2>1. ASSUME NEW d \in Clients, Undisturbed(d), NEW more,
                 delivered[reader[d].source] \subseteq more
          PROVE  Lone(reader[d], decisions', snapshot[reader[d].source], more)
      <3>1. reader[d] \in Reader /\ IsFiniteSet(reader[d].fetched)
        BY <2>1 DEF Undisturbed, TypeOK, FetchedFinite
      <3>2. Lone(reader[d], decisions, snapshot[reader[d].source], delivered[reader[d].source])
        BY <2>1 DEF LoneRefresh
      <3>. QED
        BY <2>0, <2>1, <3>1, <3>2, LoneKept
    <2>2. CASE UNCHANGED <<reader, snapshot, delivered>>
      <3>1. Alone'
        BY <2>2 DEF Alone, Undisturbed
      <3>2. ASSUME NEW d \in Clients, Undisturbed(d)'
            PROVE  Lone(reader'[d], decisions', snapshot'[reader'[d].source], delivered'[reader'[d].source])
        <4>1. Undisturbed(d)
          BY <2>2, <3>2 DEF Undisturbed
        <4>2. Lone(reader[d], decisions', snapshot[reader[d].source], delivered[reader[d].source])
          BY <2>1, <4>1
        <4>. QED
          BY <2>2, <4>2
      <3>. QED
        BY <3>1, <3>2 DEF LoneRefresh
    <2>3. ASSUME NEW c \in Clients, RefreshStep(c)
          PROVE  Alone' /\ LoneRefresh'
      <3>1. Alone'
        BY <2>3, AloneKept
      <3>0. decisions' = decisions
        BY <2>3 DEF RefreshStep, Refresh, SourceNotFound, GetLookupState, QueryDelta, TakeTime,
           SnapshotAccepted, SnapshotRegression, SaveSnapshot, Respond, RefreshFails
      <3>2. ASSUME NEW d \in Clients, Undisturbed(d)'
            PROVE  Lone(reader'[d], decisions', snapshot'[reader'[d].source], delivered'[reader'[d].source])
        <4>1. CASE d # c
          <5>1. reader'[d] = reader[d] /\ Undisturbed(d) /\ reader[d] \in Reader
            BY <2>3, <3>2, <4>1, UndisturbedWas
          <5>2. reader[c] # None => reader[c].source # reader[d].source
            BY <4>1, <5>1 DEF Alone
          <5>3. reader[d].source \in Sources
            BY <5>1 DEF Reader
          <5>4. /\ snapshot'[reader[d].source] = snapshot[reader[d].source]
                /\ delivered'[reader[d].source] = delivered[reader[d].source]
            BY <2>3, <5>2, <5>3, OthersLeave
          <5>. QED
            BY <2>1, <5>1, <5>4
        <4>2. CASE d = c /\ Undisturbed(c)
          <5>1. Lone(reader[c], decisions, snapshot[reader[c].source], delivered[reader[c].source])
            BY <4>2 DEF LoneRefresh
          <5>. QED
            BY <2>3, <3>0, <3>2, <4>2, <5>1, OwnStep
        <4>3. CASE d = c /\ ~Undisturbed(c)
          <5>1. reader'[c].at = "state" /\ reader'[c].cursor = {}
            BY <2>3, <3>2, <4>3, SourceStays DEF Undisturbed
          <5>. QED
            BY <4>3, <5>1 DEF Lone, Started
        <4>. QED
          BY <4>1, <4>2, <4>3
      <3>. QED
        BY <3>1, <3>2 DEF LoneRefresh
    <2>. QED
      BY <2>2, <2>3 DEF Next, vars, Register, StoreFirst, StoreLater, Tick
  <1>3. LoneRefresh => RefreshIsComplete
    <2> SUFFICES ASSUME LoneRefresh, NEW c \in Clients, At(c, "contexts"), reader[c].undisturbed,
                        LastPage(reader[c].fetched), NEW row \in reader[c].due
                 PROVE  Covered(delivered[reader[c].source] \union PageOf(reader[c].fetched, Limit, TRUE),
                                row)
      BY DEF RefreshIsComplete, Covered
    <2>1. Accounted(reader[c], row, decisions, snapshot[reader[c].source], delivered[reader[c].source])
      BY DEF LoneRefresh, Undisturbed, At, Lone, Started
    <2>. QED
      BY <2>1 DEF Accounted, HasPage, At
  <1>. QED
    BY <1>1, <1>2, <1>3, RefreshTyped, PTL DEF Spec
================================================================================
