----------------------------- MODULE SourceRefresh -----------------------------
(***************************************************************************)
(* The bulk refresh: a source system asks, page by page, for its decisions *)
(* whose placement has changed since the snapshot kept for it; the last    *)
(* page moves the snapshot to the current time.  Every page reads the      *)
(* snapshot anew.  (BulkRefreshCoordinatorService, RefreshBulkService,     *)
(* find_delta_for_source, advance_snapshot.)                               *)
(*                                                                         *)
(* A page is several awaited reads and writes; mentions are registered and *)
(* decisions stored in between, and two clients of one source may refresh  *)
(* at once.                                                                *)
(***************************************************************************)
EXTENDS KeysetPages

CONSTANTS
  Triads,      \* mentions, numbered in the order of their decision ids
  Sources, SourceOf,
  Clients,     \* clients that refresh
  Times,       \* timestamps of outcomes and of the clock
  Limit,       \* rows of a page
  MaxFaults,   \* bound: refreshes that fail or whose response is lost
  None

ASSUME RefreshAssumption ==
  /\ Triads \subseteq Nat /\ IsFiniteSet(Triads) /\ SourceOf \in [Triads -> Sources]
  /\ Times \subseteq Nat \ {0} /\ 1 \in Times
  /\ Limit \in Nat \ {0} /\ MaxFaults \in Nat

\* updated 0: the decision has no updated_at.
Decision == [created: Times, updated: Times \union {0}]

ASSUME NoneAssumption == None \notin Decision

\* since: updated_since of this page, 0 when None; time: the snapshot to be
\* written; against: the one it was compared with.  due and undisturbed are
\* history: the delta when the first page was read; no other refresh of the source
\* overlapped this one and the response to its last page was not lost.
Reader == [source: Sources,
           at: {"state", "delta", "stamp", "compare", "save", "contexts"},
           since: Times \union {0}, cursor: SUBSET Row, fetched: SUBSET Row,
           time: Times \union {0}, against: Times \union {0}, due: SUBSET Row, undisturbed: BOOLEAN]

VARIABLES
  registered, \* mentions in the request registry (RequestRegistry)
  decisions,  \* decisions[t], or None
  snapshot,   \* lookup_states: last_snapshot of a source, 0 when there is none
  reader,     \* reader[c]: the traversal of c in progress, or None
  now,        \* the clock
  delivered,  \* history: rows that clients of a source have received
  faults

vars == <<registered, decisions, snapshot, reader, now, delivered, faults>>

Init ==
  /\ registered = {}
  /\ decisions = [t \in Triads |-> None]
  /\ snapshot = [s \in Sources |-> 0]
  /\ reader = [c \in Clients |-> None]
  /\ now = 1
  /\ delivered = [s \in Sources |-> {}]
  /\ faults = 0

-----------------------------------------------------------------------------
\* source_has_requests.
HasRequests(s) == \E t \in registered : SourceOf[t] = s

\* find_delta_for_source: decisions of the source with an updated_at, later than
\* the snapshot if there is one.
Changed(t, s, since) ==
  /\ SourceOf[t] = s
  /\ decisions[t] # None
  /\ decisions[t].updated # 0
  /\ since # 0 => decisions[t].updated > since

Delta(s, since) ==
  {[id |-> t, value |-> decisions[t].updated] : t \in {u \in Triads : Changed(u, s, since)}}

\* The last page has no next cursor.
LastPage(rows) == NextCursor(rows, Limit, TRUE) = {}

At(c, step) == reader[c] # None /\ reader[c].at = step
Goto(c, step) ==
  /\ reader' = [reader EXCEPT ![c].at = step]
  /\ UNCHANGED <<registered, decisions, snapshot, now, delivered, faults>>
End(c) == reader' = [reader EXCEPT ![c] = None]

\* A client asks for the first page.
Refresh(c, s) ==
  LET others == {d \in Clients : reader[d] # None /\ reader[d].source = s}
      begun == [source |-> s, at |-> "state", since |-> 0, cursor |-> {}, fetched |-> {},
                time |-> 0, against |-> 0, due |-> {}, undisturbed |-> others = {}]
  IN /\ reader[c] = None
     /\ reader' = [d \in Clients |->
          IF d = c THEN begun
          ELSE IF d \in others THEN [reader[d] EXCEPT !.undisturbed = FALSE] ELSE reader[d]]
     /\ UNCHANGED <<registered, decisions, snapshot, now, delivered, faults>>

SourceNotFound(c) ==
  /\ At(c, "state")
  /\ ~HasRequests(reader[c].source)
  /\ End(c)
  /\ UNCHANGED <<registered, decisions, snapshot, now, delivered, faults>>

\* source_has_requests and get_lookup_state; a source that is known stays known,
\* so the two reads are one step.
GetLookupState(c) ==
  /\ At(c, "state")
  /\ HasRequests(reader[c].source)
  /\ reader' = [reader EXCEPT ![c].since = snapshot[reader[c].source], ![c].at = "delta"]
  /\ UNCHANGED <<registered, decisions, snapshot, now, delivered, faults>>

QueryDelta(c) ==
  LET r == reader[c]
      delta == Delta(r.source, r.since)
      rows == Fetched(delta, r.cursor, Limit, TRUE)
  IN /\ At(c, "delta")
     /\ reader' = [reader EXCEPT ![c].fetched = rows,
          ![c].due = IF r.cursor = {} THEN delta ELSE r.due, ![c].since = 0,
          ![c].at = IF LastPage(rows) THEN "stamp" ELSE "contexts"]
     /\ UNCHANGED <<registered, decisions, snapshot, now, delivered, faults>>

\* datetime.now, after the page has been read.  Mutant: the time is rounded up.
TakeTimeRounded(c) ==
  /\ At(c, "stamp")
  /\ reader' = [reader EXCEPT ![c].time = now + 1, ![c].at = "compare"]
  /\ UNCHANGED <<registered, decisions, snapshot, now, delivered, faults>>
TakeTime(c) ==
  /\ At(c, "stamp")
  /\ reader' = [reader EXCEPT ![c].time = now, ![c].at = "compare"]
  /\ UNCHANGED <<registered, decisions, snapshot, now, delivered, faults>>

\* advance_snapshot reads the snapshot again.  Mutant: an older one is accepted.
SnapshotUnchecked(c) ==
  /\ At(c, "compare")
  /\ reader' = [reader EXCEPT ![c].against = snapshot[reader[c].source], ![c].at = "save"]
  /\ UNCHANGED <<registered, decisions, snapshot, now, delivered, faults>>
SnapshotAccepted(c) ==
  /\ At(c, "compare")
  /\ reader[c].time > snapshot[reader[c].source]
  /\ reader' = [reader EXCEPT ![c].against = snapshot[reader[c].source], ![c].at = "save"]
  /\ UNCHANGED <<registered, decisions, snapshot, now, delivered, faults>>

\* The client asks for the same page again.
Again(c, heard) ==
  reader' = [reader EXCEPT ![c].at = "state", ![c].fetched = {}, ![c].time = 0, ![c].against = 0,
                           ![c].undisturbed = @ /\ heard]

\* SnapshotRegressionError: the client gets an error in place of the last page.
SnapshotRegression(c) ==
  /\ At(c, "compare")
  /\ reader[c].time <= snapshot[reader[c].source]
  /\ Again(c, TRUE)
  /\ UNCHANGED <<registered, decisions, snapshot, now, delivered, faults>>

SaveSnapshot(c) ==
  /\ At(c, "save")
  /\ snapshot' = [snapshot EXCEPT ![reader[c].source] = reader[c].time]
  /\ reader' = [reader EXCEPT ![c].at = "contexts", ![c].time = 0, ![c].against = 0]
  /\ UNCHANGED <<registered, decisions, now, delivered, faults>>

\* get_contexts_for_triads of the page, and the response.
\* Mutant: the next page is asked for with the row that was fetched in addition.
RespondBeyond(c) ==
  LET r == reader[c]
      page == PageOf(r.fetched, Limit, TRUE)
  IN /\ At(c, "contexts")
     /\ delivered' = [delivered EXCEPT ![r.source] = @ \union page]
     /\ IF LastPage(r.fetched) THEN End(c)
        ELSE reader' = [reader EXCEPT ![c].at = "state", ![c].fetched = {},
                          ![c].cursor = CursorSkipping(r.fetched, Limit, TRUE)]
     /\ UNCHANGED <<registered, decisions, snapshot, now, faults>>
Respond(c) ==
  LET r == reader[c]
      page == PageOf(r.fetched, Limit, TRUE)
  IN /\ At(c, "contexts")
     /\ delivered' = [delivered EXCEPT ![r.source] = @ \union page]
     /\ IF LastPage(r.fetched) THEN End(c)
        ELSE reader' = [reader EXCEPT ![c].at = "state", ![c].fetched = {},
                          ![c].cursor = NextCursor(r.fetched, Limit, TRUE)]
     /\ UNCHANGED <<registered, decisions, snapshot, now, faults>>

\* A read or write fails, the instance dies, or the response is lost.  When the
\* snapshot has moved by then, asking again finds the delta without the page.
RefreshFails(c) ==
  /\ reader[c] # None
  /\ reader[c].at # "state"
  /\ faults < MaxFaults
  /\ faults' = faults + 1
  /\ \/ Again(c, ~(At(c, "contexts") /\ LastPage(reader[c].fetched)))
     \/ End(c)
  /\ UNCHANGED <<registered, decisions, snapshot, now, delivered>>

-----------------------------------------------------------------------------
Register(t) ==
  /\ t \notin registered
  /\ registered' = registered \union {t}
  /\ UNCHANGED <<decisions, snapshot, reader, now, delivered, faults>>

\* The decision store: the first outcome of a registered mention leaves no
\* updated_at, a later one carries the timestamp of the outcome, which is not the
\* time of the write.
StoreFirst(t, u) ==
  /\ t \in registered
  /\ decisions[t] = None
  /\ decisions' = [decisions EXCEPT ![t] = [created |-> u, updated |-> 0]]
  /\ UNCHANGED <<registered, snapshot, reader, now, delivered, faults>>

StoreLater(t, u) ==
  /\ decisions[t] # None
  /\ IF decisions[t].updated = 0 THEN decisions[t].created < u ELSE decisions[t].updated < u
  /\ decisions' = [decisions EXCEPT ![t].updated = u]
  /\ UNCHANGED <<registered, snapshot, reader, now, delivered, faults>>

Tick ==
  /\ now + 1 \in Times
  /\ now' = now + 1
  /\ UNCHANGED <<registered, decisions, snapshot, reader, delivered, faults>>

-----------------------------------------------------------------------------
RefreshStep(c) ==
  \/ \E s \in Sources : Refresh(c, s)
  \/ SourceNotFound(c) \/ GetLookupState(c) \/ QueryDelta(c)
  \/ TakeTime(c) \/ SnapshotAccepted(c) \/ SnapshotRegression(c) \/ SaveSnapshot(c)
  \/ Respond(c) \/ RefreshFails(c)

Next ==
  \/ \E t \in Triads : Register(t)
  \/ \E t \in Triads, u \in Times : StoreFirst(t, u) \/ StoreLater(t, u)
  \/ Tick
  \/ \E c \in Clients : RefreshStep(c)

Spec == Init /\ [][Next]_vars

-----------------------------------------------------------------------------
TypeOK ==
  /\ registered \subseteq Triads
  /\ decisions \in [Triads -> Decision \union {None}]
  /\ snapshot \in [Sources -> Times \union {0}]
  /\ reader \in [Clients -> Reader \union {None}]
  /\ now \in Times
  /\ delivered \in [Sources -> SUBSET Row]
  /\ faults \in Nat

\* The snapshot of a source moves forwards only, unless another refresh has
\* written it between the comparison and the write of this one.
SnapshotAdvances ==
  [][\A c \in Clients, s \in Sources :
       /\ At(c, "save") /\ reader[c].source = s /\ reader'[c] # reader[c]
       /\ reader[c].against = snapshot[s] /\ snapshot'[s] # snapshot[s]
       => snapshot'[s] > snapshot[s]]_vars

\* When the last page of a refresh is answered, every decision that was in the
\* delta at the first page has been delivered in the version it had then or in a
\* later one, however decisions are replaced between the pages and pages are
\* asked for again; unless another refresh of the source overlapped, or the
\* response to a last page was lost after the snapshot had moved.
RefreshIsComplete ==
  \A c \in Clients :
    At(c, "contexts") /\ reader[c].undisturbed /\ LastPage(reader[c].fetched) =>
      \A row \in reader[c].due :
        \E d \in delivered[reader[c].source] \union PageOf(reader[c].fetched, Limit, TRUE) :
          d.id = row.id /\ d.value >= row.value

\* The service says that it retrieves all decisions that have changed since the
\* last snapshot: a change not later than the snapshot has been delivered.
ChangesAreDelivered ==
  (\A c \in Clients : reader[c] = None) =>
    \A t \in Triads :
      decisions[t] # None /\ decisions[t].updated \in 1..snapshot[SourceOf[t]] =>
        [id |-> t, value |-> decisions[t].updated] \in delivered[SourceOf[t]]
=============================================================================
