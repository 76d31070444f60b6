---------------------------- MODULE RequestRegistry ----------------------------
(***************************************************************************)
(* The Request Registry: a mention is parsed (MentionParser) and registered *)
(* once, by an insert-only write after a look-up, with the hash of its     *)
(* content; a repeated request is compared with the hash on record, and    *)
(* neither parsed nor compared in anything else.  The resolution           *)
(* coordinator runs the registration first and then sends the mention to   *)
(* the ERE unless a decision is there (ResolutionCoordinator details what  *)
(* follows).  The look-ups of a mention answer from the decision store     *)
(* and add the context from the registry.                                  *)
(*                                                                         *)
(* A content stands for itself and for its SHA-256 hash.                   *)
(***************************************************************************)
EXTENDS MentionParser

CONSTANTS
  Triads,         \* mention identifiers
  EntityTypeOf,   \* the entity type that is part of an identifier
  Contents, Contexts,
  Submitted,      \* mentions that clients submit
  Submitters,     \* resolution requests in progress, on any instance
  Readers,        \* look-ups in progress
  MaxSubmissions  \* bound

ASSUME RegistryAssumption ==
  /\ Contents \subseteq Content
  /\ None \notin Contexts
  /\ MaxSubmissions \in Nat

\* Of what the client sends only the content is hashed.
Mention == [content: Contents, type: ContentTypes, context: Contexts]

\* parsed_representation; a function of field names.
Representation == UNION {[fields -> Values \union {None}] : fields \in SUBSET FieldNames}
Record == [mention: Mention, parsed: Representation]

ASSUME MentionsAssumption == Submitted \subseteq Mention

\* What a client is told of a registration that is not carried on.
Refusals == {"conflict", "parsing_failed", "application_error", "unavailable"}

Submission == [triad: Triads, mention: Mention, parsed: Representation \union {None},
               at: {"find", "parse", "insert", "consult", "publish"} \union Refusals]

\* bulk: one mention of a bulk look-up, whose contexts are read first; early:
\* history, the mention was not on record then.
Lookup == [triad: Triads, bulk: BOOLEAN, early: BOOLEAN,
           at: {"prefetch", "decision", "context", "told", "not_found", "error"},
           context: Contexts \union {None}]

ASSUME NoneAssumption == None \notin Record \union Submission \union Lookup

VARIABLES
  records,     \* resolution_requests: records[t] is the record of t, or None
  submission,  \* submission[c]: the request of c in progress, or None
  published,   \* mentions sent to the ERE
  decided,     \* mentions with a decision
  lookup,      \* lookup[r]: the look-up of r in progress, or None
  submissions, \* requests so far
  lostInserts  \* history: mentions with an insert that met another's

vars == <<records, submission, published, decided, lookup, submissions, lostInserts>>

Init ==
  /\ records = [t \in Triads |-> None]
  /\ submission = [c \in Submitters |-> None]
  /\ published = {}
  /\ decided = {}
  /\ lookup = [r \in Readers |-> None]
  /\ submissions = 0
  /\ lostInserts = {}

Registered(t) == records[t] # None
Triad(c) == submission[c].triad
EntityType(c) == EntityTypeOf[Triad(c)]
RecordOf(c) == [mention |-> submission[c].mention, parsed |-> submission[c].parsed]

In(c, step) == submission[c] # None /\ submission[c].at = step
Advance(c, step) ==
  /\ submission' = [submission EXCEPT ![c].at = step, ![c].parsed = None]
  /\ UNCHANGED <<published, decided, lookup, submissions>>
End(c) ==
  /\ submission' = [submission EXCEPT ![c] = None]
  /\ UNCHANGED <<records, decided, lookup, submissions, lostInserts>>

-----------------------------------------------------------------------------
\* A request for a mention with content; one without is refused before anything
\* is read.
SubmitMention(c, t, x) ==
  /\ submission[c] = None
  /\ submissions < MaxSubmissions
  /\ submissions' = submissions + 1
  /\ submission' = [submission EXCEPT ![c] = [triad |-> t, mention |-> x,
                                              parsed |-> None, at |-> "find"]]
  /\ UNCHANGED <<records, published, decided, lookup, lostInserts>>

\* What register_resolution_request makes of the record it finds.
\* Mutant: the hashes are not compared.
LookedUpUnchecked(t, x) == IF Registered(t) THEN "consult" ELSE "parse"
LookedUp(t, x) ==
  CASE ~Registered(t) -> "parse"
    [] Registered(t) /\ records[t].mention.content = x.content -> "consult"
    [] Registered(t) /\ records[t].mention.content # x.content -> "conflict"

FindRecord(c) ==
  /\ In(c, "find")
  /\ Advance(c, LookedUp(Triad(c), submission[c].mention))
  /\ UNCHANGED <<records, lostInserts>>

\* Only a mention that is not on record is parsed.  An unsupported content type is
\* not among the errors that resolve_single reports as a failed parse.
ParseMention(c) ==
  LET x == submission[c].mention
  IN /\ In(c, "parse")
     /\ \E p \in Parsed(x.content, x.type, EntityType(c)) :
          submission' = [submission EXCEPT ![c].at = "insert", ![c].parsed = p]
     /\ UNCHANGED <<records, published, decided, lookup, submissions, lostInserts>>

ParseFails(c) ==
  LET x == submission[c].mention
      refusal == Refusal(x.content, x.type, EntityType(c))
  IN /\ In(c, "parse")
     /\ refusal # "none"
     /\ Advance(c, IF refusal = "unsupported_content_type" THEN "application_error"
                                                           ELSE "parsing_failed")
     /\ UNCHANGED <<records, lostInserts>>

\* insert_one.
InsertRecord(c) ==
  /\ In(c, "insert")
  /\ ~Registered(Triad(c))
  /\ records' = [records EXCEPT ![Triad(c)] = RecordOf(c)]
  /\ Advance(c, "consult")
  /\ UNCHANGED lostInserts

\* Mutant: the record is saved as any other document, by replace_one.
InsertReplacing(c) ==
  /\ In(c, "insert")
  /\ Registered(Triad(c))
  /\ records' = [records EXCEPT ![Triad(c)] = RecordOf(c)]
  /\ Advance(c, "consult")
  /\ lostInserts' = lostInserts \union {Triad(c)}
\* DuplicateTriadError, which resolve_single passes over: the request goes on with
\* the mention it brought.
InsertDuplicate(c) ==
  /\ In(c, "insert")
  /\ Registered(Triad(c))
  /\ Advance(c, "consult")
  /\ lostInserts' = lostInserts \union {Triad(c)}
  /\ UNCHANGED records

\* A database operation raises.  An insert may have been applied all the same.
RegistryFails(c) ==
  /\ In(c, "find") \/ In(c, "insert") \/ In(c, "consult")
  /\ \/ UNCHANGED records
     \/ /\ In(c, "insert") /\ ~Registered(Triad(c))
        /\ records' = [records EXCEPT ![Triad(c)] = RecordOf(c)]
  /\ Advance(c, "unavailable")
  /\ UNCHANGED lostInserts

\* resolve_single goes on: a decision that is there is the answer ...
Replay(c) ==
  /\ In(c, "consult")
  /\ Triad(c) \in decided
  /\ End(c)
  /\ UNCHANGED published

Consult(c) ==
  /\ In(c, "consult")
  /\ Triad(c) \notin decided
  /\ Advance(c, "publish")
  /\ UNCHANGED <<records, lostInserts>>

\* ... and otherwise the mention of the request is sent to the ERE.
Publish(c) ==
  /\ In(c, "publish")
  /\ published' = published \union {[triad |-> Triad(c), mention |-> submission[c].mention]}
  /\ End(c)

\* The request is refused, or dies with its instance.
Refuse(c) ==
  /\ submission[c] # None
  /\ End(c)
  /\ UNCHANGED published

-----------------------------------------------------------------------------
\* A decision for a registered mention: of the ERE, or a provisional one.
Decide(t) ==
  /\ Registered(t)
  /\ decided' = decided \union {t}
  /\ UNCHANGED <<records, submission, published, lookup, submissions, lostInserts>>

LookupStep(r, l) ==
  /\ lookup' = [lookup EXCEPT ![r] = l]
  /\ UNCHANGED <<records, submission, published, decided, submissions, lostInserts>>

Looking(r, step) == lookup[r] # None /\ lookup[r].at = step

\* handle_lookup reads the decision first and then the context of the mention;
\* handle_bulk_lookup the contexts of all its mentions and then their decisions,
\* one by one.
AskLookup(r, t, bulk) ==
  /\ lookup[r] = None
  /\ LookupStep(r, [triad |-> t, bulk |-> bulk, early |-> FALSE, context |-> None,
                    at |-> IF bulk THEN "prefetch" ELSE "decision"])

\* find_contexts_by_triads has no entry for a mention that is not on record.
\* Mutant: the record in place of its context.
ContextOfRecord(t) == records[t]
ContextOf(t) == IF Registered(t) THEN records[t].mention.context ELSE None

PrefetchContexts(r) ==
  /\ Looking(r, "prefetch")
  /\ LookupStep(r, [lookup[r] EXCEPT !.at = "decision", !.context = ContextOf(lookup[r].triad),
                                     !.early = ~Registered(lookup[r].triad)])

LookupDecision(r) ==
  /\ Looking(r, "decision")
  /\ LookupStep(r, [lookup[r] EXCEPT !.at =
       IF lookup[r].triad \notin decided THEN "not_found"
       ELSE IF lookup[r].bulk THEN "told" ELSE "context"])

LookupContext(r) ==
  /\ Looking(r, "context")
  /\ LookupStep(r, [lookup[r] EXCEPT !.at = "told", !.context = ContextOf(lookup[r].triad)])

\* The failing read of a decision is an error of that mention in a bulk look-up,
\* and of the request otherwise.
LookupFails(r) ==
  /\ Looking(r, "prefetch") \/ Looking(r, "decision") \/ Looking(r, "context")
  /\ LookupStep(r, [lookup[r] EXCEPT !.at = "error"])

LookupEnds(r) ==
  /\ Looking(r, "told") \/ Looking(r, "not_found") \/ Looking(r, "error")
  /\ LookupStep(r, None)

-----------------------------------------------------------------------------
Next ==
  \/ \E c \in Submitters, t \in Triads, x \in Submitted : SubmitMention(c, t, x)
  \/ \E c \in Submitters :
       \/ FindRecord(c) \/ ParseMention(c) \/ ParseFails(c) \/ InsertRecord(c)
       \/ InsertDuplicate(c) \/ RegistryFails(c) \/ Replay(c) \/ Consult(c) \/ Publish(c) \/ Refuse(c)
  \/ \E t \in Triads : Decide(t)
  \/ \E r \in Readers, t \in Triads, bulk \in BOOLEAN : AskLookup(r, t, bulk)
  \/ \E r \in Readers :
       \/ PrefetchContexts(r) \/ LookupDecision(r) \/ LookupContext(r)
       \/ LookupFails(r) \/ LookupEnds(r)

Spec == Init /\ [][Next]_vars

-----------------------------------------------------------------------------
TypeOK ==
  /\ records \in [Triads -> Record \union {None}]
  /\ submission \in [Submitters -> Submission \union {None}]
  /\ published \subseteq [triad: Triads, mention: Mention]
  /\ decided \subseteq Triads
  /\ lookup \in [Readers -> Lookup \union {None}]
  /\ submissions \in Nat
  /\ lostInserts \subseteq Triads

\* The content passes the parser as some content type.
CanBeParsed(d, e) ==
  e \in DOMAIN Config /\ \E type \in ContentTypes : Extractions(d, type, e) # {}

\* The representation on record is one of the mention on record.
RecordIsExtract(t) ==
  LET x == records[t].mention
  IN /\ EntityTypeOf[t] \in DOMAIN Config
     /\ records[t].parsed \in Extractions(x.content, x.type, EntityTypeOf[t])

\* The first mention registered under an identifier stays as it is, whoever else
\* submits one under it at the same time, and a decided mention stays on record.
RecordIsImmutable ==
  [][\A t \in Triads : Registered(t) => records'[t] = records[t]]_vars

\* What the ERE is sent for a mention has the content on record, from which the
\* representation on record was extracted, and which passes the parser; unless two
\* first registrations of the mention overlapped: the one that comes second is sent
\* with the content it brought, which passes the parser too.  (The content type is not
\* compared: a repeated request may bring another, as which the content is no RDF.)
PublishedAsRegistered ==
  \A p \in published :
    /\ Registered(p.triad)
    /\ RecordIsExtract(p.triad)
    /\ CanBeParsed(p.mention.content, EntityTypeOf[p.triad])
    /\ p.triad \notin lostInserts => p.mention.content = records[p.triad].mention.content

\* A look-up that is answered carries the context that the mention was registered
\* with, not one of a later request for the same content; in a bulk look-up it has
\* none if the mention was registered and decided after the contexts had been read.
LookupTellsRecord ==
  \A r \in Readers : Looking(r, "told") =>
    /\ Registered(lookup[r].triad)
    /\ lookup[r].early => lookup[r].bulk /\ lookup[r].context = None
    /\ ~lookup[r].early => lookup[r].context = records[lookup[r].triad].mention.context

\* Why: a request past the comparison brings the content on record, a decided
\* mention is on record, and one about to be inserted can be parsed.
RequestsMatchRecords ==
  /\ \A c \in Submitters :
       /\ In(c, "insert") =>
            /\ EntityType(c) \in DOMAIN Config
            /\ submission[c].parsed \in Extractions(submission[c].mention.content,
                                                   submission[c].mention.type, EntityType(c))
       /\ In(c, "consult") \/ In(c, "publish") =>
            /\ Registered(Triad(c))
            /\ CanBeParsed(submission[c].mention.content, EntityType(c))
            /\ Triad(c) \notin lostInserts =>
                 submission[c].mention.content = records[Triad(c)].mention.content
  /\ \A t \in Triads : Registered(t) => RecordIsExtract(t)
  /\ decided \subseteq {t \in Triads : Registered(t)}
  /\ \A r \in Readers : Looking(r, "context") => lookup[r].triad \in decided
  /\ \A r \in Readers : lookup[r] # None =>
       /\ lookup[r].at = "prefetch" => lookup[r].bulk
       /\ lookup[r].at = "context" => ~lookup[r].bulk
       /\ lookup[r].early => lookup[r].bulk /\ lookup[r].context = None
       /\ lookup[r].bulk /\ ~lookup[r].early /\ lookup[r].at \in {"decision", "told"} =>
            /\ Registered(lookup[r].triad)
            /\ lookup[r].context = records[lookup[r].triad].mention.context
=============================================================================
