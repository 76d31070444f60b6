----------------------------- MODULE MentionParser -----------------------------
(***************************************************************************)
(* The RDF mention parser: a content is read as an RDF graph, must hold    *)
(* exactly one entity of the type that the mention names, and yields the   *)
(* configured fields of that entity.  The parse is a query whose rows are  *)
(* merged; what it amounts to is stated below it, without rows.            *)
(*                                                                         *)
(* A content is known by what the parser asks of it: its size, the content *)
(* types it can be read as, the classes of its entities and the values     *)
(* that they have at the end of each field's property path.                *)
(***************************************************************************)
EXTENDS Integers, FiniteSets

CONSTANTS
  Entities,      \* nodes of RDF graphs
  Classes,       \* RDF classes
  FieldNames, Values,
  ContentTypes,  \* MIME types of mentions
  Supported,     \* those that the parser reads
  Config,        \* entity type |-> [rdf_type, fields], of the mapping file
  MaxBytes,      \* ERS_PARSER_MAX_CONTENT_LENGTH
  None

\* What RDFMappingConfig validates: a type or a path has declared prefixes.
WellFormed(config) ==
  /\ DOMAIN config # {}
  /\ \A e \in DOMAIN config : /\ config[e].rdf_type \in Classes
                              /\ config[e].fields \subseteq FieldNames
                              /\ config[e].fields # {}

ASSUME ParserAssumption ==
  /\ Supported \subseteq ContentTypes
  /\ WellFormed(Config)
  /\ MaxBytes \in Nat
  /\ None \notin Values
  /\ IsFiniteSet(Entities) /\ IsFiniteSet(FieldNames) /\ IsFiniteSet(Values)

Content == [bytes: Nat, readable: SUBSET Supported,
            classes: [Entities -> SUBSET Classes],
            values: [Entities -> [FieldNames -> SUBSET Values]]]

FieldsOf(e) == Config[e].fields

-----------------------------------------------------------------------------
\* has_entity_of_type.
Subjects(d, e) == {n \in Entities : Config[e].rdf_type \in d.classes[n]}

\* execute_sparql of build_sparql_query: an OPTIONAL clause per field, so a row for
\* every combination of values, with None for a field that has no value.
Bindings(vs) == IF vs = {} THEN {None} ELSE vs
Rows(d, e) ==
  {row \in [entity: Subjects(d, e), fields: [FieldsOf(e) -> Values \union {None}]] :
     \A f \in FieldsOf(e) : row.fields[f] \in Bindings(d.values[row.entity][f])}

\* The rows come in no particular order.
Orders(rows) ==
  {s \in [1..Cardinality(rows) -> rows] : \A r \in rows : \E n \in DOMAIN s : s[n] = r}

\* _merge_rows: the first value of each field.
Given(s, f) == {n \in DOMAIN s : s[n].fields[f] # None}
Merged(s, e) ==
  [f \in FieldsOf(e) |->
     IF Given(s, f) = {} THEN None
     ELSE s[CHOOSE n \in Given(s, f) : \A m \in Given(s, f) : n <= m].fields[f]]

Nothing(e) == [f \in FieldsOf(e) |-> None]

\* The representations that parse may return for a graph.
Merges(d, e) == {Merged(s, e) : s \in Orders(Rows(d, e))}

\* _validate_single_entity.  Mutant: any number of entities will do.
SingleEntityUnchecked(rows) == TRUE
SingleEntity(rows) == Cardinality({r.entity : r \in rows}) <= 1

\* The error that parse raises, or "none".
Refusal(d, type, e) ==
  IF d.bytes > MaxBytes THEN "content_too_large"
  ELSE IF e \notin DOMAIN Config THEN "unsupported_entity_type"
  ELSE IF type \notin Supported THEN "unsupported_content_type"
  ELSE IF type \notin d.readable THEN "malformed_rdf"
  ELSE IF Subjects(d, e) = {} THEN "entity_type_mismatch"
  ELSE IF ~SingleEntity(Rows(d, e)) THEN "multiple_entities"
  ELSE IF Nothing(e) \in Merges(d, e) THEN "empty_extraction"
  ELSE "none"

Parsed(d, type, e) == IF Refusal(d, type, e) = "none" THEN Merges(d, e) ELSE {}

-----------------------------------------------------------------------------
\* What a mention with this content says, without rows: its one entity has a value
\* of some field, and a field has one of the values of that entity, or None if there
\* are none.  Values of different fields are chosen independently of each other,
\* also when their paths go through one node of several.
Extractions(d, type, e) ==
  {x \in [FieldsOf(e) -> Values \union {None}] :
     /\ d.bytes <= MaxBytes /\ type \in d.readable
     /\ \E n \in Entities : /\ Subjects(d, e) = {n}
                            /\ \A f \in FieldsOf(e) : x[f] \in Bindings(d.values[n][f])
     /\ \E f \in FieldsOf(e) : x[f] # None}
=============================================================================
