------------------------- MODULE RequestRegistryProofs -------------------------
(***************************************************************************)
(* Theorems about MentionParser and RequestRegistry, for every mapping     *)
(* configuration, every finite graph and every set of requests.            *)
(***************************************************************************)
EXTENDS RequestRegistry, FiniteSetTheorems, WellFoundedInduction, TLAPS

-----------------------------------------------------------------------------
\* The parser.
LEMMA LeastPosition ==
  ASSUME NEW T \in SUBSET Nat, T # {}
  PROVE  \E x \in T : \A y \in T : x <= y
  <1>1. PICK R : R = OpToRel(<, Nat)
    OBVIOUS
  <1>2. IsWellFoundedOn(R, Nat)
    BY <1>1, NatLessThanWellFounded
  <1>3. R = {ss \in Nat \X Nat : ss[1] < ss[2]}
    BY <1>1 DEF OpToRel
  <1>4. PICK x \in T : \A y \in T : ~(<<y, x>> \in R)
    BY <1>2, WFMin
  <1>5. ASSUME NEW y \in T, y < x PROVE FALSE
    <2>1. <<y, x>> \in Nat \X Nat /\ <<y, x>>[1] < <<y, x>>[2]
      BY <1>5
    <2>2. <<y, x>> \in R
      BY <1>3, <2>1, Zenon
    <2>. QED
      BY <1>4, <2>2
  <1>6. \A y \in T : ~(y < x)
    BY <1>5
  <1>. QED
    BY <1>6

\* Two elements make a cardinality of two.
LEMMA AtMostOne ==
  ASSUME NEW S, IsFiniteSet(S), Cardinality(S) <= 1, NEW a \in S, NEW b \in S
  PROVE  a = b
  <1>1. IsFiniteSet(S \ {a}) /\ Cardinality(S \ {a}) = Cardinality(S) - 1
    BY FS_RemoveElement
  <1>2. Cardinality(S) \in Nat /\ Cardinality(S \ {a}) \in Nat
    BY <1>1, FS_CardinalityType
  <1>3. Cardinality(S \ {a}) = 0
    BY <1>1, <1>2
  <1>4. S \ {a} = {}
    BY <1>1, <1>3, FS_EmptySet
  <1>. QED
    BY <1>4

LEMMA FieldsKnown ==
  ASSUME NEW e \in DOMAIN Config
  PROVE  FieldsOf(e) \subseteq FieldNames /\ FieldsOf(e) # {}
  BY ParserAssumption DEF WellFormed, FieldsOf

\* A row is known by the triples that it holds, of which there are finitely many.
LEMMA RowsFinite ==
  ASSUME NEW d, NEW e \in DOMAIN Config
  PROVE  IsFiniteSet(Rows(d, e))
  <1> DEFINE V == Values \union {None}
             P == Entities \X (FieldNames \X V)
             Triples(r) == {p \in P : p[1] = r.entity /\ p[2][1] \in FieldsOf(e) /\ p[2][2] = r.fields[p[2][1]]}
             g == [r \in Rows(d, e) |-> Triples(r)]
  <1>1. IsFiniteSet(SUBSET P)
    <2>1. IsFiniteSet(V)
      BY ParserAssumption, FS_AddElement
    <2>2. IsFiniteSet(P)
      BY <2>1, ParserAssumption, FS_Product
    <2>. QED
      BY <2>2, FS_SUBSET
  <1>2. \A r \in Rows(d, e) : r = [entity |-> r.entity, fields |-> r.fields]
          /\ r.entity \in Entities /\ r.fields \in [FieldsOf(e) -> V]
    BY DEF Rows, Subjects
  <1>3. ASSUME NEW r \in Rows(d, e), NEW q \in Rows(d, e), Triples(r) = Triples(q) PROVE r = q
    <2>1. ASSUME NEW f \in FieldsOf(e) PROVE r.entity = q.entity /\ r.fields[f] = q.fields[f]
      <3>1. <<r.entity, <<f, r.fields[f]>>>> \in P
        BY <1>2, FieldsKnown
      <3>2. <<r.entity, <<f, r.fields[f]>>>> \in Triples(r)
        BY <3>1
      <3>3. <<r.entity, <<f, r.fields[f]>>>> \in Triples(q)
        BY <1>3, <3>2
      <3>. QED
        BY <3>3
    <2>2. r.entity = q.entity
      BY <2>1, FieldsKnown
    <2>3. r.fields = q.fields
      BY <1>2, <2>1
    <2>. QED
      BY <1>2, <2>2, <2>3
  <1>. HIDE DEF P, Triples
  <1>4. g \in [Rows(d, e) -> SUBSET P]
    BY DEF Triples
  <1>5. g \in Injection(Rows(d, e), SUBSET P)
    BY <1>3, <1>4 DEF Injection, IsInjective
  <1>. HIDE DEF g
  <1>. QED
    BY <1>1, <1>5, FS_Injection

\* Every entity of the type has a row.
LEMMA SubjectHasRow ==
  ASSUME NEW d \in Content, NEW e \in DOMAIN Config, NEW n \in Subjects(d, e)
  PROVE  \E r \in Rows(d, e) : r.entity = n
  <1> DEFINE h == [f \in FieldsOf(e) |-> CHOOSE v \in Bindings(d.values[n][f]) : TRUE]
  <1>1. n \in Entities /\ d.values \in [Entities -> [FieldNames -> SUBSET Values]]
    BY DEF Subjects, Content
  <1>2. ASSUME NEW f \in FieldsOf(e)
        PROVE  Bindings(d.values[n][f]) # {} /\ Bindings(d.values[n][f]) \subseteq Values \union {None}
    <2>1. d.values[n][f] \subseteq Values
      BY <1>1, FieldsKnown
    <2>. QED
      BY <2>1 DEF Bindings
  <1>3. h \in [FieldsOf(e) -> Values \union {None}] /\ \A f \in FieldsOf(e) : h[f] \in Bindings(d.values[n][f])
    BY <1>2
  <1>. HIDE DEF h
  <1>4. [entity |-> n, fields |-> h] \in Rows(d, e)
    BY <1>3 DEF Rows
  <1>. QED
    BY <1>4

\* Whatever the order of the rows, the parser yields what the mention says.
THEOREM ParserSound ==
  ASSUME NEW d \in Content, NEW type, NEW e
  PROVE  Parsed(d, type, e) \subseteq Extractions(d, type, e)
  <1> SUFFICES ASSUME NEW x \in Parsed(d, type, e) PROVE x \in Extractions(d, type, e)
    OBVIOUS
  <1>1. /\ ~(d.bytes > MaxBytes) /\ e \in DOMAIN Config /\ type \in d.readable
        /\ Subjects(d, e) # {} /\ SingleEntity(Rows(d, e)) /\ Nothing(e) \notin Merges(d, e)
        /\ x \in Merges(d, e)
    BY DEF Parsed, Refusal
  <1>2. PICK s \in Orders(Rows(d, e)) : x = Merged(s, e)
    BY <1>1 DEF Merges
  <1>3. PICK n \in Subjects(d, e) : TRUE
    BY <1>1
  <1> DEFINE rows == Rows(d, e)
             seen == {r.entity : r \in rows}
  <1>4. IsFiniteSet(rows)
    BY <1>1, RowsFinite
  <1>5. Subjects(d, e) = {n} /\ \A r \in rows : r.entity = n
    <2>1. IsFiniteSet(seen) /\ Cardinality(seen) <= 1
      <3>1. seen \subseteq Entities
        BY DEF Rows, Subjects
      <3>2. IsFiniteSet(seen)
        BY <3>1, ParserAssumption, FS_Subset
      <3>. QED
        BY <1>1, <3>2 DEF SingleEntity
    <2>2. Subjects(d, e) \subseteq seen
      BY <1>1, SubjectHasRow
    <2>3. \A m \in seen : m = n
      BY <2>1, <2>2, AtMostOne
    <2>. QED
      BY <2>2, <2>3
  <1>6. /\ Cardinality(rows) \in Nat /\ s \in [1..Cardinality(rows) -> rows]
        /\ \A r \in rows : \E p \in DOMAIN s : s[p] = r
    BY <1>2, <1>4, FS_CardinalityType DEF Orders
  <1>7. PICK r0 \in rows : TRUE
    BY <1>1, <1>3, SubjectHasRow
  <1>8. PICK p0 \in DOMAIN s : s[p0] = r0
    BY <1>6
  <1>9. \A r \in rows : /\ r.fields \in [FieldsOf(e) -> Values \union {None}]
                        /\ \A f \in FieldsOf(e) : r.fields[f] \in Bindings(d.values[n][f])
    BY <1>5 DEF Rows
  <1>10. ASSUME NEW f \in FieldsOf(e)
         PROVE  \E r \in rows : x[f] = r.fields[f]
    <2>1. CASE Given(s, f) = {}
      <3>1. x[f] = None
        BY <1>2, <2>1 DEF Merged
      <3>2. s[p0].fields[f] = None
        BY <2>1 DEF Given
      <3>. QED
        BY <1>8, <3>1, <3>2
    <2>2. CASE Given(s, f) # {}
      <3>1. Given(s, f) \in SUBSET Nat
        BY <1>6 DEF Given
      <3>2. PICK p \in Given(s, f) : p = CHOOSE q \in Given(s, f) : \A m \in Given(s, f) : q <= m
        BY <2>2, <3>1, LeastPosition
      <3>3. x[f] = s[p].fields[f]
        BY <1>2, <2>2, <3>2 DEF Merged
      <3>4. s[p] \in rows
        BY <1>6 DEF Given
      <3>. QED
        BY <3>3, <3>4
    <2>. QED
      BY <2>1, <2>2
  <1>11. x \in [FieldsOf(e) -> Values \union {None}] /\ \A f \in FieldsOf(e) : x[f] \in Bindings(d.values[n][f])
    <2>1. x = [f \in FieldsOf(e) |-> x[f]]
      BY <1>2 DEF Merged
    <2>. QED
      BY <1>9, <1>10, <2>1
  <1>12. \E f \in FieldsOf(e) : x[f] # None
    <2>1. x # Nothing(e)
      BY <1>1
    <2>. QED
      BY <1>11, <2>1 DEF Nothing
  <1>13. d.bytes <= MaxBytes /\ n \in Entities
    <2>1. d.bytes \in Nat /\ MaxBytes \in Nat
      BY ParserAssumption DEF Content
    <2>. QED
      BY <1>1, <2>1 DEF Subjects
  <1>. QED
    BY <1>1, <1>5, <1>11, <1>12, <1>13 DEF Extractions

\* Finitely many things can be listed with any one of them first.
LEMMA ListedFrom ==
  ASSUME NEW S, IsFiniteSet(S), NEW a \in S
  PROVE  /\ Cardinality(S) \in Nat /\ 1 \in 1..Cardinality(S)
         /\ \E s \in [1..Cardinality(S) -> S] :
              s[1] = a /\ \A r \in S : \E n \in 1..Cardinality(S) : s[n] = r
  <1>1. Cardinality(S) \in Nat /\ Cardinality(S) # 0
    BY FS_CardinalityType, FS_EmptySet
  <1>2. PICK k \in Nat : k = Cardinality(S) /\ k # 0
    BY <1>1
  <1>3. PICK t \in Bijection(1..k, S) : TRUE
    BY <1>2, FS_CardinalityType DEF ExistsBijection
  <1>4. t \in [1..k -> S] /\ \A r \in S : \E n \in 1..k : t[n] = r
    BY <1>3 DEF Bijection, Surjection
  <1>5. PICK p \in 1..k : t[p] = a
    BY <1>4
  <1>. DEFINE s == [n \in 1..k |-> IF n = 1 THEN a ELSE IF n = p THEN t[1] ELSE t[n]]
  <1>6. 1 \in 1..k
    BY <1>2
  <1>7. s \in [1..k -> S] /\ s[1] = a
    BY <1>4, <1>6
  <1>8. ASSUME NEW r \in S PROVE \E n \in 1..k : s[n] = r
    <2>1. PICK n \in 1..k : t[n] = r
      BY <1>4
    <2>2. CASE n = p
      BY <1>5, <1>6, <2>1, <2>2
    <2>3. CASE n = 1 /\ n # p
      BY <1>5, <1>6, <2>1, <2>3
    <2>4. CASE n # 1 /\ n # p
      BY <2>1, <2>4
    <2>. QED
      BY <2>2, <2>3, <2>4
  <1>. HIDE DEF s
  <1>9. \A r \in S : \E n \in 1..k : s[n] = r
    BY <1>8
  <1>. QED
    BY <1>2, <1>6, <1>7, <1>9

\* Whatever the mention says can be the outcome of the parser, so the merge of the
\* rows loses no combination of values.
THEOREM ParserComplete ==
  ASSUME NEW d \in Content, NEW type, NEW e \in DOMAIN Config
  PROVE  Extractions(d, type, e) \subseteq Parsed(d, type, e)
  <1>. SUFFICES ASSUME NEW x \in Extractions(d, type, e) PROVE x \in Parsed(d, type, e)
    OBVIOUS
  <1>1. PICK n \in Entities : /\ Subjects(d, e) = {n}
                              /\ \A f \in FieldsOf(e) : x[f] \in Bindings(d.values[n][f])
    BY DEF Extractions
  <1>2. /\ x \in [FieldsOf(e) -> Values \union {None}]
        /\ d.bytes <= MaxBytes /\ type \in d.readable /\ type \in Supported
        /\ d.values \in [Entities -> [FieldNames -> SUBSET Values]]
        /\ d.bytes \in Nat /\ MaxBytes \in Nat
    BY ParserAssumption DEF Extractions, Content
  <1>3. PICK g \in FieldsOf(e) : x[g] # None
    BY DEF Extractions
  <1>. DEFINE rows == Rows(d, e)
              first == [entity |-> n, fields |-> x]
  <1>4. IsFiniteSet(rows) /\ first \in rows
    BY <1>1, <1>2, RowsFinite DEF Rows
  <1>5. \A r \in rows : /\ r.entity = n
                        /\ \A f \in FieldsOf(e) : r.fields[f] \in Bindings(d.values[n][f])
    BY <1>1 DEF Rows
  <1>6. x \in Merges(d, e)
    <2>1. PICK s \in [1..Cardinality(rows) -> rows] :
            s[1] = first /\ \A r \in rows : \E m \in 1..Cardinality(rows) : s[m] = r
      BY <1>4, ListedFrom
    <2>2. Cardinality(rows) \in Nat /\ 1 \in 1..Cardinality(rows)
      BY <1>4, ListedFrom
    <2>. HIDE DEF rows
    <2>3. s \in Orders(rows)
      BY <2>1 DEF Orders
    <2>4. ASSUME NEW f \in FieldsOf(e) PROVE Merged(s, e)[f] = x[f]
      <3>1. CASE x[f] = None
        <4>1. d.values[n][f] \subseteq Values
          BY <1>2, FieldsKnown
        <4>2. Bindings(d.values[n][f]) = {None}
          BY <1>1, <3>1, <4>1, ParserAssumption DEF Bindings
        <4>3. Given(s, f) = {}
          BY <1>5, <2>1, <4>2 DEF Given
        <4>. QED
          BY <3>1, <4>3 DEF Merged
      <3>2. CASE x[f] # None
        <4>1. 1 \in Given(s, f) /\ Given(s, f) \in SUBSET Nat
              /\ \A m \in Given(s, f) : 1 <= m
          BY <2>1, <2>2, <3>2 DEF Given
        <4>2. ASSUME NEW q \in Given(s, f), \A m \in Given(s, f) : q <= m PROVE q = 1
          BY <4>1, <4>2
        <4>3. (CHOOSE q \in Given(s, f) : \A m \in Given(s, f) : q <= m) = 1
          BY <4>1, <4>2
        <4>. QED
          BY <2>1, <4>1, <4>3 DEF Merged
      <3>. QED
        BY <3>1, <3>2
    <2>5. Merged(s, e) = x
      BY <1>2, <2>4 DEF Merged
    <2>. QED
      BY <2>3, <2>5 DEF Merges, rows
  <1>7. SingleEntity(rows)
    <2>1. {r.entity : r \in rows} = {n}
      BY <1>4, <1>5
    <2>2. Cardinality({n}) = 1
      BY FS_Singleton
    <2>. QED
      BY <2>1, <2>2 DEF SingleEntity
  <1>8. Nothing(e) \notin Merges(d, e)
    <2>. SUFFICES ASSUME NEW s \in Orders(rows) PROVE Merged(s, e)[g] # None
      BY <1>3 DEF Merges, Nothing
    <2>1. /\ Cardinality(rows) \in Nat /\ s \in [1..Cardinality(rows) -> rows]
          /\ \A r \in rows : \E p \in DOMAIN s : s[p] = r
      BY <1>4, FS_CardinalityType DEF Orders
    <2>2. \A r \in rows : r.fields[g] # None
      <3>1. d.values[n][g] # {} /\ d.values[n][g] \subseteq Values
        BY <1>1, <1>2, <1>3, FieldsKnown DEF Bindings
      <3>. QED
        BY <1>5, <3>1, ParserAssumption DEF Bindings
    <2>. HIDE DEF rows
    <2>3. Given(s, g) # {} /\ Given(s, g) \in SUBSET Nat
      BY <1>4, <2>1, <2>2 DEF Given
    <2>4. PICK p \in Given(s, g) :
            p = CHOOSE q \in Given(s, g) : \A m \in Given(s, g) : q <= m
      BY <2>3, LeastPosition
    <2>. QED
      BY <1>3, <2>3, <2>4 DEF Merged, Given
  <1>9. Refusal(d, type, e) = "none"
    BY <1>1, <1>2, <1>7, <1>8 DEF Refusal
  <1>. QED
    BY <1>6, <1>9 DEF Parsed
-----------------------------------------------------------------------------
\* The registry.
RegistryInv == TypeOK /\ RequestsMatchRecords /\ PublishedAsRegistered /\ LookupTellsRecord

LEMMA ExtractionTyped ==
  ASSUME NEW d, NEW type, NEW e, e \in DOMAIN Config
  PROVE  Extractions(d, type, e) \subseteq Representation
  BY FieldsKnown DEF Extractions, Representation

\* The submission of one client changes, and nothing but the records, the requests sent
\* and the lost inserts besides.
Stepped(c, s) ==
  /\ submission' \in [Submitters -> Submission \union {None}]
  /\ submission'[c] = s
  /\ \A b \in Submitters \ {c} : submission'[b] = submission[b]

LEMMA SubmissionSteps ==
  ASSUME TypeOK, NEW c \in Submitters, NEW s \in Submission \union {None},
         submission' = [submission EXCEPT ![c] = s]
  PROVE  Stepped(c, s)
  BY DEF TypeOK, Stepped

LEMMA AdvanceSteps ==
  ASSUME TypeOK, NEW c \in Submitters, submission[c] # None,
         NEW step \in {"find", "parse", "insert", "consult", "publish"} \union Refusals,
         Advance(c, step)
  PROVE  /\ \E s \in Submission :
              /\ Stepped(c, s) /\ s # None
              /\ s.at = step /\ s.triad = Triad(c) /\ s.mention = submission[c].mention
         /\ UNCHANGED <<published, decided, lookup, submissions>>
  <1> DEFINE s == [submission[c] EXCEPT !.at = step, !.parsed = None]
  <1>1. submission[c] \in Submission
    BY DEF TypeOK
  <1>2. s \in Submission /\ s.at = step /\ s.triad = Triad(c) /\ s.mention = submission[c].mention
    BY <1>1 DEF Submission, Triad
  <1>3. submission' = [submission EXCEPT ![c] = s]
    BY DEF Advance
  <1>. HIDE DEF s
  <1>. QED
    BY <1>2, <1>3, SubmissionSteps, NoneAssumption DEF Advance

\* What a submission promises where it stands.
Fits(c) ==
  /\ In(c, "insert") =>
       /\ EntityType(c) \in DOMAIN Config
       /\ submission[c].parsed \in Extractions(submission[c].mention.content,
                                              submission[c].mention.type, EntityType(c))
  /\ In(c, "consult") \/ In(c, "publish") =>
       /\ Registered(Triad(c))
       /\ CanBeParsed(submission[c].mention.content, EntityType(c))
       /\ Triad(c) \notin lostInserts =>
            submission[c].mention.content = records[Triad(c)].mention.content

\* What stays true of all others, when records are only added.
LEMMA OthersKept ==
  ASSUME RegistryInv, NEW c \in Submitters, NEW s \in Submission \union {None},
         Stepped(c, s), Fits(c)',
         records' \in [Triads -> Record \union {None}],
         \A t \in Triads : Registered(t) => records'[t] = records[t],
         \A t \in Triads : records'[t] # None => Registered(t) \/ RecordIsExtract(t)',
         lostInserts \subseteq lostInserts', lostInserts' \subseteq Triads,
         UNCHANGED <<decided, lookup>>, submissions' \in Nat,
         published' \subseteq [triad: Triads, mention: Mention],
         \A p \in published' : p \in published \/
           (/\ Registered(p.triad)
            /\ CanBeParsed(p.mention.content, EntityTypeOf[p.triad])
            /\ p.triad \notin lostInserts => p.mention.content = records[p.triad].mention.content)
  PROVE  RegistryInv'
  <1>. USE DEF RegistryInv
  <1>1. \A t \in Triads : Registered(t) => Registered(t)' /\ (RecordIsExtract(t) => RecordIsExtract(t)')
    BY DEF Registered, RecordIsExtract, TypeOK
  <1>2. \A t \in Triads : Registered(t)' => RecordIsExtract(t)'
    BY <1>1 DEF RequestsMatchRecords, Registered
  <1>3. ASSUME NEW b \in Submitters PROVE Fits(b)'
    <2>1. CASE b = c
      BY <2>1
    <2>2. CASE b # c
      <3>1. submission'[b] = submission[b] /\ Fits(b)
        BY <2>2 DEF Stepped, RequestsMatchRecords, Fits
      <3>2. submission[b] # None => Triad(b) \in Triads
        BY DEF TypeOK, Submission, Triad
      <3>3. /\ In(b, "insert")' <=> In(b, "insert")
            /\ In(b, "consult")' <=> In(b, "consult")
            /\ In(b, "publish")' <=> In(b, "publish")
            /\ Triad(b)' = Triad(b) /\ EntityType(b)' = EntityType(b)
        BY <3>1 DEF In, Triad, EntityType
      <3>4. In(b, "consult") \/ In(b, "publish") => records'[Triad(b)] = records[Triad(b)] /\ records'[Triad(b)] # None
        BY <3>1, <3>2 DEF Fits, In, Registered
      <3>. QED
        BY <3>1, <3>3, <3>4 DEF Fits, CanBeParsed, Registered
    <2>. QED
      BY <2>1, <2>2
  <1>4. \A r \in Readers : lookup[r] # None => lookup[r].triad \in Triads
    BY DEF TypeOK, Lookup
  <1>5. RequestsMatchRecords'
    <2>1. decided' \subseteq {t \in Triads : Registered(t)'}
      BY <1>1 DEF RequestsMatchRecords
    <2>2. \A r \in Readers : Looking(r, "context")' => lookup'[r].triad \in decided'
      BY DEF RequestsMatchRecords, Looking
    <2>3. \A r \in Readers : lookup'[r] # None =>
            /\ lookup'[r].at = "prefetch" => lookup'[r].bulk
            /\ lookup'[r].at = "context" => ~lookup'[r].bulk
            /\ lookup'[r].early => lookup'[r].bulk /\ lookup'[r].context = None
            /\ lookup'[r].bulk /\ ~lookup'[r].early /\ lookup'[r].at \in {"decision", "told"} =>
                 /\ Registered(lookup[r].triad)'
                 /\ lookup'[r].context = records'[lookup'[r].triad].mention.context
      BY <1>1, <1>4 DEF RequestsMatchRecords
    <2>. QED
      BY <1>2, <1>3, <2>1, <2>2, <2>3 DEF RequestsMatchRecords, Fits, Registered
  <1>6. PublishedAsRegistered'
    <2> SUFFICES ASSUME NEW p \in published'
                 PROVE  /\ Registered(p.triad)' /\ RecordIsExtract(p.triad)'
                        /\ CanBeParsed(p.mention.content, EntityTypeOf[p.triad])
                        /\ p.triad \notin lostInserts' => p.mention.content = records'[p.triad].mention.content
      BY DEF PublishedAsRegistered, CanBeParsed
    <2>1. p.triad \in Triads
      OBVIOUS
    <2>2. /\ Registered(p.triad)
          /\ CanBeParsed(p.mention.content, EntityTypeOf[p.triad])
          /\ p.triad \notin lostInserts => p.mention.content = records[p.triad].mention.content
      BY DEF PublishedAsRegistered
    <2>. QED
      BY <1>1, <1>2, <2>1, <2>2
  <1>7. LookupTellsRecord'
    BY <1>1, <1>4 DEF LookupTellsRecord, Looking, Registered
  <1>8. TypeOK'
    BY DEF TypeOK, Stepped
  <1>. QED
    BY <1>5, <1>6, <1>7, <1>8
\* A client submits, and its request is looked up, parsed, and goes on or ends.
LEMMA SubmissionsKeep ==
  ASSUME RegistryInv, NEW c \in Submitters,
         \/ \E t \in Triads, x \in Submitted : SubmitMention(c, t, x)
         \/ FindRecord(c) \/ ParseMention(c) \/ ParseFails(c) \/ InsertDuplicate(c)
         \/ Replay(c) \/ Consult(c) \/ Publish(c) \/ Refuse(c)
  PROVE  RegistryInv'
  <1>0. TypeOK /\ Fits(c)
    BY DEF RegistryInv, RequestsMatchRecords, Fits
  <1>1. /\ records' = records => records' \in [Triads -> Record \union {None}]
        /\ records' = records => \A t \in Triads : records'[t] # None => Registered(t)
        /\ published \subseteq [triad: Triads, mention: Mention] /\ submissions \in Nat
        /\ lostInserts \subseteq Triads
    BY <1>0 DEF TypeOK, Registered
  <1>2. submission[c] # None => /\ submission[c] \in Submission /\ Triad(c) \in Triads
                                /\ submission[c].mention \in Mention
    BY <1>0 DEF TypeOK, Submission, Triad
  <1>3. ASSUME NEW t \in Triads, NEW x \in Submitted, SubmitMention(c, t, x) PROVE RegistryInv'
    <2> DEFINE s == [triad |-> t, mention |-> x, parsed |-> None, at |-> "find"]
    <2>1. s \in Submission
      BY MentionsAssumption DEF Submission
    <2>2. Stepped(c, s)
      BY <1>0, <1>3, <2>1, SubmissionSteps DEF SubmitMention
    <2>3. Fits(c)'
      BY <2>2 DEF Stepped, Fits, In
    <2>4. UNCHANGED <<records, published, decided, lookup, lostInserts>> /\ submissions' = submissions + 1
      BY <1>3 DEF SubmitMention
    <2>. HIDE DEF s
    <2>. QED
      BY <1>1, <2>1, <2>2, <2>3, <2>4, OthersKept
  <1>4. ASSUME NEW step \in {"consult", "parse", "conflict", "publish"} \union Refusals,
               Advance(c, step), submission[c] # None, UNCHANGED records,
               lostInserts \subseteq lostInserts', lostInserts' \subseteq Triads,
               step \in {"consult", "publish"} =>
                 /\ Registered(Triad(c))
                 /\ CanBeParsed(submission[c].mention.content, EntityType(c))
                 /\ Triad(c) \notin lostInserts' =>
                      submission[c].mention.content = records[Triad(c)].mention.content
        PROVE  RegistryInv'
    <2>1. PICK s \in Submission : /\ Stepped(c, s) /\ s # None
                                  /\ s.at = step /\ s.triad = Triad(c) /\ s.mention = submission[c].mention
      BY <1>0, <1>4, AdvanceSteps DEF Refusals
    <2>2. /\ In(c, "insert")' = FALSE
          /\ In(c, "consult")' \/ In(c, "publish")' => step \in {"consult", "publish"}
          /\ Triad(c)' = Triad(c) /\ EntityType(c)' = EntityType(c)
          /\ submission'[c].mention = submission[c].mention
      BY <1>4, <2>1 DEF Stepped, In, Triad, EntityType, Refusals
    <2>3. Fits(c)'
      BY <1>4, <2>2 DEF Fits, Registered, CanBeParsed
    <2>4. UNCHANGED <<published, decided, lookup, submissions>>
      BY <1>4 DEF Advance
    <2>. QED
      BY <1>1, <1>4, <2>1, <2>3, <2>4, OthersKept
  <1>5. ASSUME End(c), submission[c] # None,
               published' \subseteq [triad: Triads, mention: Mention],
               \A p \in published' : p \in published \/
                 (/\ Registered(p.triad)
                  /\ CanBeParsed(p.mention.content, EntityTypeOf[p.triad])
                  /\ p.triad \notin lostInserts => p.mention.content = records[p.triad].mention.content)
        PROVE  RegistryInv'
    <2>1. Stepped(c, None)
      BY <1>0, <1>5, SubmissionSteps DEF End
    <2>2. Fits(c)'
      BY <2>1 DEF Stepped, Fits, In
    <2>3. UNCHANGED <<records, decided, lookup, submissions, lostInserts>>
      BY <1>5 DEF End
    <2>. QED
      BY <1>1, <1>5, <2>1, <2>2, <2>3, OthersKept
  <1>6. CASE FindRecord(c)
    <2> DEFINE step == LookedUp(Triad(c), submission[c].mention)
    <2>1. /\ In(c, "find") /\ submission[c] # None /\ UNCHANGED <<records, lostInserts>>
          /\ Advance(c, step)
      BY <1>6 DEF FindRecord, In
    <2>2. step \in {"consult", "parse", "conflict"}
      BY DEF LookedUp
    <2>3. step = "consult" =>
            /\ Registered(Triad(c))
            /\ submission[c].mention.content = records[Triad(c)].mention.content
      BY DEF LookedUp
    <2>4. step = "consult" => CanBeParsed(submission[c].mention.content, EntityType(c))
      <3>1. step = "consult" => RecordIsExtract(Triad(c))
        BY <1>2, <2>1, <2>3 DEF RegistryInv, RequestsMatchRecords
      <3>2. step = "consult" => records[Triad(c)].mention.type \in ContentTypes
        <4>1. Registered(Triad(c)) => records[Triad(c)] \in Record
          BY <1>0, <1>2, <2>1 DEF TypeOK, Registered
        <4>. QED
          BY <2>3, <4>1 DEF Record, Mention
      <3>. QED
        BY <2>3, <3>1, <3>2 DEF RecordIsExtract, CanBeParsed, EntityType
    <2>. HIDE DEF step
    <2>. QED
      BY <1>1, <1>4, <2>1, <2>2, <2>3, <2>4
  <1>7. CASE ParseFails(c)
    <2>1. In(c, "parse") /\ submission[c] # None /\ UNCHANGED <<records, lostInserts>>
      BY <1>7 DEF ParseFails, In
    <2>2. Advance(c, "application_error") \/ Advance(c, "parsing_failed")
      BY <1>7 DEF ParseFails
    <2>. QED
      BY <1>1, <1>4, <2>1, <2>2 DEF Refusals
  <1>8. CASE ParseMention(c)
    <2> DEFINE x == submission[c].mention
    <2>1. /\ In(c, "parse") /\ submission[c] # None /\ submission[c] \in Submission
          /\ UNCHANGED <<records, published, decided, lookup, submissions, lostInserts>>
      BY <1>2, <1>8 DEF ParseMention, In
    <2>2. PICK p \in Parsed(x.content, x.type, EntityType(c)) :
            submission' = [submission EXCEPT ![c].at = "insert", ![c].parsed = p]
      BY <1>8 DEF ParseMention
    <2>3. x.content \in Content
      BY <1>2, <2>1, RegistryAssumption DEF Mention
    <2>4. p \in Extractions(x.content, x.type, EntityType(c))
      BY <2>3, ParserSound
    <2>5. EntityType(c) \in DOMAIN Config
      BY <2>2 DEF Parsed, Refusal
    <2>6. p \in Representation
      BY <2>4, <2>5, ExtractionTyped
    <2> DEFINE s == [submission[c] EXCEPT !.at = "insert", !.parsed = p]
    <2>7. s \in Submission /\ s.at = "insert" /\ s.parsed = p /\ s.triad = Triad(c) /\ s.mention = x
      BY <2>1, <2>6 DEF Submission, Triad
    <2>8. submission' = [submission EXCEPT ![c] = s]
      BY <2>2
    <2>. HIDE DEF s
    <2>9. Stepped(c, s)
      BY <1>0, <2>7, <2>8, SubmissionSteps
    <2>10. Fits(c)'
      BY <2>4, <2>5, <2>7, <2>9 DEF Stepped, Fits, In, Triad, EntityType
    <2>. QED
      BY <1>1, <2>1, <2>7, <2>9, <2>10, OthersKept
  <1>9. CASE InsertDuplicate(c)
    <2>1. /\ In(c, "insert") /\ submission[c] # None /\ Registered(Triad(c)) /\ Advance(c, "consult")
          /\ lostInserts' = lostInserts \union {Triad(c)} /\ UNCHANGED records
      BY <1>9 DEF InsertDuplicate, In
    <2>2. submission[c].mention.type \in ContentTypes
      BY <1>2, <2>1 DEF Mention
    <2>3. CanBeParsed(submission[c].mention.content, EntityType(c))
      BY <1>0, <2>1, <2>2 DEF Fits, CanBeParsed
    <2>. QED
      BY <1>1, <1>2, <1>4, <2>1, <2>3
  <1>10. CASE Consult(c)
    <2>1. /\ In(c, "consult") /\ submission[c] # None /\ Advance(c, "publish")
          /\ UNCHANGED <<records, lostInserts>>
      BY <1>10 DEF Consult, In
    <2>. QED
      BY <1>0, <1>1, <1>4, <2>1 DEF Fits
  <1>11. CASE Publish(c)
    <2> DEFINE p == [triad |-> Triad(c), mention |-> submission[c].mention]
    <2>1. /\ In(c, "publish") /\ submission[c] # None /\ End(c) /\ published' = published \union {p}
      BY <1>11 DEF Publish, In
    <2>2. p \in [triad: Triads, mention: Mention]
      BY <1>2, <2>1
    <2>3. /\ Registered(p.triad)
          /\ CanBeParsed(p.mention.content, EntityTypeOf[p.triad])
          /\ p.triad \notin lostInserts => p.mention.content = records[p.triad].mention.content
      BY <1>0, <2>1 DEF Fits, EntityType
    <2>. HIDE DEF p
    <2>. QED
      BY <1>1, <1>5, <2>1, <2>2, <2>3
  <1>12. CASE Replay(c) \/ Refuse(c)
    <2>1. submission[c] # None /\ End(c) /\ published' = published
      BY <1>12 DEF Replay, Refuse, In
    <2>. QED
      BY <1>1, <1>5, <2>1
  <1>. QED
    BY <1>3, <1>6, <1>7, <1>8, <1>9, <1>10, <1>11, <1>12
\* A record is added, by an insert that is acknowledged or by one that only seems to fail.
LEMMA InsertsKeep ==
  ASSUME RegistryInv, NEW c \in Submitters, InsertRecord(c) \/ RegistryFails(c)
  PROVE  /\ RegistryInv'
         /\ \A t \in Triads : Registered(t) => records'[t] = records[t]
  <1>0. TypeOK /\ Fits(c)
    BY DEF RegistryInv, RequestsMatchRecords, Fits
  <1>1. /\ submission[c] # None
        /\ In(c, "find") \/ In(c, "insert") \/ In(c, "consult")
        /\ UNCHANGED lostInserts
    BY DEF InsertRecord, RegistryFails, In
  <1>2. /\ submission[c] \in Submission /\ Triad(c) \in Triads
        /\ submission[c].mention \in Mention
    BY <1>0, <1>1 DEF TypeOK, Submission, Triad
  <1>3. \/ UNCHANGED records
        \/ /\ In(c, "insert") /\ ~Registered(Triad(c))
           /\ records' = [records EXCEPT ![Triad(c)] = RecordOf(c)]
    BY DEF InsertRecord, RegistryFails
  <1>4. In(c, "insert") => RecordOf(c) \in Record
    BY <1>0, <1>2, ExtractionTyped DEF Fits, RecordOf, Record
  <1>5. records' \in [Triads -> Record \union {None}]
    BY <1>0, <1>3, <1>4 DEF TypeOK
  <1>6. \A t \in Triads : Registered(t) => records'[t] = records[t]
    BY <1>0, <1>3 DEF TypeOK, Registered
  <1>7. \A t \in Triads : records'[t] # None => Registered(t) \/ RecordIsExtract(t)'
    <2> SUFFICES ASSUME NEW t \in Triads, records'[t] # None, ~Registered(t)
                 PROVE  RecordIsExtract(t)'
      OBVIOUS
    <2>1. In(c, "insert") /\ t = Triad(c) /\ records'[t] = RecordOf(c)
      BY <1>0, <1>3 DEF TypeOK, Registered
    <2>2. records'[t].mention = submission[c].mention /\ records'[t].parsed = submission[c].parsed
      BY <2>1 DEF RecordOf
    <2>. QED
      BY <1>0, <2>1, <2>2 DEF Fits, RecordIsExtract, EntityType
  <1>8. ASSUME NEW step \in {"consult", "unavailable"}, Advance(c, step),
               step = "consult" => InsertRecord(c)
        PROVE  RegistryInv'
    <2>1. PICK s \in Submission : /\ Stepped(c, s) /\ s # None
                                  /\ s.at = step /\ s.triad = Triad(c) /\ s.mention = submission[c].mention
      BY <1>0, <1>1, <1>8, AdvanceSteps DEF Refusals
    <2>2. /\ ~In(c, "insert")' /\ ~In(c, "publish")' /\ (In(c, "consult")' => step = "consult")
          /\ Triad(c)' = Triad(c) /\ EntityType(c)' = EntityType(c)
          /\ submission'[c].mention = submission[c].mention
      BY <1>8, <2>1 DEF Stepped, In, Triad, EntityType
    <2>3. step = "consult" => /\ In(c, "insert")
                              /\ records'[Triad(c)] = RecordOf(c)
                              /\ RecordOf(c) # None
      BY <1>0, <1>2, <1>4, <1>8, NoneAssumption DEF InsertRecord, TypeOK
    <2>4. step = "consult" => /\ Registered(Triad(c))'
                              /\ CanBeParsed(submission[c].mention.content, EntityType(c))
                              /\ submission[c].mention.content = records'[Triad(c)].mention.content
      <3>1. submission[c].mention.type \in ContentTypes
        BY <1>2 DEF Mention
      <3>. QED
        BY <1>0, <2>2, <2>3, <3>1 DEF Fits, CanBeParsed, Registered, RecordOf
    <2>5. Fits(c)'
      BY <2>2, <2>4 DEF Fits, CanBeParsed
    <2>6. UNCHANGED <<published, decided, lookup, submissions>>
      BY <1>8 DEF Advance
    <2>7. published' \subseteq [triad: Triads, mention: Mention] /\ submissions' \in Nat /\ lostInserts' \subseteq Triads
      BY <1>0, <1>1, <2>6 DEF TypeOK
    <2>. QED
      BY <1>1, <1>5, <1>6, <1>7, <2>1, <2>5, <2>6, <2>7, OthersKept
  <1>9. CASE InsertRecord(c)
    BY <1>6, <1>8, <1>9 DEF InsertRecord
  <1>10. CASE RegistryFails(c)
    BY <1>6, <1>8, <1>10 DEF RegistryFails
  <1>. QED
    BY <1>9, <1>10

\* A decision is only made of a mention on record.
LEMMA DecisionsKeep ==
  ASSUME RegistryInv, NEW t \in Triads, Decide(t)
  PROVE  RegistryInv'
  <1>1. /\ Registered(t) /\ decided' = decided \union {t}
        /\ UNCHANGED <<records, submission, published, lookup, submissions, lostInserts>>
    BY DEF Decide
  <1>2. TypeOK'
    BY <1>1 DEF RegistryInv, TypeOK
  <1>3. PublishedAsRegistered' /\ LookupTellsRecord'
    BY <1>1 DEF RegistryInv, PublishedAsRegistered, LookupTellsRecord, Registered, RecordIsExtract,
                CanBeParsed, Looking
  <1>4. RequestsMatchRecords'
    <2>1. \A c \in Submitters : Fits(c)'
      BY <1>1 DEF RegistryInv, RequestsMatchRecords, Fits, In, Registered, Triad, EntityType, CanBeParsed
    <2>2. \A b \in Triads : Registered(b)' => RecordIsExtract(b)'
      BY <1>1 DEF RegistryInv, RequestsMatchRecords, Registered, RecordIsExtract
    <2>3. decided' \subseteq {b \in Triads : Registered(b)'}
      BY <1>1 DEF RegistryInv, RequestsMatchRecords, Registered
    <2>4. \A r \in Readers : Looking(r, "context")' => lookup'[r].triad \in decided'
      BY <1>1 DEF RegistryInv, RequestsMatchRecords, Looking
    <2>5. \A r \in Readers : lookup'[r] # None =>
            /\ lookup'[r].at = "prefetch" => lookup'[r].bulk
            /\ lookup'[r].at = "context" => ~lookup'[r].bulk
            /\ lookup'[r].early => lookup'[r].bulk /\ lookup'[r].context = None
            /\ lookup'[r].bulk /\ ~lookup'[r].early /\ lookup'[r].at \in {"decision", "told"} =>
                 /\ Registered(lookup[r].triad)'
                 /\ lookup'[r].context = records'[lookup'[r].triad].mention.context
      BY <1>1 DEF RegistryInv, RequestsMatchRecords, Registered
    <2>. QED
      BY <1>1, <2>1, <2>2, <2>3, <2>4, <2>5 DEF RequestsMatchRecords, Fits, Registered
  <1>. QED
    BY <1>2, <1>3, <1>4 DEF RegistryInv
\* What a look-up promises where it stands.
Knows(r) ==
  /\ Looking(r, "context") => lookup[r].triad \in decided
  /\ lookup[r] # None =>
       /\ lookup[r].at = "prefetch" => lookup[r].bulk
       /\ lookup[r].at = "context" => ~lookup[r].bulk
       /\ lookup[r].early => lookup[r].bulk /\ lookup[r].context = None
       /\ lookup[r].bulk /\ ~lookup[r].early /\ lookup[r].at \in {"decision", "told"} =>
            /\ Registered(lookup[r].triad)
            /\ lookup[r].context = records[lookup[r].triad].mention.context
  /\ Looking(r, "told") =>
       /\ Registered(lookup[r].triad)
       /\ lookup[r].early => lookup[r].bulk /\ lookup[r].context = None
       /\ ~lookup[r].early => lookup[r].context = records[lookup[r].triad].mention.context

LEMMA LookupKept ==
  ASSUME RegistryInv, NEW r \in Readers, NEW l \in Lookup \union {None},
         LookupStep(r, l), Knows(r)'
  PROVE  RegistryInv'
  <1>1. UNCHANGED <<records, submission, published, decided, submissions, lostInserts>>
    BY DEF LookupStep
  <1>2. /\ lookup' \in [Readers -> Lookup \union {None}]
        /\ \A q \in Readers \ {r} : lookup'[q] = lookup[q]
    BY DEF LookupStep, RegistryInv, TypeOK
  <1>3. TypeOK'
    BY <1>1, <1>2 DEF RegistryInv, TypeOK
  <1>4. ASSUME NEW q \in Readers PROVE Knows(q)'
    <2>1. CASE q = r
      BY <2>1
    <2>2. CASE q # r
      BY <1>1, <1>2, <2>2 DEF RegistryInv, RequestsMatchRecords, LookupTellsRecord, Knows,
                              Looking, Registered
    <2>. QED
      BY <2>1, <2>2
  <1>5. \A c \in Submitters : Fits(c)'
    BY <1>1 DEF RegistryInv, RequestsMatchRecords, Fits, In, Registered, Triad, EntityType, CanBeParsed
  <1>6. /\ \A t \in Triads : Registered(t)' => RecordIsExtract(t)'
        /\ decided' \subseteq {t \in Triads : Registered(t)'}
    BY <1>1 DEF RegistryInv, RequestsMatchRecords, Registered, RecordIsExtract
  <1>7. RequestsMatchRecords'
    BY <1>4, <1>5, <1>6 DEF RequestsMatchRecords, Fits, Knows, Registered
  <1>8. PublishedAsRegistered'
    BY <1>1 DEF RegistryInv, PublishedAsRegistered, Registered, RecordIsExtract, CanBeParsed
  <1>9. LookupTellsRecord'
    BY <1>4 DEF Knows, LookupTellsRecord
  <1>. QED
    BY <1>3, <1>7, <1>8, <1>9 DEF RegistryInv

LEMMA LookupsKeep ==
  ASSUME RegistryInv, NEW r \in Readers,
         \/ \E t \in Triads, bulk \in BOOLEAN : AskLookup(r, t, bulk)
         \/ PrefetchContexts(r) \/ LookupDecision(r) \/ LookupContext(r)
         \/ LookupFails(r) \/ LookupEnds(r)
  PROVE  RegistryInv'
  <1>0. TypeOK /\ Knows(r)
    BY DEF RegistryInv, RequestsMatchRecords, LookupTellsRecord, Knows
  <1>1. ASSUME NEW l \in Lookup \union {None}, LookupStep(r, l)
        PROVE  lookup'[r] = l /\ UNCHANGED <<records, decided>>
    BY <1>0, <1>1 DEF TypeOK, LookupStep
  <1>2. lookup[r] # None => lookup[r] \in Lookup /\ lookup[r].triad \in Triads
    BY <1>0 DEF TypeOK, Lookup
  <1>3. \A t \in Triads : Registered(t) => ContextOf(t) = records[t].mention.context /\ ContextOf(t) \in Contexts
    BY <1>0 DEF TypeOK, Registered, ContextOf, Record, Mention
  <1>4. \A t \in decided : Registered(t)
    BY DEF RegistryInv, RequestsMatchRecords
  <1>5. ASSUME NEW t \in Triads, NEW bulk \in BOOLEAN, AskLookup(r, t, bulk) PROVE RegistryInv'
    <2> DEFINE l == [triad |-> t, bulk |-> bulk, early |-> FALSE, context |-> None,
                     at |-> IF bulk THEN "prefetch" ELSE "decision"]
    <2>1. /\ l \in Lookup /\ ~l.early /\ l.at \notin {"context", "told"}
          /\ (l.at = "prefetch" => l.bulk) /\ (l.bulk => l.at # "decision")
      BY DEF Lookup
    <2>2. LookupStep(r, l)
      BY <1>5 DEF AskLookup
    <2>. HIDE DEF l
    <2>3. Knows(r)'
      BY <1>1, <2>1, <2>2 DEF Knows, Looking
    <2>. QED
      BY <2>1, <2>2, <2>3, LookupKept
  <1>6. CASE PrefetchContexts(r)
    <2> DEFINE l == [lookup[r] EXCEPT !.at = "decision", !.context = ContextOf(lookup[r].triad),
                                      !.early = ~Registered(lookup[r].triad)]
               t == lookup[r].triad
    <2>1. Looking(r, "prefetch") /\ lookup[r] # None /\ LookupStep(r, l)
      BY <1>6 DEF PrefetchContexts, Looking
    <2>2. ContextOf(t) \in Contexts \union {None} /\ Registered(t) \in BOOLEAN
      BY <1>2, <1>3, <2>1 DEF ContextOf, Registered
    <2>3. /\ l \in Lookup /\ l.triad = t /\ l.at = "decision" /\ l.context = ContextOf(t)
          /\ l.early = ~Registered(t) /\ l.bulk = lookup[r].bulk
      BY <1>2, <2>1, <2>2 DEF Lookup
    <2>4. PICK k \in Lookup : /\ LookupStep(r, k) /\ k.triad = t /\ k.at = "decision"
                              /\ k.context = ContextOf(t) /\ k.early = ~Registered(t)
                              /\ k.bulk = lookup[r].bulk
      BY <2>1, <2>3
    <2>5. lookup[r].bulk
      BY <1>0, <2>1 DEF Knows, Looking
    <2>6. Knows(r)'
      BY <1>1, <1>2, <1>3, <2>1, <2>4, <2>5 DEF Knows, Looking, Registered, ContextOf
    <2>. QED
      BY <2>4, <2>6, LookupKept
  <1>7. CASE LookupDecision(r)
    <2> DEFINE step == IF lookup[r].triad \notin decided THEN "not_found"
                       ELSE IF lookup[r].bulk THEN "told" ELSE "context"
               l == [lookup[r] EXCEPT !.at = step]
    <2>1. Looking(r, "decision") /\ lookup[r] # None /\ LookupStep(r, l)
      BY <1>7 DEF LookupDecision, Looking
    <2>2. /\ l \in Lookup /\ l.triad = lookup[r].triad /\ l.context = lookup[r].context
          /\ l.early = lookup[r].early /\ l.bulk = lookup[r].bulk
          /\ l.at \in {"not_found", "told", "context"}
          /\ l.at = "context" => l.triad \in decided /\ ~l.bulk
          /\ l.at = "told" => l.triad \in decided /\ l.bulk
      BY <1>2, <2>1 DEF Lookup
    <2>3. /\ lookup[r].early => lookup[r].bulk /\ lookup[r].context = None
          /\ lookup[r].bulk /\ ~lookup[r].early =>
               lookup[r].context = records[lookup[r].triad].mention.context
      BY <1>0, <2>1 DEF Knows, Looking
    <2>. HIDE DEF l
    <2>4. Knows(r)'
      BY <1>1, <1>4, <2>1, <2>2, <2>3 DEF Knows, Looking, Registered
    <2>. QED
      BY <2>1, <2>2, <2>4, LookupKept
  <1>8. CASE LookupContext(r)
    <2> DEFINE l == [lookup[r] EXCEPT !.at = "told", !.context = ContextOf(lookup[r].triad)]
    <2>1. Looking(r, "context") /\ lookup[r] # None /\ LookupStep(r, l)
      BY <1>8 DEF LookupContext, Looking
    <2>2. Registered(lookup[r].triad)
      BY <1>0, <1>4, <2>1 DEF Knows
    <2>3. ContextOf(lookup[r].triad) = records[lookup[r].triad].mention.context
      BY <1>2, <1>3, <2>1, <2>2
    <2>4. /\ l \in Lookup /\ l.triad = lookup[r].triad /\ l.at = "told"
          /\ l.context = ContextOf(lookup[r].triad)
          /\ l.early = lookup[r].early /\ l.bulk = lookup[r].bulk
      BY <1>2, <1>3, <2>1, <2>2 DEF Lookup
    <2>5. lookup[r].early => lookup[r].bulk /\ lookup[r].context = None
      BY <1>0, <2>1 DEF Knows
    <2>6. ~lookup[r].early
      BY <1>0, <2>1 DEF Knows, Looking
    <2>. HIDE DEF l
    <2>7. Knows(r)'
      BY <1>1, <2>1, <2>2, <2>3, <2>4, <2>6 DEF Knows, Looking, Registered
    <2>. QED
      BY <2>1, <2>4, <2>7, LookupKept
  <1>9. CASE LookupFails(r)
    <2> DEFINE l == [lookup[r] EXCEPT !.at = "error"]
    <2>1. lookup[r] # None /\ LookupStep(r, l)
      BY <1>9 DEF LookupFails, Looking
    <2>2. /\ l \in Lookup /\ l.at = "error" /\ l.context = lookup[r].context
          /\ l.early = lookup[r].early /\ l.bulk = lookup[r].bulk
      BY <1>2, <2>1 DEF Lookup
    <2>3. lookup[r].early => lookup[r].bulk /\ lookup[r].context = None
      BY <1>0, <2>1 DEF Knows
    <2>. HIDE DEF l
    <2>4. Knows(r)'
      BY <1>1, <2>1, <2>2, <2>3 DEF Knows, Looking
    <2>. QED
      BY <2>1, <2>2, <2>4, LookupKept
  <1>10. CASE LookupEnds(r)
    <2>1. LookupStep(r, None)
      BY <1>10 DEF LookupEnds
    <2>2. Knows(r)'
      BY <1>1, <2>1 DEF Knows, Looking
    <2>. QED
      BY <2>1, <2>2, LookupKept
  <1>. QED
    BY <1>5, <1>6, <1>7, <1>8, <1>9, <1>10
\* The registry's invariant: every record represents the mention it was made of, every
\* request past the comparison brings the content on record, every decided mention is on
\* record, and a look-up past its context has that of the record.
LEMMA RegistryInvariant == Spec => []RegistryInv
  <1>1. Init => RegistryInv
    BY RegistryAssumption DEF Init, RegistryInv, TypeOK, RequestsMatchRecords, PublishedAsRegistered,
       LookupTellsRecord, Registered, In, Looking
  <1>2. RegistryInv /\ [Next]_vars => RegistryInv'
    <2> SUFFICES ASSUME RegistryInv, [Next]_vars
                 PROVE  RegistryInv'
      OBVIOUS
    <2>1. CASE UNCHANGED vars
      <3>1. /\ UNCHANGED <<records, submission, published, decided, lookup, submissions, lostInserts>>
            /\ TypeOK' = TypeOK
        BY <2>1 DEF vars, TypeOK
      <3>2. /\ \A t \in Triads : RecordIsExtract(t)' = RecordIsExtract(t)
            /\ RequestsMatchRecords' = RequestsMatchRecords
        BY <3>1 DEF RequestsMatchRecords, RecordIsExtract, In, Looking, Registered, Triad, EntityType, CanBeParsed
      <3>3. PublishedAsRegistered' = PublishedAsRegistered /\ LookupTellsRecord' = LookupTellsRecord
        BY <3>1 DEF PublishedAsRegistered, LookupTellsRecord, RecordIsExtract, Looking, Registered, CanBeParsed
      <3>. QED
        BY <3>1, <3>2, <3>3 DEF RegistryInv
    <2>2. ASSUME Next PROVE RegistryInv'
      BY <2>2, SubmissionsKeep, InsertsKeep, DecisionsKeep, LookupsKeep DEF Next
    <2>. QED
      BY <2>1, <2>2
  <1>. QED
    BY <1>1, <1>2, PTL DEF Spec

\* Whatever is on record, requested, sent, decided or looked up is well formed; the
\* stored representation has configured fields and values only.
THEOREM RegistryTyped == Spec => []TypeOK
  <1>1. RegistryInv => TypeOK
    BY DEF RegistryInv
  <1>. QED
    BY <1>1, RegistryInvariant, PTL

\* The representation on record is what the parser makes of the content on record, and
\* requests, decisions and look-ups past the registration agree with the record.
THEOREM RecordsMatch == Spec => []RequestsMatchRecords
  <1>1. RegistryInv => RequestsMatchRecords
    BY DEF RegistryInv
  <1>. QED
    BY <1>1, RegistryInvariant, PTL

\* The ERE is sent nothing but registered mentions that can be parsed, with the content
\* on record unless two first registrations of the mention overlapped.
THEOREM PublishedTruly == Spec => []PublishedAsRegistered
  <1>1. RegistryInv => PublishedAsRegistered
    BY DEF RegistryInv
  <1>. QED
    BY <1>1, RegistryInvariant, PTL

\* A look-up is told the context that the mention was registered with.
THEOREM LookupTold == Spec => []LookupTellsRecord
  <1>1. RegistryInv => LookupTellsRecord
    BY DEF RegistryInv
  <1>. QED
    BY <1>1, RegistryInvariant, PTL

\* A record once made never changes, whoever else registers the mention.
THEOREM RecordsStay == Spec => RecordIsImmutable
  <1> DEFINE Kept == \A t \in Triads : Registered(t) => records'[t] = records[t]
  <1>1. RegistryInv /\ [Next]_vars => Kept
    <2> SUFFICES ASSUME RegistryInv, [Next]_vars
                 PROVE  Kept
      OBVIOUS
    <2>1. CASE UNCHANGED vars
      BY <2>1 DEF vars
    <2>2. ASSUME NEW c \in Submitters,
                 \/ FindRecord(c) \/ ParseMention(c) \/ ParseFails(c) \/ InsertDuplicate(c)
                 \/ Replay(c) \/ Consult(c) \/ Publish(c) \/ Refuse(c)
          PROVE  records' = records
      BY <2>2 DEF FindRecord, ParseMention, ParseFails, InsertDuplicate, Replay, Consult, Publish,
                  Refuse, End
    <2>3. ASSUME NEW c \in Submitters, NEW t \in Triads, NEW x \in Submitted, SubmitMention(c, t, x)
          PROVE  records' = records
      BY <2>3 DEF SubmitMention
    <2>4. ASSUME \/ \E t \in Triads : Decide(t)
                 \/ \E r \in Readers, t \in Triads, bulk \in BOOLEAN : AskLookup(r, t, bulk)
                 \/ \E r \in Readers : \/ PrefetchContexts(r) \/ LookupDecision(r) \/ LookupContext(r)
                                       \/ LookupFails(r) \/ LookupEnds(r)
          PROVE  records' = records
      BY <2>4 DEF Decide, AskLookup, PrefetchContexts, LookupDecision, LookupContext, LookupFails,
                  LookupEnds, LookupStep
    <2>. QED
      BY <2>1, <2>2, <2>3, <2>4, InsertsKeep DEF Next
  <1>2. RegistryInv /\ [Next]_vars => [Kept]_vars
    BY <1>1
  <1>. QED
    BY <1>2, RegistryInvariant, PTL DEF Spec, RecordIsImmutable
================================================================================
