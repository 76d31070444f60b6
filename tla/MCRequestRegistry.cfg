SPECIFICATION Spec
CONSTANTS
  t1 = t1
  y1 = y1
  y2 = y2
  c1 = c1
  c2 = c2
  r1 = r1
  n1 = n1
  n2 = n2
  org = org
  name = name
  code = code
  v = v
  w = w
  turtle = turtle
  xml = xml
  json = json
  ORGANISATION = ORGANISATION
  None = None
  Entities = {n1, n2}
  Classes = {org}
  FieldNames = {name, code}
  Values = {v, w}
  ContentTypes = {turtle, xml, json}
  Supported = {turtle, xml}
  Config <- MCConfig
  MaxBytes = 1
  Triads = {t1}
  EntityTypeOf <- MCEntityTypeOf
  Contents <- MCContents
  Contexts = {y1, y2}
  Submitted <- MCSubmitted
  Submitters = {c1, c2}
  Readers = {r1}
  MaxSubmissions = 3
INVARIANTS TypeOK PublishedAsRegistered LookupTellsRecord RequestsMatchRecords
PROPERTY RecordIsImmutable
SYMMETRY MCSymmetry
CHECK_DEADLOCK FALSE
