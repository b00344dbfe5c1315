SPECIFICATION Spec
CONSTANTS
  v1 = v1
  v2 = v2
  d1 = d1
  d2 = d2
  a1 = a1
  a2 = a2
  Versions = {v1, v2}
  Digests = {d1, d2}
  Callers = {a1, a2}
  Readers = {a1, a2}
  Pages = {TRUE, FALSE}
  NoVersion = NoVersion
  Ttl = 1
  Latency = 1
  MaxTime = 6
  MaxEpoch = 4
  Null = Null
  RowIds = {1, 2, 3}
  BaseTables <- TableSet
  NotFinite = {9}
  Declared <- Dictionary
  Linked = {"other"}
  Queries <- QuerySet
  MaxRows = 2
  MaxAsks = 2
  NoBinding = NoBinding
  DocumentVersions <- VersionTable
  Requests <- QuestionSet
  Chunks <- ChunkSet
  MaxChunks = 3
  Totals = {2}
  Authorized = {"s1", "s2"}
  Tenant = "t1"
SYMMETRY Symmetry
CHECK_DEADLOCK FALSE
INVARIANTS CatalogRight MetricRight RetrievalRight
PROPERTY NeverOlder
