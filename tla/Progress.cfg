SPECIFICATION Spec
CONSTANTS
  t1 = t1
  t2 = t2
  p1 = p1
  p2 = p2
  c1 = c1
  c2 = c2
  c3 = c3
  Fetchers = {t1, t2}
  Chunks = 2
  Uses <- UseTable
  Processes = {p1, p2}
  Contents = {c1, c2, c3}
  NoContent = NoContent
  Rows <- RowTable
  Tables = 2
  SemanticLimit <- SemanticMishapTable
  Principals <- Askers
  ProviderEnabled = TRUE
  MaxBreaks = 3
  MaxReloads = 2
  NoCursor = NoCursor
  None = None
  Workers = {w1, w2}
  Settings <- Found
  Consumed <- QueueTables
  Required = {"ping", "ingest"}
  TaskSets <- Images
  Budget = 3
  ReplyTimeout = 1
  MaxChanges = 2
CHECK_DEADLOCK FALSE
INVARIANTS FilesRight SemanticRight StreamRight ProbeRight
PROPERTIES ReturnedRight Heals Settles Followed Ends
