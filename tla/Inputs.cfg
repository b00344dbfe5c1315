SPECIFICATION Spec
CONSTANTS
  j1 = j1
  j2 = j2
  Missing = Missing
  RefLists <- ReferenceLists
  Objects <- Held
  Copies <- BodySet
  Versions = {"v1", "v2"}
  Types = {"text"}
  MaxSize = 3
  MaxChunk = 2
  MaxReplaced = 2
  Unset = Unset
  Jobs = {j1, j2}
  Configs <- SettingSet
  Initial <- DatasetLists
  Names = {"n", "m"}
  Tenants = {"t1", "t2"}
  PageSize = 2
  MaxPages = 2
  MaxDeploys = 2
  MaxCreated = 1
  MaxDeleted = 1
  MaxRuns = 2
  MaxUpdates = 1
  None = None
  Pids = {1}
  MaxAge = 2
  Interval = 1
  MaxClock = 3
  MaxStarts = 2
  MaxBoots = 1
  MaxSuspends = 1
  MaxTicks = 2
  MaxSends = 1
SYMMETRY Symmetry
CHECK_DEADLOCK FALSE
INVARIANTS ContentRight BindingRight
PROPERTIES ReceiptKept ReportsTrue
