CONSTANTS
    j1 = j1
    j2 = j2
    i1 = i1
    w1 = w1
    w2 = w2
    None = None
    Job = {j1, j2}
    Identity = {i1}
    IdentityOf <- SameSource
    Worker = {w1, w2}
    MaxGeneration = 1
    MaxStep = 1
    MaxFaults = 3
    MaxAdmin = 1
    AdminStatus = {"failed"}
SPECIFICATION PartsSpec
CHECK_DEADLOCK FALSE
SYMMETRY Symmetry
INVARIANT TypeOK UploadedOnce Continues NeverAhead IndexedParsed
PROPERTY CursorOnlyAdvances
