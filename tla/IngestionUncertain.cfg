CONSTANTS
    j1 = j1
    j2 = j2
    i1 = i1
    w1 = w1
    w2 = w2
    None = None
    Job = {j1}
    Identity = {i1}
    IdentityOf <- SameSource
    Worker = {w1}
    MaxGeneration = 0
    MaxStep = 1
    MaxFaults = 1
    MaxAdmin = 0
    AdminStatus = {"failed"}
SPECIFICATION Spec
CHECK_DEADLOCK FALSE
SYMMETRY Symmetry
INVARIANT UncertainStaysOpen
