CONSTANTS
    m1 = m1
    m2 = m2
    p1 = p1
    p2 = p2
    w1 = w1
    w2 = w2
    r1 = r1
    None = None
    Msg = {m1, m2}
    Pub = {p1}
    Worker = {w1, w2}
    Resource = {r1}
    ResourceOf <- OneResource
    MaxAttempts = 1
    PumpLimit = 1
    MaxFaults = 1
    MaxReplays = 0
    ClockMaySlip = FALSE
    Schedule <- Immediate
SPECIFICATION Spec
SYMMETRY Symmetry
PROPERTY ImplementsContract
