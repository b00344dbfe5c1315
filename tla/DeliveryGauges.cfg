CONSTANTS
    None = None
    Msg = {m1}
    Pub = {p1}
    Worker = {w1}
    Resource = {r1}
    ResourceOf <- OneResource
    MaxAttempts = 2
    PumpLimit = 1
    MaxFaults = 1
    MaxReplays = 0
    ClockMaySlip = FALSE
    Schedule <- Later
    Scraper = {q1, q2}
    q1 = q1
    q2 = q2
    Observed = {m1}
SYMMETRY Scrapes
SPECIFICATION ObserveSpec
INVARIANTS GaugesRight
