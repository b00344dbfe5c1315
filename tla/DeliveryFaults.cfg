CONSTANTS
    m1 = m1
    p1 = p1
    p2 = p2
    w1 = w1
    w2 = w2
    r1 = r1
    None = None
    Msg = {m1}
    Pub = {p1, p2}
    Worker = {w1, w2}
    Resource = {r1}
    ResourceOf <- OneResource
    MaxAttempts = 2
    PumpLimit = 1
    MaxFaults = 2
    MaxReplays = 1
    ClockMaySlip = TRUE
    Schedule <- AnySchedule
SPECIFICATION FaultsSpec
SYMMETRY Symmetry
INVARIANTS ExactlyOnce NobodyElseReleases ReleasedStaysReleased AttemptsBounded
PROPERTY FencedCommits
