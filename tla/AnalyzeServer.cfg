\* One key at a time, two requests in flight, two windows, one stop and a start that
\* may find the file unreadable.
SPECIFICATION Spec
CONSTANTS
    Keys = {k1, k2}
    NoKey = NoKey
    Payments = {p1}
    NoPayment = NoPayment
    Requests = {r1, r2}
    BatchSizes = {2}
    AuthMode = "both"
    X402Enabled = TRUE
    HasDataDir = TRUE
    RateLimit = 2
    WINDOW_MS = 2
    KeysPerHour = 1
    HOUR_MS = 2
    MaxKeys = 1
    SWEEP_THRESHOLD = 0
    MaxUses = 0
    MaxTime = 2
    MaxStops = 1
SYMMETRY Symmetry
INVARIANTS
    RateKept
    AnalysesCharged
    PromisesSurvive
    PaidOnce
