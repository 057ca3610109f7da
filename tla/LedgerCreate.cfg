\* Two first payments of one merchant at once.
SPECIFICATION Spec
CONSTANTS
    DAY_MS = 2
    HOUR_MS = 1
    MandateMs = 2
    CapPerTx = 2
    CapPerHour = 2
    CapPerDay = 2
    MaxX402PerTx = 2
    AutoApprove = {TRUE}
    EntryPoints = {"review"}
    OwnerCalls = {}
    StartsLive = FALSE
    NumRequests = 2
    Amounts = {2}
    MaxOwnerCalls = 0
    MaxTime = 2
INVARIANTS
    DayCapHolds
CHECK_DEADLOCK FALSE
