\* Two auth entries of one approved merchant against its daily cap.
SPECIFICATION Spec
CONSTANTS
    DAY_MS = 2
    HOUR_MS = 1
    MandateMs = 2
    CapPerTx = 2
    CapPerHour = 2
    CapPerDay = 2
    MaxX402PerTx = 2
    AutoApprove = {TRUE}
    EntryPoints = {"auth"}
    OwnerCalls = {}
    StartsLive = TRUE
    NumRequests = 2
    Amounts = {2}
    MaxOwnerCalls = 0
    MaxTime = 1
INVARIANTS
    EntryPointsEnforceCaps
CHECK_DEADLOCK FALSE
