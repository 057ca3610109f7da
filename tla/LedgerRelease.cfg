\* Two payments of one amount to an approved merchant, one of which fails to sign.
SPECIFICATION Spec
CONSTANTS
    DAY_MS = 2
    HOUR_MS = 1
    MandateMs = 2
    CapPerTx = 2
    CapPerHour = 1
    CapPerDay = 2
    MaxX402PerTx = 2
    AutoApprove = {TRUE}
    EntryPoints = {"review"}
    OwnerCalls = {}
    StartsLive = TRUE
    NumRequests = 2
    Amounts = {1}
    MaxOwnerCalls = 0
    MaxTime = 1
PROPERTIES
    ReleaseSparesOthers
CHECK_DEADLOCK FALSE
