\* One merchant nobody has approved, paused and resumed by the owner.
SPECIFICATION Spec
CONSTANTS
    DAY_MS = 2
    HOUR_MS = 1
    MandateMs = 2
    CapPerTx = 1
    CapPerHour = 1
    CapPerDay = 1
    MaxX402PerTx = 1
    AutoApprove = {TRUE}
    EntryPoints = {"review"}
    OwnerCalls = {"pause", "unpause"}
    StartsLive = FALSE
    NumRequests = 2
    Amounts = {1}
    MaxOwnerCalls = 2
    MaxTime = 0
INVARIANTS
    AutoSignNeedsApproval
CHECK_DEADLOCK FALSE
