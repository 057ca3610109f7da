\* Two requests for an unknown merchant, the popup and one call of the owner, in
\* every order, under the worker's fairness.
SPECIFICATION FairSpec
CONSTANTS
    DAY_MS = 2
    HOUR_MS = 1
    MandateMs = 2
    CapPerTx = 2
    CapPerHour = 1
    CapPerDay = 2
    MaxX402PerTx = 2
    AutoApprove = {TRUE, FALSE}
    EntryPoints = {"review", "auth"}
    OwnerCalls = {"pause", "unpause", "revoke"}
    StartsLive = FALSE
    NumRequests = 2
    Amounts = {1}
    MaxOwnerCalls = 1
    MaxTime = 1
INVARIANTS
    LogWithinCaps
    CapsHoldUnlessLost
PROPERTIES
    RequestsAnswered
CHECK_DEADLOCK FALSE
