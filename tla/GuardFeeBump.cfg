\* A fee bump whose fee the verdict did not see.
SPECIFICATION GuardSpec
CONSTANTS
    u = u
    o = o
    n = n
    token = token
    other = other
    Pairs = FALSE
    Accounts <- MCAccounts
    Contracts <- MCContracts
    MaxSimulationOperations = 2
    PPM = 100
    RiskyContracts = {token}
    KnownSafeContracts = {token}
    Malicious = {o}
    UnlimitedTrustline = 9
    User = u
    Envelopes <- MCEnvelopes
    Nonces = {1}
    Background <- MCBackground
    Ledgers <- MCLedgers
    Configs <- MCConfigs
    MaxMoves = 1
PROPERTY
    LossAsDocumented
CHECK_DEADLOCK FALSE
