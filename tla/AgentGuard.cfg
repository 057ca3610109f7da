\* One call of the agent over every kind of transaction, alone and in pairs, with
\* faults of the answer and one transaction of others.
SPECIFICATION FairSpec
CONSTANTS
    u = u
    o = o
    n = n
    token = token
    other = other
    Pairs = TRUE
    Accounts <- MCAccounts
    Contracts <- MCContracts
    MaxSimulationOperations = 2
    PPM = 100
    RiskyContracts = {token}
    KnownSafeContracts = {token}
    Malicious = {o}
    UnlimitedTrustline = 9
    User = u
    Envelopes <- MCEnvelopes
    Nonces = {1}
    Background <- MCBackground
    Ledgers <- MCLedgers
    Configs <- MCConfigs
    MaxMoves = 1
INVARIANTS
    SignedIsVouched
    EstimateIsFloor
PROPERTIES
    BalancesWithinPolicy
    ForbiddenStaysAway
    CallSettles
CHECK_DEADLOCK FALSE
