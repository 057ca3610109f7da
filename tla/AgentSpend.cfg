\* One key, two transactions at a time, three commands, one of them a setup.
SPECIFICATION AgentSpec
CONSTANTS
    Wallets = {w1}
    Merchants = {m1}
    SubKeys = {k1}
    DAY_SECONDS = 2
    SPEND_BUCKET_SECONDS = 1
    MAX_MANDATE_SECONDS = 9
    Caps = {1}
    Amounts = {1}
    Mandates = {2}
    MaxTime = 4
    MaxGrants = 2
    Wallet = w1
    Merchant = m1
    TX_TIMEOUT_SECONDS = 1
    POLL_MARGIN = 1
    FUND_TIMEOUT = 2
    FUND_ATTEMPTS = 1
    MANDATE_SECONDS = 2
    Slots = {1, 2}
    MaxFunds = 1
    MaxCommands = 3
INVARIANTS
    FailureIsFinal
    GrantedKeyWorks
CHECK_DEADLOCK FALSE
