\* Two accounts, one login and one analysis at a time, two tomls, one order.
SPECIFICATION Spec
CHECK_DEADLOCK FALSE
CONSTANTS
    Accounts = {"a", "b"}
    Orders = {"o1"}
    Terms <- MCTerms
    Tomls <- MCTomls
    Txs <- MCTxs
    Canonical = "usdc"
    Unstated = "-"
    Logins = {l1}
    Jobs = {j1}
    TokenLives = {4}
    TomlTTL = 1
    AccountsTTL = 2
    Skew = 3
    TomlTimeout = 1
    AccountsTimeout = 1
    HttpTimeout = 1
INVARIANTS
    ConfirmedWithdrawal
    NoQuietAnchorPayment
    VouchedByTheAnchor
    TokenLastsTheRequest
