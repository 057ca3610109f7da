\* Up to two calls at a time, one overlap, on three accounts.
SPECIFICATION StoreSpec
CONSTANTS
    Calls = {c1, c2}
    MaxAccounts = 3
    MaxMeetings = 1
INVARIANTS
    AloneAgrees
    OwnSmartWallet
PROPERTIES
    AloneForgetsNothing
