\* Two accounts, two transactions, two tasks, and two stops, starts, switches,
\* failures or deaths of the worker; the network and the user may then do nothing.
SPECIFICATION FairSpec
CHECK_DEADLOCK FALSE
CONSTANTS
    Accounts = {a1, a2}
    Tasks = {t1, t2}
    MaxTx = 2
    MaxEvents = 2
INVARIANTS
    NothingSkipped
PROPERTIES
    DriftIsNoticed
