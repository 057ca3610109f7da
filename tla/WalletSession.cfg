\* Two requests against locks, unlocks, resets, creation and worker death.
SPECIFICATION FairSpec
CONSTANTS
    Requests = {r1, r2}
    Calls = {c1}
INVARIANTS
    SignedAtMostOnce
    AnswersHideNothing
    LockedHoldsNoSeed
PROPERTIES
    RequestsSettle
    ImplementsSignFlow
