\* One merchant over two days, two grants to either of two sub-keys: merging,
\* pruning, renewal, revocation and reinstallation.
SPECIFICATION Spec
CONSTANTS
    Wallets = {w1}
    Merchants = {m1}
    SubKeys = {k1, k2}
    DAY_SECONDS = 4
    SPEND_BUCKET_SECONDS = 2
    MAX_MANDATE_SECONDS = 12
    Caps = {0, 4}
    Amounts = {0, 1, 2}
    Mandates = {0, 6, 13}
    MaxTime = 8
    MaxGrants = 2
SYMMETRY Symmetry
INVARIANTS
    CapNeverExceeded
    RefusesAtMostOneBucketEarly
PROPERTIES
    RevocationFinal
    ImplementsMandate
