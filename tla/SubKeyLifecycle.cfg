\* Two calls at a time on one asset; a mandate ends with the tick it was granted in.
SPECIFICATION Spec
CONSTANTS
    Assets = {1}
    c1 = c1
    c2 = c2
    Calls = {c1, c2}
    MandateTicks = 0
    MaxKeys = 2
    MaxNonce = 2
    MaxEvents = 1
    MaxTime = 1
SYMMETRY Symmetry
INVARIANTS
    KeyInStep
    RevokedCannotPay
    OneUsableKey
