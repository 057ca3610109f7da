\* The clock stands still: no mandate lapses. Two popups may be open at a time.
SPECIFICATION Spec
CONSTANTS
    Assets = {1}
    c1 = c1
    c2 = c2
    Calls = {c1, c2}
    MandateTicks = 0
    MaxKeys = 2
    MaxNonce = 2
    MaxEvents = 1
    MaxTime = 0
SYMMETRY Symmetry
INVARIANTS
    RetiredIsRejected
