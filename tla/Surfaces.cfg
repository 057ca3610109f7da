\* Two requests, two openings at once, three windows, any number of worker deaths.
SPECIFICATION Spec
CHECK_DEADLOCK FALSE
CONSTANTS
    Requests = {r1, r2}
    Openers = {o1, o2}
    Windows = {w1, w2, w3}
    None = None
SYMMETRY Symmetry
INVARIANTS
    FlowIsShown
    OneWindow
    PageIsTold
