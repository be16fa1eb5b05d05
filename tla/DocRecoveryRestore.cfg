CONSTANTS
    d1 = d1
    d2 = d2
    d3 = d3
    w1 = w1
    w2 = w2
    w3 = w3
    Desktop = {d1, d2}
    Window = {w1, w2, w3}
    None = none
    Failing = {"pass", "fault", "restore"}
    MaxTexts = 2
    MaxFaults = 1
SPECIFICATION Spec
INVARIANTS NotLost
CHECK_DEADLOCK FALSE
